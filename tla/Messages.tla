------------------------------ MODULE Messages ------------------------------
(* One message object in the hands of the program: the fields of the C++       *)
(* message behind it, the Python attributes that shadow them (assigned by the  *)
(* program, or set by expose_callable_fields), and what the paths of publish   *)
(* make of the two.  The binding's getters and setters are external.           *)
EXTENDS Naturals, FiniteSets

CONSTANTS
  Fields,       \* the fields of the message's class
  FieldKinds,   \* what they may be: functions field -> "scalar", "list", "message", "buffer"
  TfFields,     \* those that tf2_ros turns into properties
  FieldValues,  \* what the setters accept
  Refused,      \* what they refuse (a value of another type)
  Default,      \* a new message's fields
  Nothing

\* What tf2_ros makes properties of are messages and numbers.
ASSUME MessagesAssumption ==
  /\ Default \in FieldValues /\ FieldValues \cap Refused = {} /\ TfFields \subseteq Fields
  /\ Nothing \notin Fields
  /\ FieldKinds \subseteq [Fields -> {"scalar", "list", "message", "buffer"}]
  /\ \A k \in FieldKinds : \A f \in TfFields : k[f] # "buffer"

VARIABLES
  kinds,         \* field -> its kind
  classPatched,  \* the class has the __setattr__ of lwrclpy
  tf,            \* tf2_ros has patched the class
  native,        \* field -> value in the C++ message
  shadow,        \* field -> its entry in the object's __dict__: how it was set, value
  meant,         \* field -> the value last written by the program (history)
  givenUp,       \* fields whose last value the code gave up (README, known limits)
  sent           \* what the publish that has just ended sent, Nothing after other steps

messageVars == <<kinds, classPatched, tf, native, shadow, meant, givenUp, sent>>
classVars == <<kinds, classPatched, tf>>

\* An attribute is absent, the program's own value, a proxy that holds a value
\* (a reference to the submessage for a "message"), or a view of the C++ memory.
NoShadow == [of |-> "none", value |-> Default]
Own(v) == [of |-> "plain", value |-> v]
Proxy(v) == [of |-> "proxy", value |-> v]
View == [of |-> "view", value |-> Default]
Shadows ==
  [of : {"plain"}, value : FieldValues \cup Refused]
    \cup [of : {"proxy"}, value : FieldValues] \cup {NoShadow, View}

IsProperty(f) == tf /\ f \in TfFields

\* A buffer has a plain attribute of the program beside its C++ memory, which is
\* what a reader of the buffer gets.
Overlooked(f) == kinds[f] = "buffer" /\ shadow[f].of = "plain"

\* What the side channel got: the value of a field, and whether the program's
\* attribute beside it was overlooked (history).
NoSide == [of |-> Nothing, value |-> Nothing, overlooked |-> FALSE]
Sides == [of : Fields, value : FieldValues, overlooked : BOOLEAN] \cup {NoSide}
Payloads == [main : [Fields -> FieldValues \cup {Nothing}], side : Sides]

MessagesTypeOK ==
  /\ kinds \in FieldKinds /\ classPatched \in BOOLEAN /\ tf \in BOOLEAN
  /\ native \in [Fields -> FieldValues] /\ shadow \in [Fields -> Shadows]
  /\ meant \in [Fields -> FieldValues \cup Refused] /\ givenUp \subseteq Fields
  /\ sent \in Payloads \cup {Nothing}

MessagesInit ==
  /\ kinds \in FieldKinds /\ classPatched \in BOOLEAN /\ tf = FALSE
  /\ native = [f \in Fields |-> Default] /\ shadow = [f \in Fields |-> NoShadow]
  /\ meant = native /\ givenUp = {} /\ sent = Nothing

------------------------------------------------------------------------------
(* What a field reads as.                                                      *)

\* The attribute holds the value itself, not a reference into the message.
HoldsValue(f) ==
  shadow[f].of = "plain" \/ (shadow[f].of = "proxy" /\ kinds[f] # "message")

Held(f) == IF HoldsValue(f) THEN shadow[f].value ELSE native[f]

\* msg.field, for the program.
Read(f) == IF IsProperty(f) THEN native[f] ELSE Held(f)

\* _get_value: the binding's own view of the C++ memory comes first.
GetValue(f) == IF kinds[f] = "buffer" THEN native[f] ELSE Held(f)

\* _copy_message_into: a field that the setter refuses stays as it was.
CopyMessageInto == [f \in Fields |-> IF GetValue(f) \in FieldValues THEN GetValue(f) ELSE Default]

------------------------------------------------------------------------------
(* Writing.                                                                    *)

Wrote(f, v) ==
  /\ meant' = [meant EXCEPT ![f] = v] /\ givenUp' = givenUp \ {f}
  /\ sent' = Nothing /\ UNCHANGED classVars

ToNative(f, v) == native' = [native EXCEPT ![f] = v] /\ UNCHANGED shadow /\ Wrote(f, v)
ToShadow(f, v) == shadow' = [shadow EXCEPT ![f] = Own(v)] /\ UNCHANGED native /\ Wrote(f, v)

\* msg.field = v: the setter if the attribute still is one and takes the value,
\* the object's __dict__ otherwise.
SetAttr(f, v) ==
  IF IsProperty(f) THEN v \in FieldValues /\ ToNative(f, v)
  ELSE IF classPatched /\ shadow[f].of = "none" /\ v \in FieldValues THEN ToNative(f, v)
  ELSE ToShadow(f, v)

\* msg.field(v), the style of the generated code.
CallSetter(f, v) ==
  ~IsProperty(f) /\ shadow[f].of = "none" /\ v \in FieldValues /\ ToNative(f, v)

\* A write into what msg.field (or msg.field()) returned.
InPlace(f, v) ==
  /\ kinds[f] # "scalar" /\ v \in FieldValues
  /\ IF ~IsProperty(f) /\ HoldsValue(f)
       THEN /\ shadow' = [shadow EXCEPT ![f].value = v]
            /\ UNCHANGED native /\ Wrote(f, v)
       ELSE ToNative(f, v)

\* A write through RosidlBuffer, which goes past the program's own attribute.
WriteBuffer(f, v) ==
  /\ kinds[f] = "buffer" /\ v \in FieldValues
  /\ native' = [native EXCEPT ![f] = v] /\ meant' = [meant EXCEPT ![f] = v]
  /\ givenUp' = IF HoldsValue(f) THEN givenUp \cup {f} ELSE givenUp \ {f}
  /\ sent' = Nothing /\ UNCHANGED <<classVars, shadow>>

\* _assign, as publish_buffer uses it: a proxy is callable and takes nothing.
Assign(f, v) ==
  /\ kinds[f] = "buffer" /\ v \in FieldValues /\ shadow[f].of # "proxy"
  /\ IF shadow[f].of = "none" THEN ToNative(f, v) ELSE ToShadow(f, v)

------------------------------------------------------------------------------
(* Publishing.                                                                 *)

\* (faulty: attributes of the program are exposed over)
ExposeOver(f, value, entry) ==
  IF IsProperty(f) THEN entry
  ELSE IF kinds[f] = "buffer" THEN View ELSE Proxy(value)

\* expose_callable_fields for one field, given its value and attribute by then.
Expose(f, value, entry) ==
  IF IsProperty(f) \/ entry.of \in {"plain", "view"} THEN entry
  ELSE IF kinds[f] = "buffer" THEN View
  ELSE Proxy(IF entry.of = "proxy" THEN entry.value ELSE value)

ExposeAll(values, entries) == [f \in Fields |-> Expose(f, values[f], entries[f])]

\* _materialize_shadow_attributes: the attributes go, their values to the setters.
Materialized(f) == ~IsProperty(f) /\ shadow[f].of # "none"
Applied ==
  [f \in Fields |-> IF Materialized(f) /\ Held(f) \in FieldValues THEN Held(f) ELSE native[f]]
Remaining == [f \in Fields |-> IF Materialized(f) THEN NoShadow ELSE shadow[f]]
Dropped == {f \in Fields : Materialized(f) /\ Held(f) \in Refused}

\* _publish_regular_message with an instance of the class.
WriteRegular(side) ==
  /\ native' = Applied /\ shadow' = ExposeAll(Applied, Remaining)
  /\ givenUp' = givenUp \cup Dropped /\ sent' = [main |-> Applied, side |-> side]
  /\ UNCHANGED <<classVars, meant>>

\* A copy is written: the message keeps its attributes.
WriteCopy(copy, side) ==
  /\ shadow' = ExposeAll(native, shadow)
  /\ sent' = [main |-> copy, side |-> side]
  /\ UNCHANGED <<classVars, native, meant, givenUp>>

PublishRegular == WriteRegular(NoSide)

\* A loaned sample (types of a fixed size), or a message of another class.
PublishLoaned ==
  /\ \A f \in Fields : kinds[f] \in {"scalar", "message"}
  /\ WriteCopy(CopyMessageInto, NoSide)

\* The side channel has the payload of a buffer, unless that is too small, as the
\* empty one of a new message is; the topic has the message too, or one without
\* the payload.
Side(f) == [of |-> f, value |-> GetValue(f), overlooked |-> Overlooked(f)]
PublishSharedMemory(f) ==
  /\ kinds[f] = "buffer" /\ GetValue(f) # Default
  /\ \/ WriteRegular(Side(f))
     \/ WriteCopy([CopyMessageInto EXCEPT ![f] = Nothing], Side(f))

\* What a subscription or a client gets is a new object, exposed at once.
Receive ==
  /\ sent # Nothing /\ \A f \in Fields : sent.main[f] # Nothing
  /\ native' = sent.main /\ meant' = sent.main /\ givenUp' = {} /\ sent' = Nothing
  /\ shadow' = ExposeAll(sent.main, [f \in Fields |-> NoShadow])
  /\ UNCHANGED classVars

------------------------------------------------------------------------------
(* The class is patched when its module is imported, or a node first uses it.  *)

PatchMessageClass ==
  /\ ~classPatched /\ classPatched' = TRUE /\ sent' = Nothing
  /\ UNCHANGED <<kinds, tf, native, shadow, meant, givenUp>>

\* The properties of tf2_ros hide what is in the __dict__ of older objects.
PatchTf ==
  /\ ~tf /\ tf' = TRUE /\ sent' = Nothing
  /\ givenUp' = givenUp \cup {f \in TfFields : HoldsValue(f) /\ shadow[f].value # native[f]}
  /\ UNCHANGED <<kinds, classPatched, native, shadow, meant>>

MessagesNext ==
  \/ \E f \in Fields : \E v \in FieldValues \cup Refused : SetAttr(f, v)
  \/ \E f \in Fields : \E v \in FieldValues :
       CallSetter(f, v) \/ InPlace(f, v) \/ WriteBuffer(f, v) \/ Assign(f, v)
  \/ PublishRegular \/ PublishLoaned \/ Receive
  \/ \E f \in Fields : PublishSharedMemory(f)
  \/ PatchMessageClass \/ PatchTf

MessagesSpec == MessagesInit /\ [][MessagesNext]_messageVars

------------------------------------------------------------------------------

\* The __dict__ of the object still has what a property of tf2_ros hides.
Hidden(f) == IsProperty(f) /\ shadow[f].of # "none"

\* Through any mixture of the ways to write a field, and of publishing the same
\* object over and over: the program reads what it wrote last, and that is what
\* the topic and the side channel get (expose_callable_fields, _get_value,
\* _materialize_shadow_attributes).  Left out are values the setters refuse,
\* attributes hidden by tf2_ros, and attributes the program set beside the memory
\* of a buffer after a publish had put its view there: _get_value takes the memory,
\* so the side channel gets the payload of before, and so does a message copied for
\* it, against "Instance attribute wins".
SentAsWritten ==
  \A f \in Fields : f \in givenUp \/
    /\ Read(f) = meant[f]
    /\ sent # Nothing =>
         /\ \/ sent.main[f] \in {meant[f], Nothing}
            \/ meant[f] \in Refused \/ Hidden(f) \/ Overlooked(f)
         /\ sent.side.of = f => sent.side.value = meant[f] \/ sent.side.overlooked
=============================================================================
