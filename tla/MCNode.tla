------------------------------- MODULE MCNode -------------------------------
(* What belongs to one node, side by side, for one run of TLC: its callback    *)
(* queue with a single worker, its list of entities and the making of them,    *)
(* its parameters and its logger, and the names, types, profiles and messages  *)
(* of its entities.  The parts share no state: a behaviour picks one of them   *)
(* and leaves the others in their first state.                                 *)
EXTENDS
  NodeExecutor, NodeEntities, Construction, Parameters, NodeLogger, Messages, Profiles, Names,
  Types

CONSTANTS w1, e1, e2, e3, gx, c1, c2, v0, v1

VARIABLE part

------------------------------------------------------------------------------

\* The timers e1 and e2 share the exclusive group gx.
OneGroup == e1 :> gx @@ e2 :> gx

\* Two clients that the context knows, and a publisher that it does not.
EntityKind == e1 :> "client" @@ e2 :> "client" @@ e3 :> "publisher"

\* Two entities of one node that have to do with each other.
Ask(one, other) ==
  [c \in CreateCalls |-> [kind |-> IF c = c1 THEN one ELSE other, topic |-> "a", type |-> "T"]]
PairsMade ==
  {Ask("publisher", "publisher"), Ask("publisher", "subscription"), Ask("client", "service"),
   Ask("action server", "action client"), Ask("timer", "subscription")}

\* Two descriptors: two ranges that both count, and read-only with a type.
Stretch(from, to, every) == [from |-> from, to |-> to, step |-> every]
Ranged == [type |-> Anything, readOnly |-> FALSE, ranges |-> <<Stretch(0, 3, 0), Stretch(0, 4, 2)>>]
ReadOnly == [type |-> "STRING", readOnly |-> TRUE, ranges |-> <<>>]
SomeDescriptors == {Ranged, ReadOnly}
SomeValues == [type : {"INTEGER"}, n : 1..2] \cup [type : {"STRING"}, n : {0}]
Item(n, v) == [name |-> n, value |-> v]
InBulk ==
  {<< <<Item("a", v), d>>, <<Item("b", [type |-> "INTEGER", n |-> 1]), Absent>> >> :
     v \in SomeValues, d \in SomeDescriptors}

\* A field of any kind beside one that may be a buffer; tf2_ros knows the first.
SomeKinds ==
  {"a" :> k @@ "b" :> l : k \in {"scalar", "list", "message"}, l \in {"scalar", "buffer"}}

\* A host without data sharing, one without loans, Windows, and one with both.
Host(sharing, windows, loans) == [sharing |-> sharing, windows |-> windows, loans |-> loans]
SomeHosts ==
  {Host(FALSE, FALSE, TRUE), Host(TRUE, FALSE, FALSE), Host(TRUE, TRUE, TRUE),
   Host(TRUE, FALSE, TRUE)}

SomeTypes == [bounded : BOOLEAN, plain : BOOLEAN]

\* The names a, a/b, a_b and those that look like names of DDS.
A == <<"a">>
RT == <<"rt">>
SomePaths == {<<A>>, <<A, <<"b">>>>, << <<"a", "b">> >>, <<RT, A>>, <<RT>>, <<A, RT>>}
SomeNamespaces == {<<>>, <<A>>, <<RT>>}

\* A module of one message, one of two services and a message, and one of an action,
\* which is passed as the module, as a wrapper, and as one that lacks a part.
Generated(base, half, under, pubsub) ==
  [base |-> base, half |-> half, under |-> under, pubsub |-> pubsub]
Halves(base) ==
  <<Generated(base, "Request", TRUE, FALSE), Generated(base, "Request", TRUE, TRUE),
    Generated(base, "Response", TRUE, FALSE), Generated(base, "Response", TRUE, TRUE)>>
PartsInOrder ==
  <<"Feedback", "FeedbackMessage", "GetResultRequest", "GetResultResponse", "Goal", "Result",
    "SendGoalRequest", "SendGoalResponse">>
SomeParts == {PartsInOrder[i] : i \in 1..8}
SomeModules ==
  "std_msgs" :> <<Generated("String", "", FALSE, FALSE), Generated("String", "", FALSE, TRUE)>>
    @@ "two" :> Halves("Bar") \o <<Generated("Foo", "", FALSE, FALSE)>> \o Halves("Foo")
    @@ "action" :> [i \in 1..16 |-> Generated("Go", PartsInOrder[(i + 1) \div 2], TRUE, i % 2 = 0)]
    @@ "cancel" :> Halves("CancelGoal")
SomeActions ==
  {[module |-> "action", base |-> "Go", flat |-> nested = {}, nested |-> nested] :
     nested \in {SomeParts, SomeParts \ {"Result"}, {}}}

------------------------------------------------------------------------------

Parts ==
  {"queue", "lists", "making", "parameters", "logger", "messages", "profiles", "names", "types"}

\* A part starts in one of its first states unless it is picked.
Idle(p, first) == part = p \/ first

NodeInit ==
  /\ part \in Parts
  /\ Idle("making", asked = Ask("publisher", "publisher"))
  /\ Idle("parameters", lenient = TRUE /\ declaring = <<>>)
  /\ Idle("messages", kinds = ("a" :> "scalar" @@ "b" :> "scalar") /\ classPatched = FALSE)
  /\ Idle("profiles", offered = SystemDefault /\ requested = SystemDefault)
  /\ Idle("profiles", type = [bounded |-> TRUE, plain |-> TRUE] /\ host = Host(TRUE, FALSE, TRUE))
  /\ Idle("names", namespace = <<>>)
  /\ Init /\ ListsInit /\ MakingInit /\ ParametersInit /\ LoggerInit
  /\ MessagesInit /\ ProfilesInit /\ NamesInit /\ TypesInit

\* The other parts stay as they are.
Only(p) ==
  /\ part = p /\ part' = p
  /\ IF p = "queue" THEN TRUE ELSE UNCHANGED vars
  /\ IF p = "lists" THEN TRUE ELSE UNCHANGED listVars
  /\ IF p = "making" THEN TRUE ELSE UNCHANGED makingVars
  /\ IF p = "parameters" THEN TRUE ELSE UNCHANGED parameterVars
  /\ IF p = "logger" THEN TRUE ELSE UNCHANGED loggerVars
  /\ IF p = "messages" THEN TRUE ELSE UNCHANGED messageVars
  /\ IF p = "profiles" THEN TRUE ELSE UNCHANGED profileVars
  /\ IF p = "names" THEN TRUE ELSE UNCHANGED nameVars
  /\ IF p = "types" THEN TRUE ELSE UNCHANGED typeVars

NodeNext ==
  \/ Only("queue") /\ Next
  \/ Only("lists") /\ ListsNext
  \/ Only("making") /\ MakingNext
  \/ Only("parameters") /\ ParametersNext
  \/ Only("logger") /\ LoggerNext
  \/ Only("messages") /\ MessagesNext
  \/ Only("profiles") /\ ProfilesNext
  \/ Only("names") /\ NamesNext
  \/ Only("types") /\ TypesNext

partVars ==
  <<listVars, makingVars, parameterVars, loggerVars, messageVars, profileVars, nameVars, typeVars>>

NodeSpec == NodeInit /\ [][NodeNext]_<<part, vars, partVars>>

=============================================================================
