------------------------------ MODULE Parameters ------------------------------
(* The parameters of a Node (lwrclpy/node.py, parameters.py): declaring them   *)
(* one by one or in bulk, setting them one by one or all or none, and what a   *)
(* descriptor has to say about it.  Every call holds _parameters_lock for one  *)
(* step, except the bulk declaration, which takes it once for each.            *)
EXTENDS Integers, Sequences

CONSTANTS
  ParameterNames,
  ParameterValues,  \* records [type, n]; n counts for "INTEGER" only
  Descriptors,      \* records [type, readOnly, ranges], a range is [from, to, step]
  Anything,         \* NOT_SET: a descriptor without a type, a value without one
  Absent,           \* not declared, not described
  Malformed,        \* neither a Parameter nor a pair
  Bulks             \* what declare_parameters is given: sequences of <<item, descriptor>>

VARIABLES
  lenient,     \* allow_undeclared_parameters or automatic declaration
  value,       \* name -> _parameters
  descriptor,  \* name -> _parameter_descriptors
  declaring,   \* what declare_parameters has still to declare
  said,        \* name -> the descriptor its value was last checked against (history)
  fixed        \* name -> its value when it became read-only (history)

parameterVars == <<lenient, value, descriptor, declaring, said, fixed>>

Items == [name : ParameterNames, value : ParameterValues]
Batches == [1..2 -> Items \cup {Malformed}]

ASSUME ParametersAssumption ==
  /\ Bulks \subseteq Seq(Items \X (Descriptors \cup {Absent}))
  /\ Absent \notin ParameterValues \cup Descriptors /\ Malformed \notin Items

ParametersTypeOK ==
  /\ lenient \in BOOLEAN /\ declaring \in Seq(Items \X (Descriptors \cup {Absent}))
  /\ value \in [ParameterNames -> ParameterValues \cup {Absent}]
  /\ fixed \in [ParameterNames -> ParameterValues \cup {Absent}]
  /\ descriptor \in [ParameterNames -> Descriptors \cup {Absent}]
  /\ said \in [ParameterNames -> Descriptors \cup {Absent}]

\* A Node may be made with parameters of its own.
ParametersInit ==
  /\ lenient \in BOOLEAN
  /\ declaring \in {<<>>} \cup {<<<<i, Absent>>>> : i \in Items}
  /\ value = [n \in ParameterNames |-> Absent] /\ descriptor = [n \in ParameterNames |-> Absent]
  /\ said = descriptor /\ fixed = value

------------------------------------------------------------------------------
(* _validate_parameter_update                                                  *)

\* _validate_numeric_ranges: every range counts, and each in full.
InRange(n, range) ==
  /\ range.from <= n /\ n <= range.to
  /\ range.step # 0 => (n - range.from) % range.step = 0

\* _infer_type has given the value its type.
Fits(v, d) ==
  d # Absent =>
    /\ d.type \in {Anything, v.type}
    /\ v.type = "INTEGER" => \A i \in 1..Len(d.ranges) : InRange(v.n, d.ranges[i])

\* (faulty: the value counts, whether the parameter is there or not)
AcceptedUnread(p, d) == Fits(p.value, d)

Accepted(p, d) ==
  /\ d # Absent /\ d.readOnly => value[p.name] = Absent
  /\ Fits(p.value, d)

Settable(p) ==
  /\ p # Malformed
  /\ value[p.name] # Absent \/ lenient
  /\ Accepted(p, descriptor[p.name])

------------------------------------------------------------------------------

\* The values of the items that pass are stored in their order.
Stored(items) ==
  [n \in ParameterNames |->
    LET of == {i \in 1..Len(items) : items[i] # Malformed /\ items[i].name = n}
    IN IF of = {} THEN value[n] ELSE items[CHOOSE i \in of : \A j \in of : j <= i].value]

\* History: a descriptor that has let a value pass, a value that is fixed by one.
Remember(v, d, checked) ==
  /\ value' = v /\ descriptor' = d
  /\ said' = [n \in ParameterNames |-> IF n \in checked THEN d[n] ELSE said[n]]
  /\ fixed' = [n \in ParameterNames |->
                IF d[n] = Absent \/ v[n] = Absent THEN Absent
                ELSE IF ~d[n].readOnly THEN Absent
                ELSE IF fixed[n] = Absent THEN v[n] ELSE fixed[n]]

Declared(p, d) ==
  IF value[p.name] # Absent
    THEN Remember(value, [descriptor EXCEPT ![p.name] = IF d = Absent THEN @ ELSE d], {})
    ELSE Remember([value EXCEPT ![p.name] = p.value],
                  [descriptor EXCEPT ![p.name] = IF d = Absent THEN @ ELSE d], {p.name})

\* declare_parameter: one that is there keeps its value, whatever the new
\* descriptor says; a new one must pass, or the call raises.
DeclareParameter(p, d) ==
  /\ value[p.name] # Absent \/ Accepted(p, d)
  /\ Declared(p, d)
  /\ UNCHANGED <<lenient, declaring>>

DeclareParameters(bulk) ==
  /\ declaring = <<>> /\ declaring' = bulk
  /\ UNCHANGED <<lenient, value, descriptor, said, fixed>>

\* One that does not pass ends it: the ones before stay declared.
DeclareNext ==
  /\ declaring # <<>>
  /\ LET p == declaring[1][1]
         d == declaring[1][2]
     IN IF value[p.name] # Absent \/ Accepted(p, d)
          THEN Declared(p, d) /\ declaring' = Tail(declaring)
          ELSE declaring' = <<>> /\ UNCHANGED <<value, descriptor, said, fixed>>
  /\ UNCHANGED lenient

\* set_parameters (and set_parameter): each for itself, until a malformed one
\* raises.
SetParameters(items) ==
  LET upTo == {i \in 1..Len(items) : \A j \in 1..i : items[j] # Malformed}
      \* An earlier item of the call has declared the name: read-only is no more.
      passes == {i \in upTo : Settable(items[i])}
      kept == [i \in 1..Len(items) |-> IF i \in passes THEN items[i] ELSE Malformed]
  IN /\ Remember(Stored(kept), descriptor, {items[i].name : i \in passes})
     /\ UNCHANGED <<lenient, declaring>>

\* set_parameters_atomically: nothing is stored before all have passed.
SetParametersAtomically(items) ==
  /\ \A i \in 1..Len(items) : Settable(items[i])
  /\ Remember(Stored(items), descriptor, {items[i].name : i \in 1..Len(items)})
  /\ UNCHANGED <<lenient, declaring>>

ParametersNext ==
  \/ \E p \in Items : \E d \in Descriptors \cup {Absent} : DeclareParameter(p, d)
  \/ \E b \in Bulks : DeclareParameters(b)
  \/ DeclareNext
  \/ \E b \in Batches : SetParameters(b) \/ SetParametersAtomically(b)

ParametersSpec == ParametersInit /\ [][ParametersNext]_parameterVars

------------------------------------------------------------------------------

\* Whatever is declared, declared again and set, in bulk or not, between two
\* steps of a bulk declaration: a value fits the descriptor it was last checked
\* against, and what a descriptor has made read-only keeps its value.
AsDescribed ==
  \A n \in ParameterNames :
    /\ value[n] # Absent => Fits(value[n], said[n])
    /\ fixed[n] # Absent => value[n] = fixed[n]
=============================================================================
