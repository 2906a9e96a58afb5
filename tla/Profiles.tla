------------------------------- MODULE Profiles -------------------------------
(* QoSProfile (lwrclpy/qos.py): what a profile makes of the QoS of a            *)
(* DataWriter or a DataReader, and how Publisher and Subscription ask for data  *)
(* sharing, do without when Fast DDS refuses, and turn automatic loans on.      *)
(* The QoS objects and the matching of them are DDS's (external).               *)
EXTENDS Integers

CONSTANTS
  Durations,   \* what the program may ask for, in nanoseconds
  PerSecond,   \* 10^9 in the code
  MaxSecond,   \* 2^31 - 1 in the code: infinity in a Duration_t
  NoDuration,  \* None: the default of the QoS object counts, which is infinity
  TypeTraits,  \* what PubSubTypes say of themselves: [bounded, plain]
  Hosts        \* environment and bindings: [sharing, windows, loans]

ASSUME ProfilesAssumption ==
  /\ Durations \subseteq Nat /\ NoDuration \notin Durations
  /\ {PerSecond, MaxSecond} \subseteq Nat \ {0}

VARIABLES
  offered,    \* the profile of a publisher
  requested,  \* the profile of a subscription
  type, host,
  writer,     \* the publisher's endpoint
  reader      \* the subscription's

profileVars == <<offered, requested, type, host, writer, reader>>

\* Before the endpoint is made, and when it could not be: the constructor raises.
NotYet == [made |-> "not yet"]
Never == [made |-> "never"]

------------------------------------------------------------------------------
(* Profiles.                                                                   *)

Reliabilities == {"best effort", "reliable"}
Durabilities == {"volatile", "transient local"}
Livelinesses == {"automatic", "by participant", "by topic"}

Profile(reliability, durability) ==
  [reliability |-> reliability, durability |-> durability, liveliness |-> "automatic",
   deadline |-> NoDuration, lease |-> NoDuration, lifespan |-> NoDuration]

\* The convenience constructors, but for what they say of depths and limits.
SensorData == Profile("best effort", "volatile")
SystemDefault == Profile("reliable", "volatile")
ActionStatusDefault == Profile("reliable", "transient local")
Presets == {SensorData, SystemDefault, ActionStatusDefault}

\* One of them with one or two settings of the program's own.
Lively == {[p EXCEPT !.liveliness = l] : p \in Presets, l \in Livelinesses}
Timely == {[SystemDefault EXCEPT !.deadline = d, !.lifespan = d] : d \in Durations}
Leased == {[SystemDefault EXCEPT !.liveliness = "by topic", !.lease = d] : d \in Durations}
Profiles == Presets \cup Lively \cup Timely \cup Leased

------------------------------------------------------------------------------
(* Applying them.                                                              *)

Infinity == [sec |-> MaxSecond, nanosec |-> PerSecond]

\* (faulty: more seconds than the field holds wrap round)
Wrapped(duration) ==
  IF duration = NoDuration THEN Infinity
  ELSE [sec |-> (duration \div PerSecond) % MaxSecond, nanosec |-> duration % PerSecond]

\* _apply_duration: from the last second on it is infinity.
ApplyDuration(duration) ==
  IF duration = NoDuration THEN Infinity
  ELSE IF duration \div PerSecond >= MaxSecond THEN Infinity
  ELSE [sec |-> duration \div PerSecond, nanosec |-> duration % PerSecond]

ApplyToReader(p) ==
  [reliability |-> p.reliability, durability |-> p.durability, liveliness |-> p.liveliness,
   deadline |-> ApplyDuration(p.deadline), lease |-> ApplyDuration(p.lease)]

\* A writer's has a lifespan too.
ApplyToWriter(p) ==
  [reliability |-> p.reliability, durability |-> p.durability, liveliness |-> p.liveliness,
   deadline |-> ApplyDuration(p.deadline), lease |-> ApplyDuration(p.lease),
   lifespan |-> ApplyDuration(p.lifespan)]

------------------------------------------------------------------------------
(* Making the endpoints.                                                       *)

\* _force_data_sharing_on_writer / _reader and what the type allows: on Windows a
\* writer has to be asked for it (the reader has not).
ForceOnWriter == type.bounded /\ host.sharing /\ ~host.windows
ForceOnReader == type.bounded /\ host.sharing

\* create_datawriter / _datareader: with data sharing if it is wanted, and once
\* more without when that is refused, which the object remembers.
Opened(qos, force) ==
  {[made |-> "made", qos |-> qos, shares |-> s, enabled |-> s] : s \in {force, FALSE}}
    \cup {Never}

MakeWriter ==
  /\ writer = NotYet /\ writer' \in Opened(ApplyToWriter(offered), ForceOnWriter)
  /\ UNCHANGED <<offered, requested, type, host, reader>>

MakeReader ==
  /\ reader = NotYet /\ reader' \in Opened(ApplyToReader(requested), ForceOnReader)
  /\ UNCHANGED <<offered, requested, type, host, writer>>

\* _automatic_loaned_publish_enabled: samples of a plain type are written in the
\* memory of the readers.
AutomaticLoans == writer.made = "made" /\ writer.enabled /\ type.plain /\ host.loans

ProfilesInit ==
  /\ offered \in Profiles /\ requested \in Profiles
  /\ type \in TypeTraits /\ host \in Hosts
  /\ writer = NotYet /\ reader = NotYet

ProfilesNext == MakeWriter \/ MakeReader

ProfilesSpec == ProfilesInit /\ [][ProfilesNext]_profileVars

------------------------------------------------------------------------------

\* Which of the two asks for more, of a kind whose values are ordered.
Rank(kind) ==
  CASE kind \in {"best effort", "volatile", "automatic"} -> 0
    [] kind \in {"reliable", "transient local", "by participant"} -> 1
    [] kind = "by topic" -> 2

NoLonger(a, b) == a.sec < b.sec \/ (a.sec = b.sec /\ a.nanosec <= b.nanosec)

\* DDS matches a writer and a reader when what is offered is no less than what is
\* requested (external).
Matches(w, r) ==
  /\ \A of \in {"reliability", "durability", "liveliness"} : Rank(w[of]) >= Rank(r[of])
  /\ \A of \in {"deadline", "lease"} : NoLonger(w[of], r[of])

\* The same of the profiles, where None and whatever a Duration_t cannot hold are
\* as long as can be.
Forever == MaxSecond * PerSecond
Length(d) == IF d = NoDuration THEN Forever ELSE IF d >= Forever THEN Forever ELSE d
Suits(p, q) ==
  /\ \A of \in {"reliability", "durability", "liveliness"} : Rank(p[of]) >= Rank(q[of])
  /\ \A of \in {"deadline", "lease"} : Length(p[of]) <= Length(q[of])

\* Two endpoints meet exactly when their profiles suit each other, for durations
\* of any length (QoSProfile._apply_duration), and automatic loans are on only
\* where Fast DDS has granted data sharing (Publisher.__init__).
AppliedAsMeant ==
  /\ writer.made = "made" /\ reader.made = "made" =>
       (Matches(writer.qos, reader.qos) <=> Suits(offered, requested))
  /\ AutomaticLoans => writer.shares
=============================================================================
