--------------------------- MODULE NodePartsProofs ---------------------------
(* Theorems of the parts of a node beside its callback queue, for any values  *)
(* of their constants:                                                        *)
(* NodeEntities (destroy_node and the shutdown of the context leave nothing   *)
(* open behind them), Parameters (what is stored is what its descriptor       *)
(* allows), NodeLogger (a repetition is only left out where a call before it  *)
(* accounts for that), Messages (a message leaves as it was written),         *)
(* Profiles (an endpoint gets what the profile means), Types (what a module   *)
(* knows of its types), Construction (nothing of a failed entity is left      *)
(* open, nor a sample of a started one lost) and Names (entities meet exactly *)
(* when their names mean the same).                                           *)
EXTENDS
    NodeEntities, Construction, Parameters, NodeLogger, Messages, Profiles, Names,
    Types, FiniteSetTheorems, SequenceTheorems, WellFoundedInduction, TLAPS

-----------------------------------------------------------------------------
(* Sequences, their members, and what becomes of both.                       *)

Once(s) == \A i, j \in DOMAIN s : s[i] = s[j] => i = j

LEMMA NoMembers == ASSUME NEW S PROVE ToSet(<<>>) = {} /\ Once(<<>>) /\ <<>> \in Seq(S)
<1>1. <<>> \in Seq(S) /\ Len(<<>>) = 0
    BY EmptySeq
<1>2. DOMAIN <<>> = {}
    BY <1>1, LenProperties
<1> QED BY <1>1, <1>2 DEF ToSet, Once

LEMMA MembersOf == ASSUME NEW S, NEW s \in Seq(S) PROVE ToSet(s) = {s[i] : i \in 1..Len(s)} /\ ToSet(s) \subseteq S
<1>1. DOMAIN s = 1..Len(s) /\ \A i \in 1..Len(s) : s[i] \in S
    BY LenProperties, ElementOfSeq
<1> QED BY <1>1 DEF ToSet

\* An element that is appended joins the others.
LEMMA Appended ==
    ASSUME NEW S, NEW s \in Seq(S), NEW e \in S
    PROVE  /\ Append(s, e) \in Seq(S) /\ Append(s, e) # <<>> /\ Len(Append(s, e)) = Len(s) + 1
           /\ Append(s, e)[Len(s) + 1] = e /\ \A i \in 1..Len(s) : Append(s, e)[i] = s[i]
           /\ ToSet(Append(s, e)) = ToSet(s) \cup {e}
           /\ Once(s) /\ e \notin ToSet(s) => Once(Append(s, e))
<1> DEFINE n == Len(s)
           a == Append(s, e)
<1>1. /\ n \in Nat /\ DOMAIN s = 1..n /\ DOMAIN a = 1..(n + 1)
      /\ a \in Seq(S) /\ a # <<>> /\ Len(a) = n + 1
      /\ a[n + 1] = e /\ \A i \in 1..n : a[i] = s[i]
    BY AppendProperties, LenProperties
<1>2. \A i \in 1..(n + 1) : i \in 1..n \/ i = n + 1
    BY <1>1
<1>3. ToSet(a) = ToSet(s) \cup {e}
    BY <1>1, <1>2 DEF ToSet
<1>4. ASSUME Once(s), e \notin ToSet(s) PROVE Once(a)
    <2>1. ASSUME NEW i \in 1..(n + 1), NEW j \in 1..(n + 1), a[i] = a[j] PROVE i = j
        <3>1. \A k \in 1..n : s[k] # e
            BY <1>1, <1>4 DEF ToSet
        <3> QED BY <1>1, <1>2, <1>4, <2>1, <3>1 DEF Once
    <2> QED BY <1>1, <2>1 DEF Once
<1> QED BY <1>1, <1>3, <1>4

\* The first of a sequence leaves it, the others stay.
LEMMA FirstLeft ==
    ASSUME NEW S, NEW s \in Seq(S), s # <<>>
    PROVE  /\ Tail(s) \in Seq(S) /\ Head(s) \in S /\ Head(s) \in ToSet(s)
           /\ ToSet(s) = ToSet(Tail(s)) \cup {Head(s)}
<1> DEFINE n == Len(s)
           r == Tail(s)
<1>1. /\ n \in Nat \ {0} /\ DOMAIN s = 1..n /\ r \in Seq(S) /\ Head(s) \in S /\ Head(s) = s[1]
      /\ DOMAIN r = 1..(n - 1) /\ \A i \in 1..(n - 1) : r[i] = s[i + 1]
    BY HeadTailProperties, EmptySeq
<1>2. ASSUME NEW b \in ToSet(s), b # s[1] PROVE b \in ToSet(r)
    <2>1. PICK i \in 1..n : b = s[i]
        BY <1>1 DEF ToSet
    <2>2. i - 1 \in 1..(n - 1) /\ r[i - 1] = b
        BY <1>1, <1>2, <2>1
    <2> QED BY <1>1, <2>2 DEF ToSet
<1>3. ASSUME NEW b \in ToSet(r) PROVE b \in ToSet(s)
    <2>1. PICK i \in 1..(n - 1) : b = s[i + 1]
        BY <1>1 DEF ToSet
    <2>2. i + 1 \in 1..n
        BY <1>1
    <2> QED BY <1>1, <2>1, <2>2 DEF ToSet
<1>4. s[1] \in ToSet(s)
    BY <1>1 DEF ToSet
<1> QED BY <1>1, <1>2, <1>3, <1>4

\* A set of naturals has a least one.
LEMMA LeastOf ==
    ASSUME NEW I \in SUBSET Nat, I # {}
    PROVE  (CHOOSE x \in I : \A y \in I : x =< y) \in I
<1> DEFINE R == OpToRel(<, Nat)
<1>1. PICK x \in I : \A y \in I : ~ (<<y, x>> \in R)
    BY NatLessThanWellFounded, WFMin
<1>2. \A y \in I : ~ (y < x)
    BY <1>1 DEF OpToRel
<1>3. \E z \in I : \A y \in I : z <= y
    BY <1>2
<1> QED BY <1>3

\* What RemoveFirst leaves: the elements before the first place, those behind it.
LEMMA Removed ==
    ASSUME NEW S, NEW s \in Seq(S), NEW e, e \in ToSet(s)
    PROVE  \E n \in 1..Len(s) :
             /\ s[n] = e /\ RemoveFirst(s, e) \in Seq(S) /\ Len(RemoveFirst(s, e)) = Len(s) - 1
             /\ \A i \in 1..(Len(s) - 1) : RemoveFirst(s, e)[i] = IF i < n THEN s[i] ELSE s[i + 1]
<1> DEFINE I == {i \in 1..Len(s) : s[i] = e}
           n == CHOOSE x \in I : \A y \in I : x =< y
           a == SubSeq(s, 1, n - 1)
           b == SubSeq(s, n + 1, Len(s))
<1>1. Len(s) \in Nat /\ \A i \in 1..Len(s) : s[i] \in S
    BY LenProperties, ElementOfSeq
<1>2. n \in I
    <2>1. I \in SUBSET Nat /\ I # {}
        BY MembersOf
    <2> QED BY <2>1, LeastOf
<1>3. RemoveFirst(s, e) = a \o b
    BY <1>2 DEF RemoveFirst, SelectInSeq, Min, RemoveAt
<1> HIDE DEF n
<1>4. n \in 1..Len(s) /\ s[n] = e
    BY <1>2
<1>5. a \in Seq(S) /\ Len(a) = n - 1 /\ \A i \in 1..(n - 1) : a[i] = s[i]
    <2>1. /\ a \in Seq(S) /\ Len(a) = IF 1 <= n - 1 THEN n - 1 - 1 + 1 ELSE 0
          /\ \A i \in 1..(n - 1 - 1 + 1) : a[i] = s[1 + i - 1]
        BY <1>1, <1>4, SubSeqProperties
    <2>2. \A i \in 1..(n - 1) : i \in 1..(n - 1 - 1 + 1) /\ 1 + i - 1 = i
        BY <1>1, <1>4
    <2>3. (IF 1 <= n - 1 THEN n - 1 - 1 + 1 ELSE 0) = n - 1
        BY <1>1, <1>4
    <2> HIDE DEF a
    <2> QED BY <2>1, <2>2, <2>3
<1>6. b \in Seq(S) /\ Len(b) = Len(s) - n /\ \A i \in 1..(Len(s) - n) : b[i] = s[i + n]
    <2>1. /\ b \in Seq(S) /\ Len(b) = IF n + 1 <= Len(s) THEN Len(s) - (n + 1) + 1 ELSE 0
          /\ \A i \in 1..(Len(s) - (n + 1) + 1) : b[i] = s[(n + 1) + i - 1]
        BY <1>1, <1>4, SubSeqProperties
    <2>2. \A i \in 1..(Len(s) - n) : i \in 1..(Len(s) - (n + 1) + 1) /\ (n + 1) + i - 1 = i + n
        BY <1>1, <1>4
    <2>3. (IF n + 1 <= Len(s) THEN Len(s) - (n + 1) + 1 ELSE 0) = Len(s) - n
        BY <1>1, <1>4
    <2> HIDE DEF b
    <2> QED BY <2>1, <2>2, <2>3
<1> HIDE DEF a, b
<1>7. /\ a \o b \in Seq(S) /\ Len(a \o b) = Len(s) - 1
      /\ \A i \in 1..(Len(s) - 1) : (a \o b)[i] = IF i < n THEN s[i] ELSE s[i + 1]
    <2>1. /\ a \o b \in Seq(S) /\ Len(a \o b) = (n - 1) + (Len(s) - n)
          /\ \A i \in 1..((n - 1) + (Len(s) - n)) :
               (a \o b)[i] = IF i <= n - 1 THEN a[i] ELSE b[i - (n - 1)]
        <3>1. /\ a \o b \in Seq(S) /\ Len(a \o b) = Len(a) + Len(b)
              /\ \A i \in 1..(Len(a) + Len(b)) :
                   (a \o b)[i] = IF i <= Len(a) THEN a[i] ELSE b[i - Len(a)]
            BY <1>5, <1>6, ConcatProperties
        <3> QED BY <1>5, <1>6, <3>1
    <2>2. (n - 1) + (Len(s) - n) = Len(s) - 1
        BY <1>1, <1>4
    <2>3. ASSUME NEW i \in 1..(Len(s) - 1) PROVE (a \o b)[i] = IF i < n THEN s[i] ELSE s[i + 1]
        <3>1. (a \o b)[i] = IF i <= n - 1 THEN a[i] ELSE b[i - (n - 1)]
            BY <2>1, <2>2
        <3>2. CASE i < n
            BY <1>1, <1>4, <1>5, <3>1, <3>2
        <3>3. CASE ~(i < n)
            <4>1. i - (n - 1) \in 1..(Len(s) - n) /\ i - (n - 1) + n = i + 1 /\ ~(i <= n - 1)
                BY <1>1, <1>4, <3>3
            <4> QED BY <1>6, <3>1, <3>3, <4>1
        <3> QED BY <3>2, <3>3
    <2> QED BY <2>1, <2>2, <2>3
<1> QED BY <1>3, <1>4, <1>7

\* What RemoveFirst does to the members: all stay but one.
LEMMA RemovedMembers ==
    ASSUME NEW S, NEW s \in Seq(S), NEW e
    PROVE  /\ RemoveFirst(s, e) \in Seq(S)
           /\ ToSet(RemoveFirst(s, e)) \subseteq ToSet(s)
           /\ ToSet(s) \ {e} \subseteq ToSet(RemoveFirst(s, e))
           /\ Once(s) => e \notin ToSet(RemoveFirst(s, e)) /\ Once(RemoveFirst(s, e))
<1> DEFINE r == RemoveFirst(s, e)
<1>1. Len(s) \in Nat /\ DOMAIN s = 1..Len(s)
    BY LenProperties
<1>2. CASE e \notin ToSet(s)
    <2>1. r = s
        BY <1>2, MembersOf DEF RemoveFirst
    <2> QED BY <1>2, <2>1
<1>3. CASE e \in ToSet(s)
    <2> HIDE DEF r
    <2>1. PICK n \in 1..Len(s) :
            /\ s[n] = e /\ r \in Seq(S) /\ Len(r) = Len(s) - 1
            /\ \A i \in 1..(Len(s) - 1) : r[i] = IF i < n THEN s[i] ELSE s[i + 1]
        BY <1>3, Removed DEF r
    <2>2. DOMAIN r = 1..(Len(s) - 1)
        BY <2>1, LenProperties
    <2> DEFINE from(i) == IF i < n THEN i ELSE i + 1
    <2>3. \A i \in 1..(Len(s) - 1) : from(i) \in 1..Len(s) /\ from(i) # n /\ r[i] = s[from(i)]
        BY <1>1, <2>1
    <2>4. \A i, j \in 1..(Len(s) - 1) : from(i) = from(j) => i = j
        BY <1>1, <2>1
    <2>5. \A j \in 1..Len(s) : j # n => \E i \in 1..(Len(s) - 1) : from(i) = j
        <3>1. ASSUME NEW j \in 1..Len(s), j < n PROVE j \in 1..(Len(s) - 1) /\ from(j) = j
            BY <1>1, <2>1, <3>1
        <3>2. ASSUME NEW j \in 1..Len(s), j > n PROVE j - 1 \in 1..(Len(s) - 1) /\ from(j - 1) = j
            BY <1>1, <2>1, <3>2
        <3>3. \A j \in 1..Len(s) : j # n => j < n \/ j > n
            BY <1>1, <2>1
        <3> QED BY <3>1, <3>2, <3>3
    <2> HIDE DEF from
    <2>6. ToSet(r) \subseteq ToSet(s)
        BY <1>1, <2>2, <2>3 DEF ToSet
    <2>7. ToSet(s) \ {e} \subseteq ToSet(r)
        <3>1. ASSUME NEW x \in ToSet(s), x # e PROVE x \in ToSet(r)
            <4>1. PICK j \in 1..Len(s) : s[j] = x
                BY <1>1 DEF ToSet
            <4>2. PICK i \in 1..(Len(s) - 1) : from(i) = j
                BY <2>1, <2>5, <3>1, <4>1
            <4> QED BY <2>2, <2>3, <4>1, <4>2 DEF ToSet
        <3> QED BY <3>1
    <2>8. ASSUME Once(s) PROVE e \notin ToSet(r) /\ Once(r)
        <3>1. e \notin ToSet(r)
            BY <1>1, <2>1, <2>2, <2>3, <2>8 DEF ToSet, Once
        <3>2. Once(r)
            BY <1>1, <2>2, <2>3, <2>4, <2>8 DEF Once
        <3> QED BY <3>1, <3>2
    <2> QED BY <2>1, <2>6, <2>7, <2>8 DEF r
<1> QED BY <1>2, <1>3

\* Reversed, a sequence has the same members.
LEMMA Reversed ==
    ASSUME NEW S, NEW s \in Seq(S)
    PROVE  Reverse(s) \in Seq(S) /\ ToSet(Reverse(s)) = ToSet(s)
<1> DEFINE n == Len(s)
           r == Reverse(s)
<1>1. n \in Nat /\ DOMAIN s = 1..n /\ s \in [1..n -> S]
    BY LenProperties
<1>2. DOMAIN r = 1..n /\ \A i \in 1..n : r[i] = s[(n - i) + 1]
    BY DEF Reverse
<1>3. \A i \in 1..n : (n - i) + 1 \in 1..n /\ (n - ((n - i) + 1)) + 1 = i
    BY <1>1
<1>4. r \in Seq(S)
    BY <1>1, <1>2, <1>3 DEF Reverse
<1> HIDE DEF r
<1>5. ToSet(r) = ToSet(s)
    <2>1. \A i \in 1..n : r[i] \in ToSet(s)
        BY <1>1, <1>2, <1>3 DEF ToSet
    <2>2. \A i \in 1..n : s[i] \in ToSet(r)
        <3>1. ASSUME NEW i \in 1..n PROVE s[i] \in ToSet(r)
            <4>1. (n - i) + 1 \in 1..n /\ r[(n - i) + 1] = s[i]
                BY <1>2, <1>3
            <4> QED BY <1>2, <4>1 DEF ToSet
        <3> QED BY <3>1
    <2> QED BY <1>1, <1>2, <2>1, <2>2 DEF ToSet
<1> QED BY <1>4, <1>5 DEF r

-----------------------------------------------------------------------------
(* NodeEntities                                                              *)

ListsTypeOK ==
  /\ {initialized, shutting, gone} \subseteq BOOLEAN
  /\ spc \in [Shutters -> {"idle", "destroy", "done"}] /\ todo \in [Shutters -> Seq(Owned)]
  /\ tracked \in Seq(Owned) /\ list \in [ListKinds -> Seq(Owned)]
  /\ life \in [Owned -> {"none", "live", "closed"}]
  /\ cpc \in [Owned -> {"idle", "construct", "build", "list", "made", "raised"}]
  /\ removerPc \in [Owned -> {"idle", "remove", "done"}]
  /\ phase \in 0..9 /\ (phase > 0 <=> gone) /\ index \in Nat

\* What is being taken off its list is closed already.
RemovedIsClosed == \A e \in Owned : removerPc[e] # "idle" => cpc[e] = "made" /\ life[e] # "live"

\* Up to its kind's turn, a live entity that the user was given is in its list
\* where destroy_node's loop has still to come: unless that list was overtaken.
AheadOfLoop ==
  \A e \in Owned :
    cpc[e] = "made" /\ life[e] = "live" /\ phase <= PhaseOf(e) /\ Kind[e] \notin overtaken =>
      \E i \in 1..Len(list[Kind[e]]) : list[Kind[e]][i] = e /\ (phase = PhaseOf(e) => i > index)

TeardownInv == RemovedIsClosed /\ AheadOfLoop /\ TeardownInOrder

\* One shutdown at a time destroys what was tracked.
OneShutdown ==
  \A s \in Shutters : spc[s] = "destroy" =>
    /\ initialized /\ shutting
    /\ \A t \in Shutters : spc[t] = "destroy" => t = s

\* What is tracked while or after that is too late; an entity is tracked once, by
\* the end of its constructor.
TrackedWhen ==
  /\ Once(tracked)
  /\ \A e \in ToSet(tracked) : cpc[e] \in {"list", "made", "raised"}
  /\ shutting \/ ~initialized => ToSet(tracked) \subseteq late

\* A live client or service is known to the context, or was tracked too late.
LiveIsKnown ==
  \A e \in Owned :
    life[e] = "live" /\ Kind[e] \in Tracked =>
      \/ e \in late \/ e \in ToSet(tracked)
      \/ \E s \in Shutters : spc[s] = "destroy" /\ e \in ToSet(todo[s])

ShutdownInv == OneShutdown /\ TrackedWhen /\ LiveIsKnown

LEMMA ListsTypeInit == ListsInit => ListsTypeOK
<1> SUFFICES ASSUME ListsInit PROVE ListsTypeOK
    OBVIOUS
<1>1. <<>> \in Seq(Owned)
    BY NoMembers
<1>2. phase \in 0..9 /\ (phase > 0 <=> gone) /\ index \in Nat
    BY DEF ListsInit
<1>3. {initialized, shutting, gone} \subseteq BOOLEAN
    BY DEF ListsInit
<1> QED BY <1>1, <1>2, <1>3 DEF ListsInit, ListsTypeOK

\* Closing an entity, or clearing what is tracked, keeps the types.
LEMMA CloseKeepsTypes ==
    ASSUME ListsTypeOK, NEW e, Close(e)
    PROVE  /\ life' \in [Owned -> {"none", "live", "closed"}] /\ tracked' \in Seq(Owned)
           /\ \A f \in Owned : life'[f] = "live" => life[f] = "live" /\ f # e
<1>1. tracked' \in Seq(Owned)
    BY RemovedMembers DEF Close, ListsTypeOK
<1> QED BY <1>1 DEF Close, ListsTypeOK

LEMMA ContextKeepsTypes ==
    ASSUME ListsTypeOK,
           InitContext \/ \E s \in Shutters : BeginShutdown(s) \/ DestroyTracked(s) \/ EndShutdown(s)
    PROVE  ListsTypeOK'
<1>0. <<>> \in Seq(Owned)
    BY NoMembers
<1>1. CASE InitContext
    BY <1>1 DEF ListsTypeOK, InitContext, entities, teardown
<1>2. ASSUME NEW s \in Shutters, BeginShutdown(s) PROVE ListsTypeOK'
    <2>1. Reverse(tracked) \in Seq(Owned)
        BY Reversed DEF ListsTypeOK
    <2> QED BY <1>0, <1>2, <2>1 DEF ListsTypeOK, BeginShutdown, entities, teardown
<1>3. ASSUME NEW s \in Shutters, DestroyTracked(s) PROVE ListsTypeOK'
    <2>1. todo[s] \in Seq(Owned) /\ todo[s] # <<>>
        BY <1>3 DEF ListsTypeOK, DestroyTracked
    <2>2. Tail(todo[s]) \in Seq(Owned)
        BY <2>1, FirstLeft
    <2>3. life' \in [Owned -> {"none", "live", "closed"}] /\ tracked' \in Seq(Owned)
        BY <1>3, CloseKeepsTypes DEF DestroyTracked
    <2> QED BY <1>3, <2>2, <2>3 DEF ListsTypeOK, DestroyTracked, teardown
<1>4. ASSUME NEW s \in Shutters, EndShutdown(s) PROVE ListsTypeOK'
    BY <1>0, <1>4 DEF ListsTypeOK, EndShutdown, entities, teardown
<1> QED BY <1>1, <1>2, <1>3, <1>4

LEMMA EntityKeepsTypes ==
    ASSUME ListsTypeOK, NEW e \in Owned,
           \/ BeginCreate(e) \/ GetParticipant(e) \/ Construct(e) \/ TrackEntity(e)
           \/ DestroyEntity(e) \/ RemoveEntity(e)
    PROVE  ListsTypeOK'
<1>0. Kind[e] \in ListKinds /\ list[Kind[e]] \in Seq(Owned)
    BY KindAssumption DEF ListsTypeOK
<1>1. CASE BeginCreate(e)
    BY <1>1 DEF ListsTypeOK, BeginCreate, context, teardown
<1>2. CASE GetParticipant(e)
    BY <1>2 DEF ListsTypeOK, GetParticipant, context, teardown
<1>3. CASE Construct(e)
    <2>1. Append(tracked, e) \in Seq(Owned)
        BY Appended DEF ListsTypeOK
    <2> QED BY <1>3, <2>1 DEF ListsTypeOK, Construct, context, teardown
<1>4. CASE TrackEntity(e)
    <2>1. CASE gone
        <3>1. life' \in [Owned -> {"none", "live", "closed"}] /\ tracked' \in Seq(Owned)
            BY <1>4, <2>1, CloseKeepsTypes DEF TrackEntity
        <3> QED BY <1>4, <2>1, <3>1 DEF ListsTypeOK, TrackEntity, context, teardown
    <2>2. CASE ~gone
        <3>1. Append(list[Kind[e]], e) \in Seq(Owned)
            BY <1>0, Appended
        <3> QED BY <1>4, <2>2, <3>1 DEF ListsTypeOK, TrackEntity, context, teardown
    <2> QED BY <2>1, <2>2
<1>5. CASE DestroyEntity(e)
    <2>1. life' \in [Owned -> {"none", "live", "closed"}] /\ tracked' \in Seq(Owned)
        BY <1>5, CloseKeepsTypes DEF DestroyEntity
    <2> QED BY <1>5, <2>1 DEF ListsTypeOK, DestroyEntity, context, teardown
<1>6. CASE RemoveEntity(e)
    <2>1. RemoveFirst(list[Kind[e]], e) \in Seq(Owned)
        BY <1>0, RemovedMembers
    <2> QED BY <1>6, <2>1 DEF ListsTypeOK, RemoveEntity, context, teardown
<1> QED BY <1>1, <1>2, <1>3, <1>4, <1>5, <1>6

LEMMA DestroyKeepsTypes ==
    ASSUME ListsTypeOK, BeginDestroy \/ CloseNext \/ EndPhase
    PROVE  ListsTypeOK'
<1>0. <<>> \in Seq(Owned) /\ DOMAIN Phases = 1..8
    BY NoMembers DEF Phases
<1>1. CASE BeginDestroy
    BY <1>1 DEF ListsTypeOK, BeginDestroy, context, entities
<1>2. CASE CloseNext
    <2>1. life' \in [Owned -> {"none", "live", "closed"}] /\ tracked' \in Seq(Owned)
        BY <1>2, CloseKeepsTypes DEF CloseNext
    <2> QED BY <1>2, <2>1 DEF ListsTypeOK, CloseNext, context
<1>3. CASE EndPhase
    <2>1. phase \in 1..8 /\ phase + 1 \in 0..9 /\ phase + 1 > 0
        BY <1>0, <1>3 DEF EndPhase
    <2>2. phase' \in 0..9 /\ (phase' > 0 <=> gone')
        BY <1>3, <2>1 DEF ListsTypeOK, EndPhase
    <2>3. list' \in [ListKinds -> Seq(Owned)] /\ index' \in Nat
        BY <1>0, <1>3 DEF ListsTypeOK, EndPhase
    <2> QED BY <1>3, <2>2, <2>3 DEF ListsTypeOK, EndPhase, context
<1> QED BY <1>1, <1>2, <1>3

\* The lists and the flags have their types.
THEOREM ListsTypesHold == ListsSpec => []ListsTypeOK
<1>1. ListsInit => ListsTypeOK
    BY ListsTypeInit
<1>2. ListsTypeOK /\ [ListsNext]_listVars => ListsTypeOK'
    <2> SUFFICES ASSUME ListsTypeOK, [ListsNext]_listVars PROVE ListsTypeOK'
        OBVIOUS
    <2>1. CASE ListsNext
        BY <2>1, ContextKeepsTypes, EntityKeepsTypes, DestroyKeepsTypes DEF ListsNext
    <2>2. CASE UNCHANGED listVars
        BY <2>2 DEF ListsTypeOK, listVars, context, teardown, entities
    <2> QED BY <2>1, <2>2
<1> QED BY <1>1, <1>2, PTL DEF ListsSpec

-----------------------------------------------------------------------------
(* What destroy_node closes.                                                 *)

\* The kinds' turns come one by one.
LEMMA PhasesInOrder ==
    /\ DOMAIN Phases = 1..8 /\ \A i \in 1..8 : Phases[i] # "none"
    /\ \A i, j \in 1..8 : Phases[i] = Phases[j] => i = j
    /\ \A e \in Owned : PhaseOf(e) \in 1..8 /\ Phases[PhaseOf(e)] = Kind[e]
<1>1. DOMAIN Phases = 1..8
    BY DEF Phases
<1>2. /\ Phases[1] = "timer" /\ Phases[2] = "guard" /\ Phases[3] = "client" /\ Phases[4] = "service"
      /\ Phases[5] = "action server" /\ Phases[6] = "action client"
      /\ Phases[7] = "subscription" /\ Phases[8] = "publisher"
    BY DEF Phases
<1>3. \A i, j \in 1..8 : Phases[i] # "none" /\ (Phases[i] = Phases[j] => i = j)
    <2>1. \A i \in 1..8 : i = 1 \/ i = 2 \/ i = 3 \/ i = 4 \/ i = 5 \/ i = 6 \/ i = 7 \/ i = 8
        OBVIOUS
    <2> SUFFICES ASSUME NEW i \in 1..8, NEW j \in 1..8
                 PROVE  Phases[i] # "none" /\ (Phases[i] = Phases[j] => i = j)
        OBVIOUS
    <2>2. i = 1 \/ i = 2 \/ i = 3 \/ i = 4 \/ i = 5 \/ i = 6 \/ i = 7 \/ i = 8
        BY <2>1
    <2> QED BY <1>2, <2>1, <2>2
<1>4. ASSUME NEW e \in Owned PROVE PhaseOf(e) \in 1..8 /\ Phases[PhaseOf(e)] = Kind[e]
    <2>1. Kind[e] \in ListKinds
        BY KindAssumption
    <2>2. \E i \in 1..8 : Phases[i] = Kind[e]
        BY <1>1, <2>1 DEF ListKinds, ToSet
    <2> QED BY <1>1, <2>2 DEF PhaseOf
<1> QED BY <1>1, <1>3, <1>4

\* In the turn of an entity's kind its list is gone through, before that the list
\* of another.
LEMMA TurnOfKind ==
    ASSUME ListsTypeOK, NEW e \in Owned
    PROVE  /\ Kind[e] \in ListKinds /\ list[Kind[e]] \in Seq(Owned) /\ PhaseOf(e) \in 1..8
           /\ phase = PhaseOf(e) => AtPhase = Kind[e]
           /\ phase # PhaseOf(e) => AtPhase # Kind[e]
<1>1. Kind[e] \in ListKinds /\ list[Kind[e]] \in Seq(Owned)
    BY KindAssumption DEF ListsTypeOK
<1>2. PhaseOf(e) \in 1..8 /\ Phases[PhaseOf(e)] = Kind[e]
    BY PhasesInOrder
<1>3. ASSUME phase = PhaseOf(e) PROVE AtPhase = Kind[e]
    BY <1>2, <1>3, PhasesInOrder DEF AtPhase
<1>4. ASSUME phase # PhaseOf(e) PROVE AtPhase # Kind[e]
    <2>1. CASE phase \in 1..8
        BY <1>2, <1>4, <2>1, PhasesInOrder DEF AtPhase
    <2>2. CASE phase \notin 1..8
        <3>1. AtPhase = "none"
            BY <2>2, PhasesInOrder DEF AtPhase
        <3> QED BY <1>2, <3>1, PhasesInOrder
    <2> QED BY <2>1, <2>2
<1> QED BY <1>1, <1>2, <1>3, <1>4

\* A step that gives nobody a live entity, and leaves lists and loop alone.
LEMMA ClosingKeepsTeardown ==
    ASSUME TeardownInv, UNCHANGED <<teardown, list, overtaken>>,
           \A e \in Owned : cpc'[e] = "made" /\ life'[e] = "live" => cpc[e] = "made" /\ life[e] = "live",
           \A e \in Owned : removerPc'[e] # "idle" => cpc'[e] = "made" /\ life'[e] # "live"
    PROVE  TeardownInv'
<1>1. \A e \in Owned : PhaseOf(e)' = PhaseOf(e)
    BY DEF PhaseOf
<1>2. RemovedIsClosed'
    BY DEF RemovedIsClosed
<1>3. AheadOfLoop'
    BY <1>1 DEF TeardownInv, AheadOfLoop, teardown
<1>4. TeardownInOrder'
    BY <1>1 DEF TeardownInv, TeardownInOrder, teardown
<1> QED BY <1>2, <1>3, <1>4 DEF TeardownInv

LEMMA ContextKeepsTeardown ==
    ASSUME ListsTypeOK, TeardownInv,
           InitContext \/ \E s \in Shutters : BeginShutdown(s) \/ DestroyTracked(s) \/ EndShutdown(s)
    PROVE  TeardownInv'
<1>1. UNCHANGED <<teardown, list, overtaken, cpc, removerPc>>
    BY DEF InitContext, BeginShutdown, DestroyTracked, EndShutdown, entities
<1>2. \A e \in Owned : life'[e] = "live" => life[e] = "live"
    <2>1. ASSUME NEW s \in Shutters, DestroyTracked(s) PROVE \A e \in Owned : life'[e] = "live" => life[e] = "live"
        BY <2>1, CloseKeepsTypes DEF DestroyTracked
    <2>2. CASE life' = life
        BY <2>2
    <2> QED BY <2>1, <2>2 DEF InitContext, BeginShutdown, EndShutdown, entities
<1>3. \A e \in Owned : removerPc'[e] # "idle" => cpc'[e] = "made" /\ life'[e] # "live"
    BY <1>1, <1>2 DEF TeardownInv, RemovedIsClosed
<1> QED BY <1>1, <1>2, <1>3, ClosingKeepsTeardown

LEMMA CreateKeepsTeardown ==
    ASSUME ListsTypeOK, TeardownInv, NEW e \in Owned,
           BeginCreate(e) \/ GetParticipant(e) \/ Construct(e) \/ DestroyEntity(e)
    PROVE  TeardownInv'
<1>1. UNCHANGED <<teardown, list, overtaken>>
    BY DEF BeginCreate, GetParticipant, Construct, DestroyEntity
<1>2. CASE BeginCreate(e) \/ GetParticipant(e) \/ Construct(e)
    <2>1. /\ removerPc' = removerPc /\ cpc[e] # "made" /\ cpc'[e] # "made"
          /\ \A f \in Owned : f # e => cpc'[f] = cpc[f] /\ life'[f] = life[f]
        BY <1>2 DEF BeginCreate, GetParticipant, Construct, ListsTypeOK
    <2>2. \A f \in Owned : removerPc[f] # "idle" => f # e
        BY <2>1 DEF TeardownInv, RemovedIsClosed
    <2>3. \A f \in Owned : removerPc'[f] # "idle" => cpc'[f] = "made" /\ life'[f] # "live"
        BY <2>1, <2>2 DEF TeardownInv, RemovedIsClosed
    <2>4. \A f \in Owned : cpc'[f] = "made" /\ life'[f] = "live" => cpc[f] = "made" /\ life[f] = "live"
        BY <2>1
    <2> QED BY <1>1, <2>3, <2>4, ClosingKeepsTeardown
<1>3. CASE DestroyEntity(e)
    <2>1. /\ \A f \in Owned : life'[f] = "live" => life[f] = "live" /\ f # e
        BY <1>3, CloseKeepsTypes DEF DestroyEntity
    <2>2. cpc' = cpc /\ cpc[e] = "made" /\ \A f \in Owned : f # e => removerPc'[f] = removerPc[f]
        BY <1>3 DEF DestroyEntity, ListsTypeOK
    <2>3. \A f \in Owned : removerPc'[f] # "idle" => cpc'[f] = "made" /\ life'[f] # "live"
        BY <2>1, <2>2 DEF TeardownInv, RemovedIsClosed
    <2> QED BY <1>1, <2>1, <2>2, <2>3, ClosingKeepsTeardown
<1> QED BY <1>2, <1>3

\* The entity is listed before destroy_node begins, or closed.
LEMMA TrackKeepsTeardown ==
    ASSUME ListsTypeOK, TeardownInv, NEW e \in Owned, TrackEntity(e)
    PROVE  TeardownInv'
<1>0. /\ UNCHANGED <<teardown, overtaken, removerPc>> /\ cpc[e] = "list"
      /\ \A f \in Owned : f # e => cpc'[f] = cpc[f]
      /\ \A f \in Owned : removerPc[f] # "idle" => f # e
    BY DEF TrackEntity, TeardownInv, RemovedIsClosed, ListsTypeOK
<1>1. CASE gone
    <2>1. /\ \A f \in Owned : life'[f] = "live" => life[f] = "live" /\ f # e
        BY <1>1, CloseKeepsTypes DEF TrackEntity
    <2>2. list' = list
        BY <1>1 DEF TrackEntity
    <2>3. \A f \in Owned : removerPc'[f] # "idle" => cpc'[f] = "made" /\ life'[f] # "live"
        BY <1>0, <2>1 DEF TeardownInv, RemovedIsClosed
    <2> QED BY <1>0, <2>1, <2>2, <2>3, ClosingKeepsTeardown
<1>2. CASE ~gone
    <2>1. phase = 0 /\ phase' = 0 /\ life' = life
        BY <1>0, <1>2 DEF TrackEntity, ListsTypeOK, teardown
    <2>2. \A f \in Owned : PhaseOf(f)' = PhaseOf(f) /\ PhaseOf(f) \in 1..8
        BY PhasesInOrder DEF PhaseOf
    <2>3. TeardownInOrder'
        BY <2>1, <2>2 DEF TeardownInOrder
    <2>4. RemovedIsClosed'
        BY <1>0, <2>1 DEF TeardownInv, RemovedIsClosed
    <2>5. ASSUME NEW f \in Owned, cpc'[f] = "made", life'[f] = "live", Kind[f] \notin overtaken'
          PROVE  \E i \in 1..Len(list'[Kind[f]]) : list'[Kind[f]][i] = f
        <3> DEFINE l == list[Kind[e]]
        <3>1. /\ Append(l, e)[Len(l) + 1] = e /\ \A i \in 1..Len(l) : Append(l, e)[i] = l[i]
              /\ Len(Append(l, e)) = Len(l) + 1 /\ Len(l) \in Nat
            BY TurnOfKind, Appended, LenProperties
        <3>2. list' = [list EXCEPT ![Kind[e]] = Append(l, e)] /\ list \in [ListKinds -> Seq(Owned)]
            BY <1>2 DEF TrackEntity, ListsTypeOK
        <3> HIDE DEF l
        <3>3. CASE f = e
            <4>1. list'[Kind[e]] = Append(l, e)
                BY <3>2, KindAssumption
            <4>2. Len(l) + 1 \in 1..Len(Append(l, e))
                BY <3>1
            <4> QED BY <3>1, <3>3, <4>1, <4>2
        <3>4. CASE f # e
            <4>1. PICK i \in 1..Len(list[Kind[f]]) : list[Kind[f]][i] = f
                <5>1. phase <= PhaseOf(f) /\ phase # PhaseOf(f)
                    BY <2>1, <2>2
                <5> QED BY <1>0, <2>1, <2>5, <3>4, <5>1 DEF TeardownInv, AheadOfLoop
            <4>2. CASE Kind[f] = Kind[e]
                <5>1. i \in 1..Len(l) /\ l[i] = f
                    BY <4>1, <4>2 DEF l
                <5>2. i \in 1..Len(Append(l, e)) /\ Append(l, e)[i] = f
                    BY <3>1, <5>1
                <5>3. list'[Kind[f]] = Append(l, e)
                    BY <3>2, <4>2, KindAssumption
                <5> QED BY <5>2, <5>3
            <4>3. CASE Kind[f] # Kind[e]
                BY <3>2, <4>1, <4>3, KindAssumption
            <4> QED BY <4>2, <4>3
        <3> QED BY <3>3, <3>4
    <2>6. AheadOfLoop'
        BY <2>1, <2>2, <2>5 DEF AheadOfLoop
    <2> QED BY <2>3, <2>4, <2>6 DEF TeardownInv
<1> QED BY <1>1, <1>2

\* What leaves its list is closed; the others move up, past the loop only where
\* it is overtaken.
LEMMA RemoveKeepsTeardown ==
    ASSUME ListsTypeOK, TeardownInv, NEW e \in Owned, RemoveEntity(e)
    PROVE  TeardownInv'
<1>1. /\ UNCHANGED <<teardown, life, cpc>> /\ overtaken \subseteq overtaken'
      /\ \A f \in Owned : f # e => removerPc'[f] = removerPc[f]
      /\ removerPc[e] = "remove"
    BY DEF RemoveEntity, ListsTypeOK
<1>2. \A f \in Owned : PhaseOf(f)' = PhaseOf(f) /\ PhaseOf(f) \in 1..8
    BY PhasesInOrder DEF PhaseOf
<1>3. TeardownInOrder'
    BY <1>1, <1>2 DEF TeardownInv, TeardownInOrder, teardown
<1>4. RemovedIsClosed' /\ cpc[e] = "made" /\ life[e] # "live"
    BY <1>1 DEF TeardownInv, RemovedIsClosed
<1>5. ASSUME NEW f \in Owned, cpc[f] = "made", life[f] = "live", phase <= PhaseOf(f), Kind[f] \notin overtaken'
      PROVE  \E i \in 1..Len(list'[Kind[f]]) : list'[Kind[f]][i] = f /\ (phase = PhaseOf(f) => i > index)
    <2> DEFINE l == list[Kind[f]]
    <2>0. f # e /\ list \in [ListKinds -> Seq(Owned)] /\ Kind[f] \in ListKinds /\ l \in Seq(Owned) /\ index \in Nat
        BY <1>4, <1>5, TurnOfKind DEF ListsTypeOK
    <2>1. PICK i \in 1..Len(l) : l[i] = f /\ (phase = PhaseOf(f) => i > index)
        BY <1>1, <1>5 DEF TeardownInv, AheadOfLoop
    <2>2. CASE Kind[f] # Kind[e] \/ e \notin ToSet(l)
        <3>1. list'[Kind[f]] = l
            BY <2>0, <2>2, MembersOf DEF RemoveEntity, RemoveFirst
        <3> QED BY <2>1, <3>1
    <2>3. CASE Kind[f] = Kind[e] /\ e \in ToSet(l)
        <3> DEFINE r == RemoveFirst(l, e)
        <3>1. list'[Kind[f]] = r
            BY <2>0, <2>3 DEF RemoveEntity
        <3> HIDE DEF l, r
        <3>2. PICK n \in 1..Len(l) :
                /\ l[n] = e /\ Len(r) = Len(l) - 1
                /\ \A j \in 1..(Len(l) - 1) : r[j] = IF j < n THEN l[j] ELSE l[j + 1]
            BY <2>0, <2>3, Removed DEF r
        <3>3. Len(l) \in Nat /\ i # n
            BY <2>0, <2>1, <3>2, LenProperties
        <3>4. CASE i < n
            <4>1. i \in 1..Len(r) /\ r[i] = f
                BY <2>1, <3>2, <3>3, <3>4
            <4> QED BY <2>1, <3>1, <4>1
        <3>5. CASE i > n
            <4>1. i - 1 \in 1..Len(r) /\ r[i - 1] = f
                <5>1. i - 1 \in 1..(Len(l) - 1) /\ ~(i - 1 < n) /\ (i - 1) + 1 = i
                    BY <3>2, <3>3, <3>5
                <5> QED BY <2>1, <3>2, <5>1
            <4>2. ASSUME phase = PhaseOf(f) PROVE i - 1 > index
                <5>1. AtPhase = Kind[e]
                    BY <2>3, <4>2, TurnOfKind
                <5>2. ~GoneThrough(e)
                    BY <1>5, <2>3, <5>1 DEF RemoveEntity
                <5>3. ~(n <= index)
                    BY <2>0, <2>3, <3>2, <3>3, <5>2 DEF GoneThrough, l
                <5> QED BY <2>0, <3>3, <3>5, <5>3
            <4> QED BY <3>1, <4>1, <4>2
        <3> QED BY <3>3, <3>4, <3>5
    <2> QED BY <2>2, <2>3
<1>6. AheadOfLoop'
    BY <1>1, <1>2, <1>5 DEF AheadOfLoop, teardown
<1> QED BY <1>3, <1>4, <1>6 DEF TeardownInv

LEMMA DestroyKeepsTeardown ==
    ASSUME ListsTypeOK, TeardownInv, BeginDestroy \/ CloseNext \/ EndPhase
    PROVE  TeardownInv'
<1>0. /\ \A f \in Owned : PhaseOf(f)' = PhaseOf(f) /\ PhaseOf(f) \in 1..8
      /\ UNCHANGED <<cpc, removerPc, overtaken>> /\ DOMAIN Phases = 1..8
    BY PhasesInOrder DEF PhaseOf, BeginDestroy, CloseNext, EndPhase, entities
<1>1. CASE BeginDestroy
    <2>1. phase = 0 /\ phase' = 1 /\ index' = 0 /\ UNCHANGED <<life, list>>
        BY <1>1 DEF BeginDestroy, ListsTypeOK, entities
    <2>2. \A f \in Owned : ~(phase' > PhaseOf(f)) /\ phase <= PhaseOf(f) /\ phase # PhaseOf(f)
        BY <1>0, <2>1
    <2>3. TeardownInOrder' /\ RemovedIsClosed'
        BY <1>0, <2>1, <2>2 DEF TeardownInv, TeardownInOrder, RemovedIsClosed
    <2>4. AheadOfLoop'
        <3>1. \A f \in Owned : \A i \in 1..Len(list[Kind[f]]) : i > 0
            OBVIOUS
        <3> QED BY <1>0, <2>1, <2>2, <3>1 DEF TeardownInv, AheadOfLoop
    <2> QED BY <2>3, <2>4 DEF TeardownInv
<1>2. CASE CloseNext
    <2>1. /\ \A f \in Owned : life'[f] = "live" => life[f] = "live" /\ f # list[AtPhase][index + 1]
          /\ UNCHANGED <<phase, list>> /\ index' = index + 1 /\ index \in Nat
        BY <1>2, CloseKeepsTypes DEF CloseNext, ListsTypeOK
    <2>2. TeardownInOrder' /\ RemovedIsClosed'
        BY <1>0, <2>1 DEF TeardownInv, TeardownInOrder, RemovedIsClosed
    <2>3. ASSUME NEW f \in Owned, cpc[f] = "made", life'[f] = "live", phase <= PhaseOf(f), Kind[f] \notin overtaken
          PROVE  \E i \in 1..Len(list[Kind[f]]) : list[Kind[f]][i] = f /\ (phase = PhaseOf(f) => i > index + 1)
        <3>1. PICK i \in 1..Len(list[Kind[f]]) : list[Kind[f]][i] = f /\ (phase = PhaseOf(f) => i > index)
            BY <2>1, <2>3 DEF TeardownInv, AheadOfLoop
        <3>2. ASSUME phase = PhaseOf(f) PROVE i > index + 1
            <4>1. i # index + 1
                BY <2>1, <2>3, <3>1, <3>2, TurnOfKind
            <4>2. Len(list[Kind[f]]) \in Nat
                BY TurnOfKind, LenProperties
            <4> QED BY <2>1, <3>1, <3>2, <4>1, <4>2
        <3> QED BY <3>1, <3>2
    <2>4. AheadOfLoop'
        BY <1>0, <2>1, <2>3 DEF AheadOfLoop
    <2> QED BY <2>2, <2>4 DEF TeardownInv
<1>3. CASE EndPhase
    <2>1. /\ phase \in 1..8 /\ phase' = phase + 1 /\ index' = 0 /\ life' = life /\ index \in Nat
          /\ index >= Len(list[AtPhase]) /\ list' = [list EXCEPT ![AtPhase] = <<>>]
          /\ list \in [ListKinds -> Seq(Owned)]
        BY <1>0, <1>3 DEF EndPhase, ListsTypeOK
    <2>2. RemovedIsClosed'
        BY <1>0, <2>1 DEF TeardownInv, RemovedIsClosed
    <2>3. ASSUME NEW f \in Owned, cpc[f] = "made", life[f] = "live", phase + 1 > PhaseOf(f)
          PROVE  Kind[f] \in overtaken
        <3>1. CASE phase > PhaseOf(f)
            BY <2>3, <3>1 DEF TeardownInv, TeardownInOrder
        <3>2. CASE phase = PhaseOf(f)
            <4>1. AtPhase = Kind[f] /\ list[Kind[f]] \in Seq(Owned)
                BY <3>2, TurnOfKind
            <4>2. Len(list[Kind[f]]) \in Nat /\ index >= Len(list[Kind[f]])
                BY <2>1, <4>1, LenProperties
            <4>3. \A i \in 1..Len(list[Kind[f]]) : ~(i > index)
                BY <2>1, <4>2
            <4>4. phase <= PhaseOf(f)
                BY <2>1, <3>2
            <4> QED BY <2>3, <3>2, <4>3, <4>4 DEF TeardownInv, AheadOfLoop
        <3>3. phase > PhaseOf(f) \/ phase = PhaseOf(f)
            BY <1>0, <2>1, <2>3
        <3> QED BY <3>1, <3>2, <3>3
    <2>4. TeardownInOrder'
        BY <1>0, <2>1, <2>3 DEF TeardownInOrder
    <2>5. ASSUME NEW f \in Owned, cpc[f] = "made", life[f] = "live", phase + 1 <= PhaseOf(f), Kind[f] \notin overtaken
          PROVE  \E i \in 1..Len(list'[Kind[f]]) : list'[Kind[f]][i] = f /\ i > 0
        <3>1. phase <= PhaseOf(f) /\ phase # PhaseOf(f)
            BY <1>0, <2>1, <2>5
        <3>2. PICK i \in 1..Len(list[Kind[f]]) : list[Kind[f]][i] = f
            BY <2>5, <3>1 DEF TeardownInv, AheadOfLoop
        <3>3. list'[Kind[f]] = list[Kind[f]]
            BY <2>1, <3>1, TurnOfKind
        <3> QED BY <3>2, <3>3
    <2>6. AheadOfLoop'
        BY <1>0, <2>1, <2>5 DEF AheadOfLoop
    <2> QED BY <2>2, <2>4, <2>6 DEF TeardownInv
<1> QED BY <1>1, <1>2, <1>3

LEMMA TeardownHolds == ListsSpec => []TeardownInv
<1>1. ListsInit => TeardownInv
    <2> SUFFICES ASSUME ListsInit PROVE TeardownInv
        OBVIOUS
    <2>1. \A e \in Owned : cpc[e] = "idle" /\ removerPc[e] = "idle"
        BY DEF ListsInit
    <2> QED BY <2>1 DEF TeardownInv, RemovedIsClosed, AheadOfLoop, TeardownInOrder
<1>2. ListsTypeOK /\ TeardownInv /\ [ListsNext]_listVars => TeardownInv'
    <2> SUFFICES ASSUME ListsTypeOK, TeardownInv, [ListsNext]_listVars PROVE TeardownInv'
        OBVIOUS
    <2>1. CASE InitContext \/ \E s \in Shutters : BeginShutdown(s) \/ DestroyTracked(s) \/ EndShutdown(s)
        BY <2>1, ContextKeepsTeardown
    <2>2. ASSUME NEW e \in Owned, BeginCreate(e) \/ GetParticipant(e) \/ Construct(e) \/ DestroyEntity(e)
          PROVE TeardownInv'
        BY <2>2, CreateKeepsTeardown
    <2>3. ASSUME NEW e \in Owned, TrackEntity(e) PROVE TeardownInv'
        BY <2>3, TrackKeepsTeardown
    <2>4. ASSUME NEW e \in Owned, RemoveEntity(e) PROVE TeardownInv'
        BY <2>4, RemoveKeepsTeardown
    <2>5. CASE BeginDestroy \/ CloseNext \/ EndPhase
        BY <2>5, DestroyKeepsTeardown
    <2>6. CASE UNCHANGED listVars
        <3>1. UNCHANGED <<teardown, list, overtaken, cpc, life, removerPc>>
            BY <2>6 DEF listVars, entities
        <3> QED BY <3>1, ClosingKeepsTeardown DEF TeardownInv, RemovedIsClosed
    <2> QED BY <2>1, <2>2, <2>3, <2>4, <2>5, <2>6 DEF ListsNext
<1>3. ListsSpec => []ListsTypeOK
    BY ListsTypesHold
<1> QED BY <1>1, <1>2, <1>3, PTL DEF ListsSpec

-----------------------------------------------------------------------------
(* What shutdown() closes.                                                   *)

\* What closing does to what the context knows.
LEMMA CloseKeepsKnown ==
    ASSUME ListsTypeOK, ShutdownInv, NEW e, Close(e)
    PROVE  /\ \A f \in Owned : life'[f] = "live" => life[f] = "live" /\ f # e
           /\ ToSet(tracked') \subseteq ToSet(tracked) /\ ToSet(tracked) \ {e} \subseteq ToSet(tracked')
           /\ Once(tracked')
<1>1. tracked \in Seq(Owned) /\ Once(tracked) /\ tracked' = RemoveFirst(tracked, e)
    BY DEF ListsTypeOK, ShutdownInv, TrackedWhen, Close
<1> QED BY <1>1, RemovedMembers, CloseKeepsTypes

\* A step of no shutdown and no constructor, that closes an entity at most.
LEMMA ClosingKeepsShutdown ==
    ASSUME ListsTypeOK, ShutdownInv, NEW e, Close(e) \/ (life' = life /\ tracked' = tracked),
           UNCHANGED <<context, late>>,
           \A f \in Owned : cpc[f] \in {"list", "made", "raised"} => cpc'[f] \in {"list", "made", "raised"}
    PROVE  ShutdownInv'
<1>1. /\ \A f \in Owned : life'[f] = "live" => life[f] = "live" /\ (f # e \/ tracked' = tracked)
      /\ ToSet(tracked') \subseteq ToSet(tracked) /\ Once(tracked')
      /\ tracked' = tracked \/ ToSet(tracked) \ {e} \subseteq ToSet(tracked')
    BY CloseKeepsKnown DEF ShutdownInv, TrackedWhen
<1>2. OneShutdown'
    BY DEF ShutdownInv, OneShutdown, context
<1>3. TrackedWhen'
    <2>1. ToSet(tracked) \subseteq Owned
        BY MembersOf DEF ListsTypeOK
    <2> QED BY <1>1, <2>1 DEF ShutdownInv, TrackedWhen, context
<1>4. LiveIsKnown'
    BY <1>1 DEF ShutdownInv, LiveIsKnown, context
<1> QED BY <1>2, <1>3, <1>4 DEF ShutdownInv

LEMMA EntityKeepsShutdown ==
    ASSUME ListsTypeOK, ShutdownInv, NEW e \in Owned,
           \/ BeginCreate(e) \/ GetParticipant(e) \/ TrackEntity(e)
           \/ DestroyEntity(e) \/ RemoveEntity(e)
    PROVE  ShutdownInv'
<1>1. UNCHANGED <<context, late>>
    BY DEF BeginCreate, GetParticipant, TrackEntity, DestroyEntity, RemoveEntity
<1>2. Close(e) \/ (life' = life /\ tracked' = tracked)
    BY DEF BeginCreate, GetParticipant, TrackEntity, DestroyEntity, RemoveEntity
<1>3. \A f \in Owned : cpc[f] \in {"list", "made", "raised"} => cpc'[f] \in {"list", "made", "raised"}
    BY DEF BeginCreate, GetParticipant, TrackEntity, DestroyEntity, RemoveEntity, ListsTypeOK
<1> QED BY <1>1, <1>2, <1>3, ClosingKeepsShutdown

LEMMA ConstructKeepsShutdown ==
    ASSUME ListsTypeOK, ShutdownInv, NEW e \in Owned, Construct(e)
    PROVE  ShutdownInv'
<1>1. /\ UNCHANGED context /\ cpc[e] \in {"build", "construct"} /\ cpc'[e] = "list"
      /\ \A f \in Owned : f # e => cpc'[f] = cpc[f] /\ life'[f] = life[f]
    BY DEF Construct, ListsTypeOK
<1>2. OneShutdown'
    BY <1>1 DEF ShutdownInv, OneShutdown, context
<1>3. CASE Kind[e] \notin Tracked
    <2>1. UNCHANGED <<tracked, late>>
        BY <1>3 DEF Construct
    <2>2. TrackedWhen'
        <3>1. ToSet(tracked) \subseteq Owned
            BY MembersOf DEF ListsTypeOK
        <3> QED BY <1>1, <2>1, <3>1 DEF ShutdownInv, TrackedWhen, context
    <2>3. LiveIsKnown'
        BY <1>1, <1>3, <2>1 DEF ShutdownInv, LiveIsKnown, context
    <2> QED BY <1>2, <2>2, <2>3 DEF ShutdownInv
<1>4. CASE Kind[e] \in Tracked
    <2>1. /\ tracked' = Append(tracked, e)
          /\ late' = IF shutting \/ ~initialized THEN late \cup {e} ELSE late
        BY <1>4 DEF Construct
    <2>2. e \notin ToSet(tracked) /\ Once(tracked) /\ tracked \in Seq(Owned) /\ ToSet(tracked) \subseteq Owned
        BY <1>1, MembersOf DEF ShutdownInv, TrackedWhen, ListsTypeOK
    <2>3. ToSet(tracked') = ToSet(tracked) \cup {e} /\ Once(tracked')
        BY <2>1, <2>2, Appended
    <2>4. TrackedWhen'
        BY <1>1, <2>1, <2>2, <2>3 DEF ShutdownInv, TrackedWhen, context
    <2>5. LiveIsKnown'
        BY <1>1, <2>1, <2>3 DEF ShutdownInv, LiveIsKnown, context
    <2> QED BY <1>2, <2>4, <2>5 DEF ShutdownInv
<1> QED BY <1>3, <1>4

LEMMA ContextKeepsShutdown ==
    ASSUME ListsTypeOK, ShutdownInv,
           InitContext \/ \E s \in Shutters : BeginShutdown(s) \/ DestroyTracked(s) \/ EndShutdown(s)
    PROVE  ShutdownInv'
<1>0. ToSet(tracked) \subseteq Owned /\ tracked \in Seq(Owned)
    BY MembersOf DEF ListsTypeOK
<1>1. CASE InitContext
    <2>1. /\ UNCHANGED <<spc, todo, tracked, cpc, life, late>> /\ ~initialized /\ initialized' /\ ~shutting'
        BY <1>1 DEF InitContext, entities
    <2>2. OneShutdown' /\ TrackedWhen'
        BY <2>1 DEF ShutdownInv, OneShutdown, TrackedWhen
    <2>3. LiveIsKnown'
        BY <2>1 DEF ShutdownInv, LiveIsKnown
    <2> QED BY <2>2, <2>3 DEF ShutdownInv
<1>2. ASSUME NEW s \in Shutters, BeginShutdown(s) PROVE ShutdownInv'
    <2>0. UNCHANGED <<initialized, cpc, life, late>> /\ spc[s] = "idle"
        BY <1>2 DEF BeginShutdown, entities
    <2>1. CASE ~initialized \/ shutting
        <3>1. /\ UNCHANGED <<shutting, todo, tracked>>
              /\ \A t \in Shutters : (spc'[t] = "destroy") <=> (spc[t] = "destroy")
            BY <1>2, <2>1 DEF BeginShutdown, ListsTypeOK
        <3>2. OneShutdown' /\ TrackedWhen'
            BY <2>0, <3>1 DEF ShutdownInv, OneShutdown, TrackedWhen
        <3>3. LiveIsKnown'
            BY <2>0, <3>1 DEF ShutdownInv, LiveIsKnown
        <3> QED BY <3>2, <3>3 DEF ShutdownInv
    <2>2. CASE initialized /\ ~shutting
        <3>1. /\ shutting' /\ tracked' = <<>> /\ todo'[s] = Reverse(tracked) /\ spc'[s] = "destroy"
              /\ \A t \in Shutters : t # s => spc'[t] = spc[t] /\ todo'[t] = todo[t]
            BY <1>2, <2>2 DEF BeginShutdown, ListsTypeOK
        <3>2. ToSet(tracked') = {} /\ Once(tracked') /\ ToSet(todo'[s]) = ToSet(tracked)
            BY <1>0, <3>1, NoMembers, Reversed
        <3>3. OneShutdown'
            BY <2>0, <2>2, <3>1 DEF ShutdownInv, OneShutdown
        <3>4. TrackedWhen'
            BY <3>2 DEF TrackedWhen
        <3>5. LiveIsKnown'
            BY <2>0, <3>1, <3>2 DEF ShutdownInv, LiveIsKnown
        <3> QED BY <3>3, <3>4, <3>5 DEF ShutdownInv
    <2> QED BY <2>1, <2>2
<1>3. ASSUME NEW s \in Shutters, DestroyTracked(s) PROVE ShutdownInv'
    <2> DEFINE e == Head(todo[s])
    <2>1. /\ UNCHANGED <<initialized, shutting, spc, cpc, late>> /\ spc[s] = "destroy" /\ Close(e)
          /\ todo'[s] = Tail(todo[s]) /\ \A t \in Shutters : t # s => todo'[t] = todo[t]
          /\ todo[s] \in Seq(Owned) /\ todo[s] # <<>>
        BY <1>3 DEF DestroyTracked, ListsTypeOK
    <2>2. ToSet(todo[s]) = ToSet(todo'[s]) \cup {e}
        BY <2>1, FirstLeft
    <2> HIDE DEF e
    <2>3. /\ \A f \in Owned : life'[f] = "live" => life[f] = "live" /\ f # e
          /\ ToSet(tracked') \subseteq ToSet(tracked) /\ ToSet(tracked) \ {e} \subseteq ToSet(tracked')
          /\ Once(tracked')
        BY <2>1, CloseKeepsKnown
    <2>4. OneShutdown' /\ TrackedWhen'
        BY <1>0, <2>1, <2>3 DEF ShutdownInv, OneShutdown, TrackedWhen
    <2>5. LiveIsKnown'
        BY <2>1, <2>2, <2>3 DEF ShutdownInv, LiveIsKnown
    <2> QED BY <2>4, <2>5 DEF ShutdownInv
<1>4. ASSUME NEW s \in Shutters, EndShutdown(s) PROVE ShutdownInv'
    <2>1. /\ UNCHANGED <<shutting, todo, cpc, life, late>> /\ spc[s] = "destroy" /\ todo[s] = <<>>
          /\ tracked' = <<>> /\ ~initialized' /\ spc'[s] = "done"
          /\ \A t \in Shutters : t # s => spc'[t] = spc[t]
        BY <1>4 DEF EndShutdown, entities, ListsTypeOK
    <2>2. ToSet(<<>>) = {} /\ Once(<<>>)
        BY NoMembers
    <2>3. /\ initialized /\ shutting /\ \A t \in Shutters : spc[t] = "destroy" => t = s
          /\ ToSet(tracked) \subseteq late
        BY <2>1 DEF ShutdownInv, OneShutdown, TrackedWhen
    <2>4. OneShutdown' /\ TrackedWhen'
        BY <2>1, <2>2, <2>3 DEF OneShutdown, TrackedWhen
    <2>5. LiveIsKnown'
        BY <2>1, <2>2, <2>3 DEF ShutdownInv, LiveIsKnown
    <2> QED BY <2>4, <2>5 DEF ShutdownInv
<1> QED BY <1>1, <1>2, <1>3, <1>4

LEMMA ShutdownHolds == ListsSpec => []ShutdownInv
<1>1. ListsInit => ShutdownInv
    <2> SUFFICES ASSUME ListsInit PROVE ShutdownInv
        OBVIOUS
    <2>1. ToSet(tracked) = {} /\ Once(tracked)
        BY NoMembers DEF ListsInit
    <2>2. (\A s \in Shutters : spc[s] = "idle") /\ \A e \in Owned : life[e] = "none"
        BY DEF ListsInit
    <2> QED BY <2>1, <2>2 DEF ShutdownInv, OneShutdown, TrackedWhen, LiveIsKnown
<1>2. ListsTypeOK /\ ShutdownInv /\ [ListsNext]_listVars => ShutdownInv'
    <2> SUFFICES ASSUME ListsTypeOK, ShutdownInv, [ListsNext]_listVars PROVE ShutdownInv'
        OBVIOUS
    <2>1. CASE InitContext \/ \E s \in Shutters : BeginShutdown(s) \/ DestroyTracked(s) \/ EndShutdown(s)
        BY <2>1, ContextKeepsShutdown
    <2>2. ASSUME NEW e \in Owned, Construct(e) PROVE ShutdownInv'
        BY <2>2, ConstructKeepsShutdown
    <2>3. ASSUME NEW e \in Owned,
                 \/ BeginCreate(e) \/ GetParticipant(e) \/ TrackEntity(e)
                 \/ DestroyEntity(e) \/ RemoveEntity(e)
          PROVE ShutdownInv'
        BY <2>3, EntityKeepsShutdown
    <2>4. CASE BeginDestroy \/ CloseNext \/ EndPhase
        <3>1. UNCHANGED <<context, late, cpc>>
            BY <2>4 DEF BeginDestroy, CloseNext, EndPhase, entities
        <3>2. \E e : Close(e) \/ (life' = life /\ tracked' = tracked)
            BY <2>4 DEF BeginDestroy, CloseNext, EndPhase, entities
        <3> QED BY <3>1, <3>2, ClosingKeepsShutdown
    <2>5. CASE UNCHANGED listVars
        <3>1. UNCHANGED <<context, late, cpc, life, tracked>>
            BY <2>5 DEF listVars, entities
        <3> QED BY <3>1, ClosingKeepsShutdown
    <2> QED BY <2>1, <2>2, <2>3, <2>4, <2>5 DEF ListsNext
<1>3. ListsSpec => []ListsTypeOK
    BY ListsTypesHold
<1> QED BY <1>1, <1>2, <1>3, PTL DEF ListsSpec

\* EntitiesEnd, for any entities and any calls of shutdown(): once destroy_node is
\* past a kind, every entity of it that the user was given is closed, unless a
\* destroy_* of another thread shortened the list under its loop; and when the
\* context is shut down, every client and service it knew of is closed
\* (destroy_node, _track_entity of node.py; shutdown of context.py).
THEOREM EntitiesEndHolds == ListsSpec => []EntitiesEnd
<1>1. TeardownInv => TeardownInOrder
    BY DEF TeardownInv
<1>2. ShutdownInv => ShutdownClosesTracked
    BY DEF ShutdownInv, OneShutdown, TrackedWhen, LiveIsKnown, ShutdownClosesTracked
<1>3. TeardownInv /\ ShutdownInv => EntitiesEnd
    BY <1>1, <1>2 DEF EntitiesEnd
<1> QED BY <1>3, TeardownHolds, ShutdownHolds, PTL
-----------------------------------------------------------------------------
(* Parameters, for any names, values, descriptors and bulk declarations.     *)

\* A value has passed what it was last checked against; what a descriptor has
\* made read-only still has that descriptor, or one like it, and its value; only
\* what is declared is described.
DescribedInv ==
    /\ ParametersTypeOK
    /\ \A n \in ParameterNames :
         /\ value[n] # Absent => Fits(value[n], said[n])
         /\ fixed[n] # Absent =>
              value[n] = fixed[n] /\ descriptor[n] # Absent /\ descriptor[n].readOnly
         /\ descriptor[n] # Absent => value[n] # Absent

\* Whoever stores values keeps it, if those that change have passed and those
\* that are fixed do not change.
LEMMA Remembered ==
    ASSUME DescribedInv,
           NEW v \in [ParameterNames -> ParameterValues \cup {Absent}],
           NEW d \in [ParameterNames -> Descriptors \cup {Absent}],
           NEW checked,
           Remember(v, d, checked),
           \A n \in checked : v[n] \in ParameterValues /\ Fits(v[n], d[n]),
           \A n \in ParameterNames : n \notin checked \/ fixed[n] # Absent => v[n] = value[n],
           \A n \in ParameterNames : d[n] # Absent => v[n] # Absent,
           lenient' \in BOOLEAN,
           declaring' \in Seq(Items \X (Descriptors \cup {Absent}))
    PROVE  DescribedInv'
<1>1. /\ value' = v /\ descriptor' = d
      /\ said' = [n \in ParameterNames |-> IF n \in checked THEN d[n] ELSE said[n]]
      /\ fixed' = [n \in ParameterNames |->
                    IF d[n] = Absent \/ v[n] = Absent THEN Absent
                    ELSE IF ~d[n].readOnly THEN Absent
                    ELSE IF fixed[n] = Absent THEN v[n] ELSE fixed[n]]
    BY DEF Remember
<1>2. ParametersTypeOK'
    BY <1>1 DEF DescribedInv, ParametersTypeOK
<1>3. ASSUME NEW n \in ParameterNames, value'[n] # Absent PROVE Fits(value'[n], said'[n])
    <2>1. said'[n] = IF n \in checked THEN d[n] ELSE said[n]
        BY <1>1
    <2>2. CASE n \in checked
        BY <1>1, <2>1, <2>2
    <2>3. CASE n \notin checked
        <3>1. value'[n] = value[n] /\ said'[n] = said[n]
            BY <1>1, <2>1, <2>3
        <3> QED BY <1>3, <3>1 DEF DescribedInv
    <2> QED BY <2>2, <2>3
<1>4. ASSUME NEW n \in ParameterNames, fixed'[n] # Absent
      PROVE  value'[n] = fixed'[n] /\ descriptor'[n] # Absent /\ descriptor'[n].readOnly
    <2>1. /\ d[n] # Absent /\ d[n].readOnly
          /\ fixed'[n] = IF fixed[n] = Absent THEN v[n] ELSE fixed[n]
        BY <1>1, <1>4
    <2>2. fixed[n] # Absent => fixed[n] = value[n] /\ v[n] = value[n]
        BY DEF DescribedInv
    <2> QED BY <1>1, <2>1, <2>2
<1>5. DescribedInv' = /\ ParametersTypeOK'
                      /\ \A n \in ParameterNames :
                           /\ value'[n] # Absent => Fits(value'[n], said'[n])
                           /\ fixed'[n] # Absent =>
                                /\ value'[n] = fixed'[n]
                                /\ descriptor'[n] # Absent /\ descriptor'[n].readOnly
                           /\ descriptor'[n] # Absent => value'[n] # Absent
    BY DEF DescribedInv, Fits, InRange
<1> QED BY <1>1, <1>2, <1>3, <1>4, <1>5

\* A parameter that is accepted fits, and is not fixed.
LEMMA AcceptedFits ==
    ASSUME DescribedInv, NEW p \in Items, Accepted(p, descriptor[p.name])
    PROVE  Fits(p.value, descriptor[p.name]) /\ fixed[p.name] = Absent
<1>1. p.name \in ParameterNames /\ fixed[p.name] \in ParameterValues \cup {Absent}
    BY DEF Items, DescribedInv, ParametersTypeOK
<1> QED BY <1>1 DEF Accepted, DescribedInv

\* Declaring one, again or for the first time.
LEMMA DeclaringOne ==
    ASSUME DescribedInv, NEW p \in Items, NEW d \in Descriptors \cup {Absent},
           value[p.name] # Absent \/ Accepted(p, d),
           Declared(p, d),
           lenient' \in BOOLEAN,
           declaring' \in Seq(Items \X (Descriptors \cup {Absent}))
    PROVE  DescribedInv'
<1> DEFINE after == [descriptor EXCEPT ![p.name] = IF d = Absent THEN @ ELSE d]
           there == [value EXCEPT ![p.name] = p.value]
<1>0. p.name \in ParameterNames /\ p.value \in ParameterValues /\ p.value # Absent
    BY ParametersAssumption DEF Items
<1>1. /\ value \in [ParameterNames -> ParameterValues \cup {Absent}]
      /\ descriptor \in [ParameterNames -> Descriptors \cup {Absent}]
      /\ there \in [ParameterNames -> ParameterValues \cup {Absent}]
      /\ after \in [ParameterNames -> Descriptors \cup {Absent}]
    BY <1>0 DEF DescribedInv, ParametersTypeOK
<1>2. CASE value[p.name] # Absent
    <2>1. Remember(value, after, {})
        BY <1>2 DEF Declared
    <2>2. \A n \in ParameterNames : after[n] # Absent => value[n] # Absent
        BY <1>0, <1>1, <1>2 DEF DescribedInv
    <2> HIDE DEF after
    <2> QED BY <1>1, <2>1, <2>2, Remembered
<1>3. CASE value[p.name] = Absent
    <2>1. Remember(there, after, {p.name})
        BY <1>3 DEF Declared
    <2>2. fixed[p.name] = Absent
        BY <1>0, <1>1, <1>3 DEF DescribedInv
    <2>3. Fits(there[p.name], after[p.name])
        <3>1. there[p.name] = p.value
            BY <1>0, <1>1
        <3>2. CASE d = Absent
            <4>1. after[p.name] = descriptor[p.name] /\ descriptor[p.name] = Absent
                BY <1>0, <1>1, <1>3, <3>2 DEF DescribedInv
            <4> QED BY <4>1 DEF Fits
        <3>3. CASE d # Absent
            <4>1. after[p.name] = d
                BY <1>0, <1>1, <3>3
            <4> QED BY <1>3, <3>1, <4>1 DEF Accepted
        <3> QED BY <3>2, <3>3
    <2>4. there[p.name] = p.value /\ \A n \in ParameterNames : n # p.name => there[n] = value[n]
        BY <1>0, <1>1
    <2>7. \A n \in ParameterNames : after[n] # Absent => there[n] # Absent
        BY <1>0, <1>1 DEF DescribedInv
    <2> HIDE DEF after, there
    <2>5. \A n \in {p.name} : there[n] \in ParameterValues /\ Fits(there[n], after[n])
        BY <1>0, <2>3, <2>4
    <2>6. \A n \in ParameterNames : n \notin {p.name} \/ fixed[n] # Absent => there[n] = value[n]
        BY <2>2, <2>4
    <2> QED BY <1>1, <2>1, <2>5, <2>6, <2>7, Remembered
<1> QED BY <1>2, <1>3

\* What the items that pass leave: some item of that name, or what was there.
LEMMA StoredLast ==
    ASSUME NEW items \in Batches, DescribedInv
    PROVE  /\ Len(items) = 2
           /\ Stored(items) \in [ParameterNames -> ParameterValues \cup {Absent}]
           /\ \A n \in ParameterNames :
                \/ /\ \A i \in 1..2 : items[i] # Malformed => items[i].name # n
                   /\ Stored(items)[n] = value[n]
                \/ \E i \in 1..2 : /\ items[i] # Malformed /\ items[i].name = n
                                   /\ Stored(items)[n] = items[i].value
<1>1. Len(items) = 2 /\ items \in [1..2 -> Items \cup {Malformed}]
    <2>1. items \in Seq(Items \cup {Malformed})
        BY SeqDef DEF Batches
    <2> QED BY <2>1, LenProperties DEF Batches
<1> DEFINE of(n) == {i \in 1..Len(items) : items[i] # Malformed /\ items[i].name = n}
           chosen(n) == CHOOSE i \in of(n) : \A j \in of(n) : j <= i
<1>2. ASSUME NEW n \in ParameterNames, of(n) # {} PROVE chosen(n) \in of(n)
    <2>1. \E i \in of(n) : \A j \in of(n) : j <= i
        <3>1. of(n) \subseteq {1, 2}
            BY <1>1
        <3> HIDE DEF of
        <3> QED BY <1>2, <3>1
    <2> HIDE DEF of
    <2> QED BY <2>1
<1>3. Stored(items) = [n \in ParameterNames |-> IF of(n) = {} THEN value[n] ELSE items[chosen(n)].value]
    BY DEF Stored
<1>4. ASSUME NEW n \in ParameterNames
      PROVE  \/ /\ \A j \in 1..2 : items[j] # Malformed => items[j].name # n
                /\ Stored(items)[n] = value[n]
             \/ \E j \in 1..2 : /\ items[j] # Malformed /\ items[j].name = n
                                /\ Stored(items)[n] = items[j].value
    <2>1. CASE of(n) = {}
        <3>1. Stored(items)[n] = value[n]
            BY <1>3, <2>1
        <3>2. \A j \in 1..2 : items[j] # Malformed => items[j].name # n
            BY <1>1, <2>1
        <3> QED BY <3>1, <3>2
    <2>2. CASE of(n) # {}
        <3>1. chosen(n) \in of(n)
            BY <1>2, <2>2
        <3>2. Stored(items)[n] = items[chosen(n)].value
            BY <1>3, <2>2
        <3>3. chosen(n) \in 1..2 /\ items[chosen(n)] # Malformed /\ items[chosen(n)].name = n
            BY <1>1, <3>1
        <3> HIDE DEF chosen
        <3> QED BY <3>2, <3>3
    <2> QED BY <2>1, <2>2
<1>5. ASSUME NEW n \in ParameterNames PROVE Stored(items)[n] \in ParameterValues \cup {Absent}
    <2>1. value[n] \in ParameterValues \cup {Absent}
        BY DEF DescribedInv, ParametersTypeOK
    <2>2. \A j \in 1..2 : items[j] # Malformed => items[j].value \in ParameterValues
        BY <1>1 DEF Items
    <2> QED BY <1>4, <2>1, <2>2
<1>6. Stored(items) \in [ParameterNames -> ParameterValues \cup {Absent}]
    <2>1. Stored(items) = [n \in ParameterNames |-> Stored(items)[n]]
        BY <1>3
    <2> QED BY <1>5, <2>1
<1> QED BY <1>1, <1>4, <1>6

\* Storing some items, of which all pass.
LEMMA StoringItems ==
    ASSUME DescribedInv, NEW items \in Batches,
           \A i \in 1..2 : items[i] # Malformed => Settable(items[i]),
           NEW checked,
           \A n : n \in checked <=> \E i \in 1..2 : items[i] # Malformed /\ items[i].name = n,
           Remember(Stored(items), descriptor, checked),
           UNCHANGED <<lenient, declaring>>
    PROVE  DescribedInv'
<1>1. /\ Stored(items) \in [ParameterNames -> ParameterValues \cup {Absent}]
      /\ \A n \in ParameterNames :
           \/ /\ \A i \in 1..2 : items[i] # Malformed => items[i].name # n
              /\ Stored(items)[n] = value[n]
           \/ \E i \in 1..2 : /\ items[i] # Malformed /\ items[i].name = n
                              /\ Stored(items)[n] = items[i].value
    BY StoredLast
<1>2. \A i \in 1..2 : items[i] # Malformed => items[i] \in Items
    BY DEF Batches
<1>3. ASSUME NEW i \in 1..2, items[i] # Malformed
      PROVE  /\ items[i].name \in ParameterNames /\ items[i].value \in ParameterValues
             /\ Fits(items[i].value, descriptor[items[i].name]) /\ fixed[items[i].name] = Absent
    <2>1. items[i] \in Items /\ Accepted(items[i], descriptor[items[i].name])
        BY <1>2, <1>3 DEF Settable
    <2> QED BY <2>1, AcceptedFits DEF Items
<1>4. ASSUME NEW n \in checked
      PROVE  Stored(items)[n] \in ParameterValues /\ Fits(Stored(items)[n], descriptor[n])
    <2>1. PICK j \in 1..2 : items[j] # Malformed /\ items[j].name = n
        OBVIOUS
    <2>2. n \in ParameterNames
        BY <1>3, <2>1
    <2>3. PICK i \in 1..2 : items[i] # Malformed /\ items[i].name = n /\ Stored(items)[n] = items[i].value
        BY <1>1, <2>1, <2>2
    <2> QED BY <1>3, <2>3
<1>5. ASSUME NEW n \in ParameterNames, n \notin checked \/ fixed[n] # Absent
      PROVE  Stored(items)[n] = value[n]
    <2>1. ASSUME NEW i \in 1..2, items[i] # Malformed, items[i].name = n PROVE FALSE
        <3>1. n \in checked
            BY <2>1
        <3> QED BY <1>3, <1>5, <2>1, <3>1
    <2> QED BY <1>1, <2>1
<1>6. ASSUME NEW n \in ParameterNames, descriptor[n] # Absent PROVE Stored(items)[n] # Absent
    <2>1. value[n] # Absent
        BY <1>6 DEF DescribedInv
    <2> QED BY <1>1, <1>3, <2>1, ParametersAssumption
<1>7. /\ lenient' \in BOOLEAN /\ declaring' \in Seq(Items \X (Descriptors \cup {Absent}))
      /\ descriptor \in [ParameterNames -> Descriptors \cup {Absent}]
    BY DEF DescribedInv, ParametersTypeOK
<1>8. Stored(items) \in [ParameterNames -> ParameterValues \cup {Absent}]
    BY <1>1
<1> DEFINE v == Stored(items)
<1>9. /\ v \in [ParameterNames -> ParameterValues \cup {Absent}] /\ Remember(v, descriptor, checked)
      /\ \A n \in checked : v[n] \in ParameterValues /\ Fits(v[n], descriptor[n])
      /\ \A n \in ParameterNames : n \notin checked \/ fixed[n] # Absent => v[n] = value[n]
      /\ \A n \in ParameterNames : descriptor[n] # Absent => v[n] # Absent
    BY <1>4, <1>5, <1>6, <1>8
<1> HIDE DEF v
<1> QED BY <1>7, <1>9, Remembered

LEMMA DescribedInitially == ParametersInit => DescribedInv
<1> SUFFICES ASSUME ParametersInit PROVE DescribedInv
    OBVIOUS
<1>1. declaring \in Seq(Items \X (Descriptors \cup {Absent}))
    <2>1. <<>> \in Seq(Items \X (Descriptors \cup {Absent}))
        BY EmptySeq
    <2>2. ASSUME NEW i \in Items PROVE << <<i, Absent>> >> \in Seq(Items \X (Descriptors \cup {Absent}))
        OBVIOUS
    <2> QED BY <2>1, <2>2 DEF ParametersInit
<1>2. /\ lenient \in BOOLEAN
      /\ value = [n \in ParameterNames |-> Absent] /\ descriptor = value
      /\ said = value /\ fixed = value
    BY DEF ParametersInit
<1> QED BY <1>1, <1>2 DEF DescribedInv, ParametersTypeOK

LEMMA DescribedStep == DescribedInv /\ [ParametersNext]_parameterVars => DescribedInv'
<1> SUFFICES ASSUME DescribedInv, [ParametersNext]_parameterVars PROVE DescribedInv'
    OBVIOUS
<1> DEFINE Bulk == Seq(Items \X (Descriptors \cup {Absent}))
<1>0. lenient \in BOOLEAN /\ declaring \in Bulk
    BY DEF DescribedInv, ParametersTypeOK
<1>u. ASSUME UNCHANGED <<value, descriptor, said, fixed>>, lenient' \in BOOLEAN, declaring' \in Bulk
      PROVE  DescribedInv'
    BY <1>u DEF DescribedInv, ParametersTypeOK, Fits, InRange
<1>1. ASSUME NEW p \in Items, NEW d \in Descriptors \cup {Absent}, DeclareParameter(p, d)
      PROVE  DescribedInv'
    BY <1>0, <1>1, DeclaringOne DEF DeclareParameter
<1>2. ASSUME NEW b \in Bulks, DeclareParameters(b) PROVE DescribedInv'
    <2>1. b \in Bulk
        BY ParametersAssumption
    <2> QED BY <1>0, <1>u, <1>2, <2>1 DEF DeclareParameters
<1>3. CASE DeclareNext
    <2>1. declaring[1] \in Items \X (Descriptors \cup {Absent}) /\ Tail(declaring) \in Bulk
        BY <1>0, <1>3, HeadTailProperties DEF DeclareNext
    <2> DEFINE p == declaring[1][1]
               d == declaring[1][2]
    <2>2. p \in Items /\ d \in Descriptors \cup {Absent}
        BY <2>1
    <2>3. CASE value[p.name] # Absent \/ Accepted(p, d)
        <3>1. Declared(p, d) /\ declaring' = Tail(declaring) /\ lenient' = lenient
            BY <1>3, <2>3 DEF DeclareNext
        <3> HIDE DEF p, d
        <3> QED BY <1>0, <2>1, <2>2, <2>3, <3>1, DeclaringOne
    <2>4. CASE ~(value[p.name] # Absent \/ Accepted(p, d))
        <3>1. /\ UNCHANGED <<value, descriptor, said, fixed>>
              /\ declaring' = <<>> /\ lenient' = lenient
            BY <1>3, <2>4 DEF DeclareNext
        <3>2. <<>> \in Bulk
            BY EmptySeq
        <3> QED BY <1>0, <1>u, <3>1, <3>2
    <2> QED BY <2>3, <2>4
<1>4. ASSUME NEW items \in Batches, SetParameters(items) PROVE DescribedInv'
    <2> DEFINE upTo == {i \in 1..Len(items) : \A j \in 1..i : items[j] # Malformed}
               passes == {i \in upTo : Settable(items[i])}
               kept == [i \in 1..Len(items) |-> IF i \in passes THEN items[i] ELSE Malformed]
    <2>1. Len(items) = 2 /\ items \in [1..2 -> Items \cup {Malformed}]
        BY StoredLast DEF Batches
    <2>2. kept \in Batches /\ \A i \in 1..2 : kept[i] = IF i \in passes THEN items[i] ELSE Malformed
        BY <2>1 DEF Batches
    <2>3. \A i \in passes : i \in 1..2 /\ items[i] # Malformed /\ Settable(items[i])
        BY <2>1
    <2>4. /\ Remember(Stored(kept), descriptor, {items[i].name : i \in passes})
          /\ UNCHANGED <<lenient, declaring>>
        BY <1>4 DEF SetParameters
    <2> HIDE DEF passes, kept
    <2>5. ASSUME NEW n
          PROVE  n \in {items[i].name : i \in passes} <=>
                   \E i \in 1..2 : kept[i] # Malformed /\ kept[i].name = n
        BY <2>2, <2>3
    <2>6. \A i \in 1..2 : kept[i] # Malformed => Settable(kept[i])
        BY <2>2, <2>3
    <2> QED BY <2>2, <2>4, <2>5, <2>6, StoringItems
<1>5. ASSUME NEW items \in Batches, SetParametersAtomically(items) PROVE DescribedInv'
    <2>1. Len(items) = 2
        BY StoredLast
    <2>2. \A i \in 1..2 : items[i] # Malformed /\ Settable(items[i])
        BY <1>5, <2>1 DEF SetParametersAtomically, Settable
    <2>3. ASSUME NEW n
          PROVE  n \in {items[i].name : i \in 1..Len(items)} <=>
                   \E i \in 1..2 : items[i] # Malformed /\ items[i].name = n
        BY <2>1, <2>2
    <2>4. /\ Remember(Stored(items), descriptor, {items[i].name : i \in 1..Len(items)})
          /\ UNCHANGED <<lenient, declaring>>
        BY <1>5 DEF SetParametersAtomically
    <2> QED BY <2>2, <2>3, <2>4, StoringItems
<1>6. CASE UNCHANGED parameterVars
    BY <1>0, <1>6, <1>u DEF parameterVars
<1> QED BY <1>1, <1>2, <1>3, <1>4, <1>5, <1>6 DEF ParametersNext

\* AsDescribed (property of the run node): however parameters are declared and
\* set, a value fits the descriptor it was last checked against, and read-only
\* ones keep theirs (_validate_parameter_update, declare_parameter,
\* set_parameters, set_parameters_atomically).
THEOREM AsDescribedHolds == ParametersSpec => []AsDescribed
<1>1. DescribedInv => AsDescribed
    BY DEF DescribedInv, AsDescribed
<1> QED BY <1>1, DescribedInitially, DescribedStep, PTL DEF ParametersSpec
-----------------------------------------------------------------------------
(* NodeLogger, for any threads, keys, period, times and size of the memories. *)

\* What the class remembers, as far as it has not had to forget it, is what was
\* logged; a thread that is through with its look has found its key new, unless
\* the key was forgotten or another thread has the same one in hand.
Repeating(m, k) == <<m, k>> \in forgot \cup raced
RepeatInv ==
    /\ LoggerTypeOK
    /\ logged \in [Keys -> 0..MaxTime \cup {Nobody}]
    /\ again \subseteq forgot \cup raced
    /\ \A k \in Keys : last[k] = logged[k] \/ <<"throttle", k>> \in forgot
    /\ \A k \in uttered : k \in once \/ <<"once", k>> \in forgot
    /\ \A t \in Threads :
         /\ pc[t] # "idle" => key[t] \in Keys
         /\ pc[t] = "throttle" =>
              ~Fresh(key[t], logged, seen[t]) \/ Repeating("throttle", key[t])
         /\ pc[t] = "once" => key[t] \notin uttered \/ Repeating("once", key[t])
    /\ \A t, u \in Threads :
         t # u /\ pc[t] # "idle" /\ pc[u] = pc[t] /\ key[u] = key[t] => <<pc[t], key[t]>> \in raced

\* No memory holds more than it may.
MemoriesBounded ==
    /\ Len(throttled) <= StateMax
    /\ IsFiniteSet(once) /\ Cardinality(once) <= StateMax
    /\ IsFiniteSet(done) /\ Cardinality(done) <= StateMax

\* _add_bounded forgets no more than it must.
LEMMA AddedBounded ==
    ASSUME NEW state \in SUBSET Keys, NEW k \in Keys, NEW next \in AddBounded(state, k)
    PROVE  /\ next \subseteq state \cup {k}
           /\ IsFiniteSet(state) /\ Cardinality(state) <= StateMax =>
                IsFiniteSet(next) /\ Cardinality(next) <= StateMax
<1> DEFINE full == state \cup {k}
<1>1. next = full \/ \E x \in full : next = full \ {x}
    BY DEF AddBounded
<1>2. ASSUME IsFiniteSet(state), Cardinality(state) <= StateMax
      PROVE  IsFiniteSet(next) /\ Cardinality(next) <= StateMax
    <2>1. /\ IsFiniteSet(full) /\ Cardinality(full) \in Nat /\ Cardinality(state) \in Nat
          /\ Cardinality(full) <= Cardinality(state) + 1
        <3>1. /\ IsFiniteSet(full) /\ Cardinality(state) \in Nat
              /\ Cardinality(full) = IF k \in state THEN Cardinality(state) ELSE Cardinality(state) + 1
            BY <1>2, FS_AddElement, FS_CardinalityType
        <3> HIDE DEF full
        <3> QED BY <3>1
    <2>2. StateMax \in Nat
        BY LoggerAssumption
    <2>3. CASE Cardinality(full) > StateMax
        <3>1. PICK x \in full : next = full \ {x}
            BY <2>3 DEF AddBounded
        <3>2. IsFiniteSet(next) /\ Cardinality(next) = Cardinality(full) - 1
            BY <2>1, <3>1, FS_RemoveElement
        <3> QED BY <1>2, <2>1, <2>2, <3>2
    <2>4. CASE ~(Cardinality(full) > StateMax)
        <3>1. next = full
            BY <2>4 DEF AddBounded
        <3> QED BY <2>1, <2>2, <2>4, <3>1
    <2> QED BY <2>3, <2>4
<1> QED BY <1>1, <1>2

\* The keys that a throttled call has remembered, and those that stay.
LEMMA KeysRemembered ==
    ASSUME NEW s \in Seq(Keys), NEW k \in Keys, NEW keys,
           keys = IF Contains(s, k) THEN s ELSE Append(s, k),
           Len(s) <= StateMax
    PROVE  /\ keys \in Seq(Keys) /\ Len(keys) \in Nat
           /\ Len(keys) > StateMax => Tail(keys) \in Seq(Keys) /\ Len(Tail(keys)) <= StateMax
           /\ Len(keys) > StateMax => Head(keys) \in Keys
<1>1. StateMax \in Nat /\ Len(s) \in Nat
    BY LoggerAssumption, LenProperties
<1>2. keys \in Seq(Keys) /\ Len(keys) \in Nat /\ Len(keys) <= Len(s) + 1
    <2>1. Append(s, k) \in Seq(Keys) /\ Len(Append(s, k)) = Len(s) + 1
        BY AppendProperties
    <2> QED BY <1>1, <2>1
<1>3. ASSUME Len(keys) > StateMax
      PROVE  Tail(keys) \in Seq(Keys) /\ Len(Tail(keys)) <= StateMax /\ Head(keys) \in Keys
    <2>1. keys # <<>>
        BY <1>1, <1>3, EmptySeq
    <2>2. Tail(keys) \in Seq(Keys) /\ Len(Tail(keys)) = Len(keys) - 1 /\ Head(keys) \in Keys
        BY <1>2, <2>1, HeadTailProperties
    <2> QED BY <1>1, <1>2, <2>2
<1> QED BY <1>2, <1>3

LEMMA RepeatInitially == LoggerInit => RepeatInv /\ MemoriesBounded
<1> SUFFICES ASSUME LoggerInit PROVE RepeatInv /\ MemoriesBounded
    OBVIOUS
<1>1. {Period, StateMax, MaxTime, MaxLogCalls} \subseteq Nat
    BY LoggerAssumption
<1>2. <<>> \in Seq(Keys) /\ Len(<<>>) = 0
    BY EmptySeq
<1>3. MemoriesBounded
    BY <1>1, <1>2, FS_EmptySet DEF LoggerInit, MemoriesBounded
<1>4. LoggerTypeOK
    BY <1>1, <1>2 DEF LoggerInit, LoggerTypeOK
<1>5. RepeatInv
    BY <1>4 DEF LoggerInit, RepeatInv
<1> QED BY <1>3, <1>5

\* A look leaves everything as it was but for the thread that looks.
LEMMA RepeatLook ==
    ASSUME RepeatInv, MemoriesBounded, NEW t \in Threads, NEW m \in Memories, NEW k \in Keys,
           Look(t, m, k)
    PROVE  RepeatInv' /\ MemoriesBounded'
<1>1. /\ pc \in [Threads -> Memories \cup {"idle"}]
      /\ key \in [Threads -> Keys \cup {Nobody}] /\ seen \in [Threads -> 0..MaxTime]
      /\ MaxLogCalls \in Nat /\ MaxTime \in Nat
    BY LoggerAssumption DEF RepeatInv, LoggerTypeOK
<1>2. /\ UNCHANGED <<time, throttled, last, once, done, logged, uttered, forgot, again>>
      /\ calls' \in 0..MaxLogCalls /\ m # "idle"
    BY <1>1 DEF Look, shared, RepeatInv, LoggerTypeOK, Memories
<1>3. MemoriesBounded'
    BY <1>2 DEF MemoriesBounded
<1>4. CASE ~Passes(m, k)
    <2>1. UNCHANGED <<pc, key, seen, raced>>
        BY <1>4 DEF Look
    <2>2. LoggerTypeOK'
        BY <1>2, <2>1 DEF RepeatInv, LoggerTypeOK
    <2> QED BY <1>2, <1>3, <2>1, <2>2 DEF RepeatInv, Repeating, Fresh
<1>5. CASE Passes(m, k)
    <2>1. /\ pc[t] = "idle"
          /\ pc' = [pc EXCEPT ![t] = m] /\ key' = [key EXCEPT ![t] = k]
          /\ seen' = [seen EXCEPT ![t] = time]
          /\ raced' = IF \E u \in Threads : pc[u] = m /\ key[u] = k
                        THEN raced \cup {<<m, k>>} ELSE raced
        BY <1>5 DEF Look
    <2>2. /\ pc'[t] = m /\ key'[t] = k /\ seen'[t] = time
          /\ \A u \in Threads : u # t => pc'[u] = pc[u] /\ key'[u] = key[u] /\ seen'[u] = seen[u]
        BY <1>1, <2>1
    <2>3. raced \subseteq raced' /\ ((\E u \in Threads : pc[u] = m /\ key[u] = k) => <<m, k>> \in raced')
        BY <2>1
    <2>4. LoggerTypeOK'
        <3>1. <<m, k>> \in Memories \X Keys /\ time \in 0..MaxTime
            BY DEF RepeatInv, LoggerTypeOK
        <3>2. /\ pc' \in [Threads -> Memories \cup {"idle"}]
              /\ key' \in [Threads -> Keys \cup {Nobody}] /\ seen' \in [Threads -> 0..MaxTime]
            BY <1>1, <2>1, <3>1
        <3>3. forgot' \cup raced' \cup again' \subseteq Memories \X Keys
            BY <1>2, <2>1, <3>1 DEF RepeatInv, LoggerTypeOK
        <3> QED BY <1>2, <3>2, <3>3 DEF RepeatInv, LoggerTypeOK
    <2>5. m = "throttle" => ~Fresh(k, logged, time) \/ <<"throttle", k>> \in forgot
        BY <1>5 DEF Passes, Fresh, RepeatInv
    <2>6. m = "once" => k \notin uttered \/ <<"once", k>> \in forgot
        BY <1>5 DEF Passes, RepeatInv
    <2>7. ASSUME NEW u \in Threads
          PROVE  /\ pc'[u] # "idle" => key'[u] \in Keys
                 /\ pc'[u] = "throttle" =>
                      ~Fresh(key'[u], logged', seen'[u]) \/ <<"throttle", key'[u]>> \in forgot' \cup raced'
                 /\ pc'[u] = "once" =>
                      key'[u] \notin uttered' \/ <<"once", key'[u]>> \in forgot' \cup raced'
        <3>1. CASE u = t
            BY <1>2, <2>2, <2>5, <2>6, <3>1 DEF Fresh
        <3>2. CASE u # t
            BY <1>2, <2>2, <2>3, <3>2 DEF Fresh, RepeatInv, Repeating
        <3> QED BY <3>1, <3>2
    <2>8. ASSUME NEW u \in Threads, NEW v \in Threads,
                 u # v, pc'[u] # "idle", pc'[v] = pc'[u], key'[v] = key'[u]
          PROVE  <<pc'[u], key'[u]>> \in raced'
        <3>1. CASE u # t /\ v # t
            BY <2>2, <2>3, <2>8, <3>1 DEF RepeatInv
        <3>2. CASE u = t
            BY <2>2, <2>3, <2>8, <3>2
        <3>3. CASE v = t
            BY <2>2, <2>3, <2>8, <3>3
        <3> QED BY <3>1, <3>2, <3>3
    <2>9. /\ logged' \in [Keys -> 0..MaxTime \cup {Nobody}]
          /\ again' \subseteq forgot' \cup raced'
          /\ \A x \in Keys : last'[x] = logged'[x] \/ <<"throttle", x>> \in forgot'
          /\ \A x \in uttered' : x \in once' \/ <<"once", x>> \in forgot'
        BY <1>2, <2>3 DEF RepeatInv
    <2> QED BY <1>3, <2>4, <2>7, <2>8, <2>9 DEF RepeatInv, Repeating, Fresh
<1> QED BY <1>4, <1>5

\* What the end of a call leaves of the others: the thread is idle again.
LEMMA Ended ==
    ASSUME RepeatInv, NEW t \in Threads, NEW m \in Memories, Ends(t, m)
    PROVE  /\ key[t] \in Keys /\ pc[t] = m /\ m # "idle"
           /\ pc' \in [Threads -> Memories \cup {"idle"}]
           /\ key' \in [Threads -> Keys \cup {Nobody}] /\ seen' \in [Threads -> 0..MaxTime]
           /\ time' = time /\ calls' = calls /\ raced' = raced
           /\ pc'[t] = "idle"
           /\ \A u \in Threads : u # t => pc'[u] = pc[u] /\ key'[u] = key[u] /\ seen'[u] = seen[u]
           /\ \A u, v \in Threads :
                u # v /\ pc'[u] # "idle" /\ pc'[v] = pc'[u] /\ key'[v] = key'[u] =>
                  <<pc'[u], key'[u]>> \in raced'
<1>1. /\ pc \in [Threads -> Memories \cup {"idle"}]
      /\ key \in [Threads -> Keys \cup {Nobody}] /\ seen \in [Threads -> 0..MaxTime]
      /\ MaxTime \in Nat
    BY LoggerAssumption DEF RepeatInv, LoggerTypeOK
<1>2. /\ pc[t] = m /\ m # "idle"
      /\ pc' = [pc EXCEPT ![t] = "idle"] /\ key' = [key EXCEPT ![t] = Nobody]
      /\ seen' = [seen EXCEPT ![t] = 0]
      /\ time' = time /\ calls' = calls /\ raced' = raced
    BY DEF Ends, Memories
<1>3. /\ pc'[t] = "idle"
      /\ \A u \in Threads : u # t => pc'[u] = pc[u] /\ key'[u] = key[u] /\ seen'[u] = seen[u]
    BY <1>1, <1>2
<1>4. key[t] \in Keys
    BY <1>2 DEF RepeatInv
<1>5. ASSUME NEW u \in Threads, NEW v \in Threads,
             u # v, pc'[u] # "idle", pc'[v] = pc'[u], key'[v] = key'[u]
      PROVE  <<pc'[u], key'[u]>> \in raced'
    <2>1. u # t /\ v # t
        BY <1>3, <1>5
    <2> QED BY <1>2, <1>3, <1>5, <2>1 DEF RepeatInv
<1>6. 0 \in 0..MaxTime
    BY <1>1
<1> QED BY <1>1, <1>2, <1>3, <1>4, <1>5, <1>6

LEMMA RepeatTime ==
    ASSUME RepeatInv, MemoriesBounded, NEW t \in Threads, RememberTime(t)
    PROVE  RepeatInv' /\ MemoriesBounded'
<1> DEFINE k == key[t]
           keys == IF Contains(throttled, k) THEN throttled ELSE Append(throttled, k)
           goes == IF Len(keys) > StateMax THEN {Head(keys)} ELSE {}
<1>1. Ends(t, "throttle") /\ "throttle" \in Memories
    BY DEF RememberTime, Memories
<1>2. /\ k \in Keys /\ pc[t] = "throttle"
      /\ pc' \in [Threads -> Memories \cup {"idle"}]
      /\ key' \in [Threads -> Keys \cup {Nobody}] /\ seen' \in [Threads -> 0..MaxTime]
      /\ time' = time /\ calls' = calls /\ raced' = raced
      /\ pc'[t] = "idle"
      /\ \A u \in Threads : u # t => pc'[u] = pc[u] /\ key'[u] = key[u] /\ seen'[u] = seen[u]
      /\ \A u, v \in Threads :
           u # v /\ pc'[u] # "idle" /\ pc'[v] = pc'[u] /\ key'[v] = key'[u] =>
             <<pc'[u], key'[u]>> \in raced'
    BY <1>1, Ended
<1>3. /\ throttled' = IF goes = {} THEN keys ELSE Tail(keys)
      /\ last' = [x \in Keys |-> IF x \in goes THEN Nobody ELSE IF x = k THEN seen[t] ELSE last[x]]
      /\ forgot' = forgot \cup ({"throttle"} \X goes)
      /\ logged' = [logged EXCEPT ![k] = seen[t]]
      /\ again' = IF Fresh(k, logged, seen[t]) THEN again \cup {<<"throttle", k>>} ELSE again
      /\ UNCHANGED <<once, done, uttered>>
    BY DEF RememberTime
<1>4. /\ throttled \in Seq(Keys) /\ Len(throttled) <= StateMax
      /\ last \in [Keys -> 0..MaxTime \cup {Nobody}] /\ logged \in [Keys -> 0..MaxTime \cup {Nobody}]
      /\ seen[t] \in 0..MaxTime
    BY DEF RepeatInv, LoggerTypeOK, MemoriesBounded
<1>5. /\ keys \in Seq(Keys) /\ Len(keys) \in Nat
      /\ Len(keys) > StateMax =>
           Tail(keys) \in Seq(Keys) /\ Len(Tail(keys)) <= StateMax /\ Head(keys) \in Keys
    BY <1>2, <1>4, KeysRemembered
<1>6. StateMax \in Nat
    BY LoggerAssumption
<1> HIDE DEF keys
<1>7. /\ throttled' \in Seq(Keys) /\ Len(throttled') <= StateMax /\ goes \subseteq Keys
    BY <1>3, <1>5, <1>6
<1> HIDE DEF goes
<1>8. MemoriesBounded'
    BY <1>3, <1>7 DEF MemoriesBounded
<1>9. forgot \subseteq forgot' /\ \A x \in goes : <<"throttle", x>> \in forgot'
    BY <1>3
<1>10. Fresh(k, logged, seen[t]) => <<"throttle", k>> \in forgot \cup raced
    BY <1>2 DEF RepeatInv, Repeating
<1>11. again' \subseteq forgot' \cup raced'
    BY <1>2, <1>3, <1>9, <1>10 DEF RepeatInv
<1>12. LoggerTypeOK'
    <2>1. last' \in [Keys -> 0..MaxTime \cup {Nobody}]
        BY <1>3, <1>4
    <2>2. {"throttle"} \X goes \subseteq Memories \X Keys /\ <<"throttle", k>> \in Memories \X Keys
        BY <1>1, <1>2, <1>7
    <2>3. forgot' \cup raced' \cup again' \subseteq Memories \X Keys
        BY <1>2, <1>3, <2>2 DEF RepeatInv, LoggerTypeOK
    <2> QED BY <1>2, <1>3, <1>7, <2>1, <2>3 DEF RepeatInv, LoggerTypeOK
<1>13. /\ logged' \in [Keys -> 0..MaxTime \cup {Nobody}] /\ logged'[k] = seen[t]
       /\ \A x \in Keys : x # k => logged'[x] = logged[x]
    BY <1>2, <1>3, <1>4
<1>14. ASSUME NEW x \in Keys PROVE last'[x] = logged'[x] \/ <<"throttle", x>> \in forgot'
    <2>1. CASE x \in goes
        BY <1>9, <2>1
    <2>2. CASE x \notin goes /\ x = k
        BY <1>3, <1>13, <2>2
    <2>3. CASE x \notin goes /\ x # k
        <3>1. last'[x] = last[x] /\ logged'[x] = logged[x]
            BY <1>3, <1>13, <2>3
        <3> QED BY <1>9, <3>1 DEF RepeatInv
    <2> QED BY <2>1, <2>2, <2>3
<1>15. \A x \in uttered' : x \in once' \/ <<"once", x>> \in forgot'
    BY <1>3, <1>9 DEF RepeatInv
<1>16. ASSUME NEW u \in Threads
       PROVE  /\ pc'[u] # "idle" => key'[u] \in Keys
              /\ pc'[u] = "throttle" =>
                   ~Fresh(key'[u], logged', seen'[u]) \/ <<"throttle", key'[u]>> \in forgot' \cup raced'
              /\ pc'[u] = "once" =>
                   key'[u] \notin uttered' \/ <<"once", key'[u]>> \in forgot' \cup raced'
    <2>1. CASE u = t
        BY <1>2, <2>1
    <2>2. CASE u # t
        <3>1. pc'[u] = pc[u] /\ key'[u] = key[u] /\ seen'[u] = seen[u]
            BY <1>2, <2>2
        <3>2. pc[u] # "idle" => key[u] \in Keys
            BY DEF RepeatInv
        <3>3. pc[u] = "once" => key'[u] \notin uttered' \/ <<"once", key'[u]>> \in forgot' \cup raced'
            BY <1>2, <1>3, <1>9, <3>1 DEF RepeatInv, Repeating
        <3>4. ASSUME pc[u] = "throttle"
              PROVE  ~Fresh(key'[u], logged', seen'[u]) \/ <<"throttle", key'[u]>> \in forgot' \cup raced'
            <4>1. CASE key[u] = k
                <5>1. <<"throttle", k>> \in raced
                    BY <1>2, <2>2, <3>4, <4>1 DEF RepeatInv
                <5> QED BY <1>2, <3>1, <4>1, <5>1
            <4>2. CASE key[u] # k
                <5>1. logged'[key[u]] = logged[key[u]]
                    BY <1>13, <3>2, <3>4, <4>2
                <5>2. ~Fresh(key[u], logged, seen[u]) \/ <<"throttle", key[u]>> \in forgot \cup raced
                    BY <3>4 DEF RepeatInv, Repeating
                <5> QED BY <1>2, <1>9, <3>1, <5>1, <5>2 DEF Fresh
            <4> QED BY <4>1, <4>2
        <3> QED BY <3>1, <3>2, <3>3, <3>4
    <2> QED BY <2>1, <2>2
<1> QED BY <1>2, <1>8, <1>11, <1>12, <1>13, <1>14, <1>15, <1>16 DEF RepeatInv, Repeating, Fresh

LEMMA RepeatOnce ==
    ASSUME RepeatInv, MemoriesBounded, NEW t \in Threads, RememberOnce(t)
    PROVE  RepeatInv' /\ MemoriesBounded'
<1> DEFINE k == key[t]
<1>1. Ends(t, "once") /\ "once" \in Memories
    BY DEF RememberOnce, Memories
<1>2. /\ k \in Keys /\ pc[t] = "once"
      /\ pc' \in [Threads -> Memories \cup {"idle"}]
      /\ key' \in [Threads -> Keys \cup {Nobody}] /\ seen' \in [Threads -> 0..MaxTime]
      /\ time' = time /\ calls' = calls /\ raced' = raced
      /\ pc'[t] = "idle"
      /\ \A u \in Threads : u # t => pc'[u] = pc[u] /\ key'[u] = key[u] /\ seen'[u] = seen[u]
      /\ \A u, v \in Threads :
           u # v /\ pc'[u] # "idle" /\ pc'[v] = pc'[u] /\ key'[v] = key'[u] =>
             <<pc'[u], key'[u]>> \in raced'
    BY <1>1, Ended
<1>3. /\ once' \in AddBounded(once, k)
      /\ forgot' = forgot \cup ({"once"} \X ((once \cup {k}) \ once'))
      /\ uttered' = uttered \cup {k}
      /\ again' = IF k \in uttered THEN again \cup {<<"once", k>>} ELSE again
      /\ UNCHANGED <<throttled, last, done, logged>>
    BY DEF RememberOnce
<1>4. once \subseteq Keys /\ IsFiniteSet(once) /\ Cardinality(once) <= StateMax
    BY DEF RepeatInv, LoggerTypeOK, MemoriesBounded
<1>5. once' \subseteq once \cup {k} /\ IsFiniteSet(once') /\ Cardinality(once') <= StateMax
    BY <1>2, <1>3, <1>4, AddedBounded
<1>6. MemoriesBounded'
    BY <1>3, <1>5 DEF MemoriesBounded
<1>7. forgot \subseteq forgot' /\ \A x \in once \cup {k} : x \in once' \/ <<"once", x>> \in forgot'
    BY <1>3
<1>8. k \in uttered => <<"once", k>> \in forgot \cup raced
    BY <1>2 DEF RepeatInv, Repeating
<1>9. again' \subseteq forgot' \cup raced'
    BY <1>2, <1>3, <1>7, <1>8 DEF RepeatInv
<1>10. LoggerTypeOK'
    <2>1. /\ {"once"} \X ((once \cup {k}) \ once') \subseteq Memories \X Keys
          /\ <<"once", k>> \in Memories \X Keys
        BY <1>1, <1>2, <1>4
    <2>2. forgot' \cup raced' \cup again' \subseteq Memories \X Keys
        BY <1>2, <1>3, <2>1 DEF RepeatInv, LoggerTypeOK
    <2>3. once' \subseteq Keys
        BY <1>2, <1>4, <1>5
    <2> QED BY <1>2, <1>3, <2>2, <2>3 DEF RepeatInv, LoggerTypeOK
<1>11. ASSUME NEW x \in uttered' PROVE x \in once' \/ <<"once", x>> \in forgot'
    <2>1. CASE x = k
        BY <1>7, <2>1
    <2>2. CASE x # k
        <3>1. x \in once \/ <<"once", x>> \in forgot
            BY <1>3, <2>2 DEF RepeatInv
        <3> QED BY <1>7, <3>1
    <2> QED BY <2>1, <2>2
<1>12. /\ logged' \in [Keys -> 0..MaxTime \cup {Nobody}]
       /\ \A x \in Keys : last'[x] = logged'[x] \/ <<"throttle", x>> \in forgot'
    BY <1>3, <1>7 DEF RepeatInv
<1>13. ASSUME NEW u \in Threads
       PROVE  /\ pc'[u] # "idle" => key'[u] \in Keys
              /\ pc'[u] = "throttle" =>
                   ~Fresh(key'[u], logged', seen'[u]) \/ <<"throttle", key'[u]>> \in forgot' \cup raced'
              /\ pc'[u] = "once" =>
                   key'[u] \notin uttered' \/ <<"once", key'[u]>> \in forgot' \cup raced'
    <2>1. CASE u = t
        BY <1>2, <2>1
    <2>2. CASE u # t
        <3>1. pc'[u] = pc[u] /\ key'[u] = key[u] /\ seen'[u] = seen[u]
            BY <1>2, <2>2
        <3>2. pc[u] # "idle" => key[u] \in Keys
            BY DEF RepeatInv
        <3>3. ASSUME pc[u] = "throttle"
              PROVE  ~Fresh(key[u], logged, seen[u]) \/ <<"throttle", key[u]>> \in forgot' \cup raced'
            BY <1>2, <1>7, <3>3 DEF RepeatInv, Repeating
        <3>4. ASSUME pc[u] = "once"
              PROVE  key'[u] \notin uttered' \/ <<"once", key'[u]>> \in forgot' \cup raced'
            <4>1. key[u] = k => <<"once", k>> \in raced
                BY <1>2, <2>2, <3>4 DEF RepeatInv
            <4>2. key[u] \notin uttered \/ <<"once", key[u]>> \in forgot \cup raced
                BY <3>4 DEF RepeatInv, Repeating
            <4> QED BY <1>2, <1>3, <1>7, <3>1, <4>1, <4>2
        <3> QED BY <1>3, <3>1, <3>2, <3>3, <3>4
    <2> QED BY <2>1, <2>2
<1> QED BY <1>2, <1>6, <1>9, <1>10, <1>11, <1>12, <1>13 DEF RepeatInv, Repeating, Fresh

LEMMA RepeatSkipped ==
    ASSUME RepeatInv, MemoriesBounded, NEW t \in Threads, RememberSkipped(t)
    PROVE  RepeatInv' /\ MemoriesBounded'
<1>1. Ends(t, "skipfirst") /\ "skipfirst" \in Memories
    BY DEF RememberSkipped, Memories
<1>2. /\ key[t] \in Keys
      /\ pc' \in [Threads -> Memories \cup {"idle"}]
      /\ key' \in [Threads -> Keys \cup {Nobody}] /\ seen' \in [Threads -> 0..MaxTime]
      /\ time' = time /\ calls' = calls /\ raced' = raced
      /\ pc'[t] = "idle"
      /\ \A u \in Threads : u # t => pc'[u] = pc[u] /\ key'[u] = key[u] /\ seen'[u] = seen[u]
      /\ \A u, v \in Threads :
           u # v /\ pc'[u] # "idle" /\ pc'[v] = pc'[u] /\ key'[v] = key'[u] =>
             <<pc'[u], key'[u]>> \in raced'
    BY <1>1, Ended
<1>3. /\ done' \in AddBounded(done, key[t])
      /\ UNCHANGED <<throttled, last, once, forgot, logged, uttered, again>>
    BY DEF RememberSkipped
<1>4. done \subseteq Keys /\ IsFiniteSet(done) /\ Cardinality(done) <= StateMax
    BY DEF RepeatInv, LoggerTypeOK, MemoriesBounded
<1>5. done' \subseteq done \cup {key[t]} /\ IsFiniteSet(done') /\ Cardinality(done') <= StateMax
    BY <1>2, <1>3, <1>4, AddedBounded
<1>6. MemoriesBounded'
    BY <1>3, <1>5 DEF MemoriesBounded
<1>7. LoggerTypeOK'
    BY <1>2, <1>3, <1>4, <1>5 DEF RepeatInv, LoggerTypeOK
<1>8. ASSUME NEW u \in Threads
      PROVE  /\ pc'[u] # "idle" => key'[u] \in Keys
             /\ pc'[u] = "throttle" =>
                  ~Fresh(key'[u], logged', seen'[u]) \/ <<"throttle", key'[u]>> \in forgot' \cup raced'
             /\ pc'[u] = "once" =>
                  key'[u] \notin uttered' \/ <<"once", key'[u]>> \in forgot' \cup raced'
    <2>1. CASE u = t
        BY <1>2, <2>1
    <2>2. CASE u # t
        BY <1>2, <1>3, <2>2 DEF RepeatInv, Repeating, Fresh
    <2> QED BY <2>1, <2>2
<1>9. /\ logged' \in [Keys -> 0..MaxTime \cup {Nobody}]
      /\ again' \subseteq forgot' \cup raced'
      /\ \A x \in Keys : last'[x] = logged'[x] \/ <<"throttle", x>> \in forgot'
      /\ \A x \in uttered' : x \in once' \/ <<"once", x>> \in forgot'
    BY <1>2, <1>3 DEF RepeatInv
<1> QED BY <1>2, <1>6, <1>7, <1>8, <1>9 DEF RepeatInv, Repeating, Fresh

LEMMA RepeatStep == RepeatInv /\ MemoriesBounded /\ [LoggerNext]_loggerVars => RepeatInv' /\ MemoriesBounded'
<1> SUFFICES ASSUME RepeatInv, MemoriesBounded, [LoggerNext]_loggerVars
             PROVE  RepeatInv' /\ MemoriesBounded'
    OBVIOUS
<1>1. ASSUME NEW t \in Threads, NEW m \in Memories, NEW k \in Keys, Look(t, m, k)
      PROVE  RepeatInv' /\ MemoriesBounded'
    BY <1>1, RepeatLook
<1>2. ASSUME NEW t \in Threads, RememberTime(t) \/ RememberOnce(t) \/ RememberSkipped(t)
      PROVE  RepeatInv' /\ MemoriesBounded'
    BY <1>2, RepeatTime, RepeatOnce, RepeatSkipped
<1>u. ASSUME UNCHANGED <<calls, shared, pc, key, seen, logged, uttered, forgot, raced, again>>,
             time' \in 0..MaxTime
      PROVE  RepeatInv' /\ MemoriesBounded'
    <2>1. UNCHANGED <<throttled, last, once, done>>
        BY <1>u DEF shared
    <2> QED BY <1>u, <2>1 DEF RepeatInv, LoggerTypeOK, MemoriesBounded, Repeating, Fresh
<1>3. CASE Tick
    <2>1. time' \in 0..MaxTime
        BY <1>3, LoggerAssumption DEF Tick, RepeatInv, LoggerTypeOK
    <2> QED BY <1>3, <1>u, <2>1 DEF Tick
<1>4. CASE UNCHANGED loggerVars
    <2>1. time' \in 0..MaxTime
        BY <1>4 DEF loggerVars, RepeatInv, LoggerTypeOK
    <2> QED BY <1>4, <1>u, <2>1 DEF loggerVars, shared
<1> QED BY <1>1, <1>2, <1>3, <1>4 DEF LoggerNext

\* RepeatsExplained (property of the run node): a throttled text is logged once a
\* period and one for *_once once, unless threads looked at a time or its key had
\* to go (_should_log_throttle, the *_once methods).
THEOREM RepeatsExplainedHolds == LoggerSpec => []RepeatsExplained
<1>1. RepeatInv => RepeatsExplained
    BY DEF RepeatInv, RepeatsExplained
<1> QED BY <1>1, RepeatInitially, RepeatStep, PTL DEF LoggerSpec

\* No memory of the class grows beyond _LOGGER_STATE_MAX keys (_prune_mapping,
\* _add_bounded), whatever the threads do between the two halves of a call.
THEOREM LoggerMemoriesBounded == LoggerSpec => []MemoriesBounded
<1> QED BY RepeatInitially, RepeatStep, PTL DEF LoggerSpec
-----------------------------------------------------------------------------
(* Messages, for any fields, kinds and values.                               *)

\* What a field reads as, given its C++ value and its attribute.
Reads(f, stored, entry) ==
    IF IsProperty(f) THEN stored
    ELSE IF entry.of = "plain" \/ (entry.of = "proxy" /\ kinds[f] # "message") THEN entry.value
    ELSE stored

\* What the program wrote last is what the field reads as; the C++ memory of a
\* buffer is never shadowed by a proxy.
WrittenInv ==
    /\ MessagesTypeOK
    /\ \A f \in Fields : shadow[f].of = "proxy" => kinds[f] # "buffer"
    /\ SentAsWritten

LEMMA ReadIsReads == \A f : Read(f) = Reads(f, native[f], shadow[f])
<1> QED BY DEF Read, Held, HoldsValue, Reads

\* An attribute is one of a few kinds.
LEMMA ShadowKinds ==
    ASSUME NEW entry \in Shadows
    PROVE  /\ entry.of \in {"plain", "proxy", "none", "view"}
           /\ entry.of = "plain" => entry.value \in FieldValues \cup Refused
           /\ entry.of = "proxy" => entry.value \in FieldValues
<1> QED BY DEF Shadows, NoShadow, View

\* Exposing a field leaves what it reads as.
LEMMA Exposed ==
    ASSUME NEW f \in Fields, NEW stored \in FieldValues, NEW entry \in Shadows,
           entry.of = "proxy" => kinds[f] # "buffer"
    PROVE  /\ Expose(f, stored, entry) \in Shadows
           /\ Expose(f, stored, entry).of = "proxy" => kinds[f] # "buffer"
           /\ Reads(f, stored, Expose(f, stored, entry)) = Reads(f, stored, entry)
           /\ IsProperty(f) \/ entry.of = "plain" => Expose(f, stored, entry) = entry
<1>0. /\ View \in Shadows /\ \A v \in FieldValues : Proxy(v) \in Shadows
      /\ View.of = "view" /\ \A v : Proxy(v).of = "proxy" /\ Proxy(v).value = v
    BY DEF View, Proxy, Shadows
<1>1. /\ entry.of \in {"plain", "proxy", "none", "view"}
      /\ entry.of = "proxy" => entry.value \in FieldValues
    BY ShadowKinds
<1>2. CASE IsProperty(f) \/ entry.of \in {"plain", "view"}
    <2>1. Expose(f, stored, entry) = entry
        BY <1>2 DEF Expose
    <2> QED BY <2>1
<1>3. CASE ~(IsProperty(f) \/ entry.of \in {"plain", "view"}) /\ kinds[f] = "buffer"
    <2>1. Expose(f, stored, entry) = View
        BY <1>3 DEF Expose
    <2>2. entry.of = "none"
        BY <1>1, <1>3
    <2> QED BY <1>0, <1>3, <2>1, <2>2 DEF Reads
<1>4. CASE ~(IsProperty(f) \/ entry.of \in {"plain", "view"}) /\ kinds[f] # "buffer"
    <2> DEFINE v == IF entry.of = "proxy" THEN entry.value ELSE stored
    <2>1. Expose(f, stored, entry) = Proxy(v) /\ v \in FieldValues
        BY <1>1, <1>4 DEF Expose
    <2>2. Reads(f, stored, entry) = IF kinds[f] # "message" THEN v ELSE stored
        BY <1>1, <1>4 DEF Reads
    <2> HIDE DEF v
    <2>3. Reads(f, stored, Proxy(v)) = IF kinds[f] # "message" THEN v ELSE stored
        BY <1>0, <1>4 DEF Reads
    <2> QED BY <1>0, <1>4, <2>1, <2>2, <2>3
<1> QED BY <1>2, <1>3, <1>4

LEMMA WrittenInitially == MessagesInit => WrittenInv
<1> SUFFICES ASSUME MessagesInit PROVE WrittenInv
    OBVIOUS
<1>1. NoShadow \in Shadows /\ NoShadow.of = "none" /\ Default \in FieldValues
    BY MessagesAssumption DEF NoShadow, Shadows
<1>2. /\ kinds \in FieldKinds /\ classPatched \in BOOLEAN /\ tf = FALSE
      /\ native = [f \in Fields |-> Default] /\ shadow = [f \in Fields |-> NoShadow]
      /\ meant = native /\ givenUp = {} /\ sent = Nothing
    BY DEF MessagesInit
<1>3. MessagesTypeOK
    BY <1>1, <1>2 DEF MessagesTypeOK
<1>4. ASSUME NEW f \in Fields PROVE Read(f) = meant[f]
    BY <1>1, <1>2, <1>4 DEF Read, Held, HoldsValue
<1>5. \A f \in Fields : shadow[f].of = "proxy" => kinds[f] # "buffer"
    BY <1>1, <1>2
<1>6. SentAsWritten
    BY <1>2, <1>4 DEF SentAsWritten
<1> QED BY <1>3, <1>5, <1>6 DEF WrittenInv

\* A write, to the C++ message or to the attribute, that the field then reads as.
LEMMA WritingOne ==
    ASSUME WrittenInv, NEW f \in Fields, NEW v \in FieldValues \cup Refused,
           Wrote(f, v),
           native' \in [Fields -> FieldValues], shadow' \in [Fields -> Shadows],
           \A g \in Fields : g # f => native'[g] = native[g] /\ shadow'[g] = shadow[g],
           Reads(f, native'[f], shadow'[f]) = v,
           shadow'[f].of = "proxy" => kinds[f] # "buffer"
    PROVE  WrittenInv'
<1>1. /\ meant' = [meant EXCEPT ![f] = v] /\ givenUp' = givenUp \ {f} /\ sent' = Nothing
      /\ kinds' = kinds /\ classPatched' = classPatched /\ tf' = tf
    BY DEF Wrote, classVars
<1>2. /\ meant \in [Fields -> FieldValues \cup Refused]
      /\ \A g \in Fields : shadow[g].of = "proxy" => kinds[g] # "buffer"
    BY DEF WrittenInv, MessagesTypeOK
<1>3. MessagesTypeOK'
    BY <1>1, <1>2 DEF WrittenInv, MessagesTypeOK
<1>4. \A g \in Fields : shadow'[g].of = "proxy" => kinds'[g] # "buffer"
    BY <1>1, <1>2
<1>5. ASSUME NEW g \in Fields, g \notin givenUp' PROVE Read(g)' = meant'[g]
    <2>1. Read(g)' = Reads(g, native'[g], shadow'[g])
        BY <1>1 DEF Read, Held, HoldsValue, Reads, IsProperty
    <2>2. CASE g = f
        BY <1>1, <1>2, <2>1, <2>2
    <2>3. CASE g # f
        <3>1. Read(g) = meant[g] /\ meant'[g] = meant[g]
            BY <1>1, <1>2, <1>5, <2>3 DEF WrittenInv, SentAsWritten
        <3>2. Read(g)' = Read(g)
            BY <2>1, <2>3, ReadIsReads
        <3> QED BY <3>1, <3>2
    <2> QED BY <2>2, <2>3
<1>6. SentAsWritten'
    BY <1>1, <1>5 DEF SentAsWritten
<1> QED BY <1>3, <1>4, <1>6 DEF WrittenInv

LEMMA WritingNative ==
    ASSUME WrittenInv, NEW f \in Fields, NEW v \in FieldValues, ToNative(f, v),
           IsProperty(f) \/ ~HoldsValue(f)
    PROVE  WrittenInv'
<1>1. /\ native \in [Fields -> FieldValues] /\ shadow \in [Fields -> Shadows]
      /\ shadow[f].of = "proxy" => kinds[f] # "buffer"
    BY DEF WrittenInv, MessagesTypeOK
<1>2. native' = [native EXCEPT ![f] = v] /\ shadow' = shadow /\ Wrote(f, v)
    BY DEF ToNative
<1>3. /\ native' \in [Fields -> FieldValues] /\ native'[f] = v
      /\ \A g \in Fields : g # f => native'[g] = native[g]
    BY <1>1, <1>2
<1>4. Reads(f, native'[f], shadow'[f]) = v
    BY <1>2, <1>3 DEF Reads, HoldsValue
<1> QED BY <1>1, <1>2, <1>3, <1>4, WritingOne

LEMMA WritingShadow ==
    ASSUME WrittenInv, NEW f \in Fields, NEW v \in FieldValues \cup Refused, ToShadow(f, v),
           ~IsProperty(f)
    PROVE  WrittenInv'
<1>1. native \in [Fields -> FieldValues] /\ shadow \in [Fields -> Shadows]
    BY DEF WrittenInv, MessagesTypeOK
<1>2. shadow' = [shadow EXCEPT ![f] = Own(v)] /\ native' = native /\ Wrote(f, v)
    BY DEF ToShadow
<1>3. Own(v) \in Shadows /\ Own(v).of = "plain" /\ Own(v).value = v
    BY DEF Own, Shadows
<1>4. /\ shadow' \in [Fields -> Shadows] /\ shadow'[f] = Own(v)
      /\ \A g \in Fields : g # f => shadow'[g] = shadow[g]
    BY <1>1, <1>2, <1>3
<1>5. Reads(f, native'[f], shadow'[f]) = v
    BY <1>3, <1>4 DEF Reads
<1> QED BY <1>1, <1>2, <1>3, <1>4, <1>5, WritingOne

\* What the fields are and read as before any step.
LEMMA FieldsBefore ==
    ASSUME WrittenInv, NEW f \in Fields
    PROVE  /\ native[f] \in FieldValues /\ shadow[f] \in Shadows /\ meant[f] \in FieldValues \cup Refused
           /\ shadow[f].of = "proxy" => kinds[f] # "buffer"
           /\ Held(f) \in FieldValues \cup Refused /\ GetValue(f) \in FieldValues \cup Refused
           /\ f \notin givenUp => Read(f) = meant[f] /\ Reads(f, native[f], shadow[f]) = meant[f]
<1>1. /\ native[f] \in FieldValues /\ shadow[f] \in Shadows /\ meant[f] \in FieldValues \cup Refused
      /\ shadow[f].of = "proxy" => kinds[f] # "buffer"
    BY DEF WrittenInv, MessagesTypeOK
<1>2. Held(f) \in FieldValues \cup Refused /\ GetValue(f) \in FieldValues \cup Refused
    BY <1>1, ShadowKinds DEF Held, HoldsValue, GetValue
<1>3. f \notin givenUp => Read(f) = meant[f]
    BY DEF WrittenInv, SentAsWritten
<1> QED BY <1>1, <1>2, <1>3, ReadIsReads

\* What the side channel gets of a field is what was written last, or the program's
\* attribute was overlooked.
SideMeant(side) ==
    \A f \in Fields : f \notin givenUp /\ side.of = f => side.value = meant[f] \/ side.overlooked

LEMMA SidesMeant ==
    ASSUME WrittenInv
    PROVE  /\ NoSide \in Sides /\ SideMeant(NoSide)
           /\ \A f \in Fields : kinds[f] = "buffer" => Side(f) \in Sides /\ SideMeant(Side(f))
<1>1. NoSide \in Sides /\ SideMeant(NoSide)
    BY MessagesAssumption DEF NoSide, Sides, SideMeant
<1>2. ASSUME NEW f \in Fields, kinds[f] = "buffer" PROVE Side(f) \in Sides /\ SideMeant(Side(f))
    <2>1. /\ native[f] \in FieldValues /\ shadow[f].of \in {"plain", "proxy", "none", "view"}
          /\ shadow[f].of # "proxy"
          /\ f \notin givenUp => Reads(f, native[f], shadow[f]) = meant[f]
        BY <1>2, FieldsBefore, ShadowKinds
    <2>2. Overlooked(f) \in BOOLEAN
        BY DEF Overlooked
    <2>3. Side(f) \in Sides
        BY <1>2, <2>1, <2>2 DEF Side, Sides, GetValue
    <2>4. f \notin givenUp => native[f] = meant[f] \/ Overlooked(f)
        BY <1>2, <2>1 DEF Reads, Overlooked
    <2>5. SideMeant(Side(f))
        BY <1>2, <2>4 DEF SideMeant, Side, GetValue
    <2> QED BY <2>3, <2>5
<1> QED BY <1>1, <1>2

\* Exposing all fields, with C++ values and attributes to begin with: each reads
\* as it did, and what was not given up reads as it was meant.
LEMMA Exposing ==
    ASSUME WrittenInv,
           NEW values \in [Fields -> FieldValues], NEW entries \in [Fields -> Shadows],
           \A f \in Fields : entries[f].of = "proxy" => kinds[f] # "buffer",
           native' = values, shadow' = ExposeAll(values, entries),
           UNCHANGED <<kinds, classPatched, tf>>,
           meant' \in [Fields -> FieldValues \cup Refused], givenUp' \subseteq Fields,
           sent' \in Payloads \cup {Nothing},
           \A f \in Fields : f \notin givenUp' => Reads(f, values[f], entries[f]) = meant'[f],
           sent' # Nothing =>
             \A f \in Fields : f \notin givenUp' =>
               \/ sent'.main[f] \in {meant'[f], Nothing} \/ meant'[f] \in Refused
               \/ IsProperty(f) /\ entries[f].of # "none"
               \/ kinds[f] = "buffer" /\ entries[f].of = "plain",
           sent' # Nothing =>
             \A f \in Fields : f \notin givenUp' /\ sent'.side.of = f =>
               sent'.side.value = meant'[f] \/ sent'.side.overlooked
    PROVE  WrittenInv'
<1>1. ASSUME NEW f \in Fields
      PROVE  /\ shadow'[f] \in Shadows
             /\ shadow'[f].of = "proxy" => kinds[f] # "buffer"
             /\ Reads(f, values[f], shadow'[f]) = Reads(f, values[f], entries[f])
             /\ IsProperty(f) \/ entries[f].of = "plain" => shadow'[f] = entries[f]
    <2>1. shadow'[f] = Expose(f, values[f], entries[f])
        BY DEF ExposeAll
    <2>2. values[f] \in FieldValues /\ entries[f] \in Shadows
        OBVIOUS
    <2> QED BY <2>1, <2>2, Exposed
<1>2. shadow' \in [Fields -> Shadows]
    <2>1. shadow' = [f \in Fields |-> shadow'[f]]
        BY DEF ExposeAll
    <2> QED BY <1>1, <2>1
<1>3. MessagesTypeOK'
    BY <1>2 DEF WrittenInv, MessagesTypeOK
<1>4. ASSUME NEW f \in Fields, f \notin givenUp' PROVE Read(f)' = meant'[f]
    <2>1. Read(f)' = Reads(f, native'[f], shadow'[f])
        BY DEF Read, Held, HoldsValue, Reads, IsProperty
    <2> QED BY <1>1, <1>4, <2>1
<1>5. ASSUME NEW f \in Fields, f \notin givenUp', sent' # Nothing
      PROVE  \/ sent'.main[f] \in {meant'[f], Nothing} \/ meant'[f] \in Refused
             \/ Hidden(f)' \/ Overlooked(f)'
    BY <1>1, <1>5 DEF Hidden, Overlooked, IsProperty
<1>6. SentAsWritten'
    BY <1>4, <1>5 DEF SentAsWritten
<1> QED BY <1>1, <1>3, <1>6 DEF WrittenInv

\* A publish that writes the message itself.
LEMMA WritingRegular ==
    ASSUME WrittenInv, NEW side \in Sides, SideMeant(side), WriteRegular(side)
    PROVE  WrittenInv'
<1>1. /\ native' = Applied /\ shadow' = ExposeAll(Applied, Remaining)
      /\ givenUp' = givenUp \cup Dropped /\ sent' = [main |-> Applied, side |-> side]
      /\ UNCHANGED <<kinds, classPatched, tf, meant>>
    BY DEF WriteRegular, classVars
<1>2. ASSUME NEW f \in Fields
      PROVE  /\ Applied[f] = IF Materialized(f) /\ Held(f) \in FieldValues THEN Held(f) ELSE native[f]
             /\ Remaining[f] = IF Materialized(f) THEN NoShadow ELSE shadow[f]
    BY DEF Applied, Remaining
<1>3. NoShadow \in Shadows /\ NoShadow.of = "none"
    BY DEF NoShadow, Shadows
<1>4. ASSUME NEW f \in Fields
      PROVE  /\ Applied[f] \in FieldValues /\ Remaining[f] \in Shadows
             /\ Remaining[f].of = "proxy" => kinds[f] # "buffer"
    BY <1>2, <1>3, FieldsBefore
<1>5. Applied \in [Fields -> FieldValues] /\ Remaining \in [Fields -> Shadows]
    <2>1. Applied = [f \in Fields |-> Applied[f]] /\ Remaining = [f \in Fields |-> Remaining[f]]
        BY DEF Applied, Remaining
    <2> QED BY <1>4, <2>1
<1>6. ASSUME NEW f \in Fields, f \notin givenUp'
      PROVE  Reads(f, Applied[f], Remaining[f]) = meant'[f] /\ Applied[f] = meant'[f]
    <2>1. Reads(f, native[f], shadow[f]) = meant[f] /\ meant'[f] = meant[f] /\ f \notin Dropped
        BY <1>1, <1>6, FieldsBefore
    <2>2. CASE Materialized(f)
        <3>1. Held(f) \in FieldValues
            BY <2>1, <2>2, FieldsBefore DEF Dropped
        <3>2. Applied[f] = Held(f) /\ Remaining[f] = NoShadow
            BY <1>2, <2>2, <3>1
        <3>3. Held(f) = meant[f]
            BY <2>1, <2>2 DEF Reads, Held, HoldsValue, Materialized
        <3> QED BY <1>3, <2>1, <3>2, <3>3 DEF Reads
    <2>3. CASE ~Materialized(f)
        <3>1. Applied[f] = native[f] /\ Remaining[f] = shadow[f]
            BY <1>2, <2>3
        <3>2. native[f] = meant[f]
            BY <2>1, <2>3 DEF Reads, Materialized
        <3> QED BY <2>1, <3>1, <3>2
    <2> QED BY <2>2, <2>3
<1>7. /\ meant' \in [Fields -> FieldValues \cup Refused] /\ givenUp' \subseteq Fields
      /\ sent' \in Payloads
    <2>1. Applied \in [Fields -> FieldValues \cup {Nothing}]
        BY <1>5
    <2> QED BY <1>1, <2>1 DEF WrittenInv, MessagesTypeOK, Payloads, Dropped
<1>8. sent'.main = Applied
    BY <1>1
<1>9. \A f \in Fields : f \notin givenUp' /\ sent'.side.of = f =>
         sent'.side.value = meant'[f] \/ sent'.side.overlooked
    BY <1>1 DEF SideMeant
<1> HIDE DEF Applied, Remaining
<1> QED BY <1>1, <1>4, <1>5, <1>6, <1>7, <1>8, <1>9, Exposing

\* A publish that writes a copy.
LEMMA WritingCopy ==
    ASSUME WrittenInv, NEW copy \in [Fields -> FieldValues \cup {Nothing}],
           \A f \in Fields : copy[f] \in {CopyMessageInto[f], Nothing},
           NEW side \in Sides, SideMeant(side), WriteCopy(copy, side)
    PROVE  WrittenInv'
<1>1. /\ shadow' = ExposeAll(native, shadow) /\ sent' = [main |-> copy, side |-> side]
      /\ UNCHANGED <<kinds, classPatched, tf, native, meant, givenUp>>
    BY DEF WriteCopy, classVars
<1>2. /\ native \in [Fields -> FieldValues] /\ shadow \in [Fields -> Shadows]
      /\ meant' \in [Fields -> FieldValues \cup Refused] /\ givenUp' \subseteq Fields
      /\ \A f \in Fields : shadow[f].of = "proxy" => kinds[f] # "buffer"
    BY <1>1 DEF WrittenInv, MessagesTypeOK
<1>3. sent' \in Payloads /\ sent'.main = copy
    BY <1>1 DEF Payloads
<1>4. ASSUME NEW f \in Fields, f \notin givenUp'
      PROVE  /\ Reads(f, native[f], shadow[f]) = meant'[f]
             /\ \/ sent'.main[f] \in {meant'[f], Nothing} \/ meant'[f] \in Refused
                \/ IsProperty(f) /\ shadow[f].of # "none"
                \/ kinds[f] = "buffer" /\ shadow[f].of = "plain"
    <2>1. /\ Reads(f, native[f], shadow[f]) = meant[f] /\ meant'[f] = meant[f]
          /\ native[f] \in FieldValues /\ shadow[f].of \in {"plain", "proxy", "none", "view"}
          /\ shadow[f].of = "proxy" => kinds[f] # "buffer"
          /\ meant[f] \in FieldValues \cup Refused
        BY <1>1, <1>4, FieldsBefore, ShadowKinds
    <2>2. copy[f] \in {CopyMessageInto[f], Nothing}
          /\ CopyMessageInto[f] = IF GetValue(f) \in FieldValues THEN GetValue(f) ELSE Default
        BY DEF CopyMessageInto
    <2>3. CASE GetValue(f) = meant[f]
        BY <1>3, <2>1, <2>2, <2>3
    <2>4. CASE GetValue(f) # meant[f]
        BY <2>1, <2>4 DEF GetValue, Held, HoldsValue, Reads
    <2> QED BY <2>1, <2>3, <2>4
<1>5. \A f \in Fields : f \notin givenUp' /\ sent'.side.of = f =>
         sent'.side.value = meant'[f] \/ sent'.side.overlooked
    BY <1>1 DEF SideMeant
<1> QED BY <1>1, <1>2, <1>3, <1>4, <1>5, Exposing

LEMMA WrittenStep == WrittenInv /\ [MessagesNext]_messageVars => WrittenInv'
<1> SUFFICES ASSUME WrittenInv, [MessagesNext]_messageVars PROVE WrittenInv'
    OBVIOUS
<1>t. /\ native \in [Fields -> FieldValues] /\ shadow \in [Fields -> Shadows]
      /\ meant \in [Fields -> FieldValues \cup Refused] /\ givenUp \subseteq Fields
      /\ kinds \in FieldKinds /\ classPatched \in BOOLEAN /\ tf \in BOOLEAN
      /\ sent \in Payloads \cup {Nothing}
      /\ \A f \in Fields : shadow[f].of = "proxy" => kinds[f] # "buffer"
    BY DEF WrittenInv, MessagesTypeOK
<1>n. NoShadow \in Shadows /\ NoShadow.of = "none"
    BY DEF NoShadow, Shadows
<1>1. ASSUME NEW f \in Fields, NEW v \in FieldValues \cup Refused, SetAttr(f, v) PROVE WrittenInv'
    <2>1. CASE IsProperty(f)
        BY <1>1, <2>1, WritingNative DEF SetAttr
    <2>2. CASE ~IsProperty(f) /\ classPatched /\ shadow[f].of = "none" /\ v \in FieldValues
        <3>1. ~HoldsValue(f)
            BY <2>2 DEF HoldsValue
        <3> QED BY <1>1, <2>2, <3>1, WritingNative DEF SetAttr
    <2>3. CASE ~IsProperty(f) /\ ~(classPatched /\ shadow[f].of = "none" /\ v \in FieldValues)
        BY <1>1, <2>3, WritingShadow DEF SetAttr
    <2> QED BY <2>1, <2>2, <2>3
<1>2. ASSUME NEW f \in Fields, NEW v \in FieldValues, CallSetter(f, v) PROVE WrittenInv'
    <2>1. ~HoldsValue(f)
        BY <1>2 DEF CallSetter, HoldsValue
    <2> QED BY <1>2, <2>1, WritingNative DEF CallSetter
<1>3. ASSUME NEW f \in Fields, NEW v \in FieldValues, InPlace(f, v) PROVE WrittenInv'
    <2>1. CASE ~IsProperty(f) /\ HoldsValue(f)
        <3>1. shadow' = [shadow EXCEPT ![f].value = v] /\ native' = native /\ Wrote(f, v)
            BY <1>3, <2>1 DEF InPlace
        <3>2. shadow[f] \in Shadows /\ shadow[f].of \in {"plain", "proxy"}
            BY <1>t, <2>1 DEF HoldsValue
        <3>3. shadow[f] = [of |-> shadow[f].of, value |-> shadow[f].value]
            BY <3>2 DEF Shadows, NoShadow, View
        <3> DEFINE e == [of |-> shadow[f].of, value |-> v]
        <3>4. [shadow[f] EXCEPT !.value = v] = e
            BY <3>3
        <3>5. e \in Shadows
            BY <3>2 DEF Shadows
        <3>6. e.of = shadow[f].of /\ e.value = v
            OBVIOUS
        <3>7. shadow' = [shadow EXCEPT ![f] = e]
            BY <3>1, <3>4
        <3> HIDE DEF e
        <3>8. /\ shadow' \in [Fields -> Shadows] /\ shadow'[f] = e
              /\ \A g \in Fields : g # f => shadow'[g] = shadow[g]
            BY <1>t, <3>5, <3>7
        <3>9. Reads(f, native'[f], shadow'[f]) = v
            BY <2>1, <3>6, <3>8 DEF Reads, HoldsValue
        <3>10. shadow'[f].of = "proxy" => kinds[f] # "buffer"
            BY <1>t, <3>6, <3>8
        <3> QED BY <1>t, <3>1, <3>8, <3>9, <3>10, WritingOne
    <2>2. CASE ~(~IsProperty(f) /\ HoldsValue(f))
        BY <1>3, <2>2, WritingNative DEF InPlace
    <2> QED BY <2>1, <2>2
<1>4. ASSUME NEW f \in Fields, NEW v \in FieldValues, WriteBuffer(f, v) PROVE WrittenInv'
    <2>1. CASE ~HoldsValue(f)
        <3>1. ToNative(f, v)
            BY <1>4, <2>1 DEF WriteBuffer, ToNative, Wrote
        <3> QED BY <2>1, <3>1, WritingNative
    <2>2. CASE HoldsValue(f)
        <3>1. /\ native' = [native EXCEPT ![f] = v] /\ meant' = [meant EXCEPT ![f] = v]
              /\ givenUp' = givenUp \cup {f} /\ sent' = Nothing
              /\ UNCHANGED <<kinds, classPatched, tf, shadow>>
            BY <1>4, <2>2 DEF WriteBuffer, classVars
        <3>2. MessagesTypeOK'
            BY <1>t, <3>1 DEF MessagesTypeOK
        <3>3. ASSUME NEW g \in Fields, g \notin givenUp' PROVE Read(g)' = meant'[g]
            <4>1. g # f /\ g \notin givenUp
                BY <3>1, <3>3
            <4>2. Read(g)' = Reads(g, native'[g], shadow'[g])
                BY <3>1 DEF Read, Held, HoldsValue, Reads, IsProperty
            <4>3. native'[g] = native[g] /\ shadow'[g] = shadow[g] /\ meant'[g] = meant[g]
                BY <1>t, <3>1, <4>1
            <4> QED BY <4>1, <4>2, <4>3, FieldsBefore
        <3>4. SentAsWritten'
            BY <3>1, <3>3 DEF SentAsWritten
        <3> QED BY <1>t, <3>1, <3>2, <3>4 DEF WrittenInv
    <2> QED BY <2>1, <2>2
<1>5. ASSUME NEW f \in Fields, NEW v \in FieldValues, Assign(f, v) PROVE WrittenInv'
    <2>1. CASE shadow[f].of = "none"
        <3>1. ~HoldsValue(f)
            BY <2>1 DEF HoldsValue
        <3> QED BY <1>5, <2>1, <3>1, WritingNative DEF Assign
    <2>2. CASE shadow[f].of # "none"
        <3>1. ~IsProperty(f)
            BY <1>5, <1>t, MessagesAssumption DEF Assign, IsProperty
        <3> QED BY <1>5, <2>2, <3>1, WritingShadow DEF Assign
    <2> QED BY <2>1, <2>2
<1>c. ASSUME NEW f \in Fields
      PROVE  CopyMessageInto[f] \in FieldValues
    BY MessagesAssumption DEF CopyMessageInto
<1>d. /\ CopyMessageInto \in [Fields -> FieldValues]
      /\ CopyMessageInto \in [Fields -> FieldValues \cup {Nothing}]
    <2>1. CopyMessageInto = [f \in Fields |-> CopyMessageInto[f]]
        BY DEF CopyMessageInto
    <2> QED BY <1>c, <2>1
<1>6. CASE PublishRegular
    BY <1>6, SidesMeant, WritingRegular DEF PublishRegular
<1>7. CASE PublishLoaned
    BY <1>7, <1>d, SidesMeant, WritingCopy DEF PublishLoaned
<1>8. ASSUME NEW f \in Fields, PublishSharedMemory(f) PROVE WrittenInv'
    <2>1. Side(f) \in Sides /\ SideMeant(Side(f))
        BY <1>8, SidesMeant DEF PublishSharedMemory
    <2>2. CASE WriteRegular(Side(f))
        BY <2>1, <2>2, WritingRegular
    <2>3. CASE WriteCopy([CopyMessageInto EXCEPT ![f] = Nothing], Side(f))
        <3> DEFINE copy == [CopyMessageInto EXCEPT ![f] = Nothing]
        <3>1. /\ copy \in [Fields -> FieldValues \cup {Nothing}]
              /\ \A g \in Fields : copy[g] \in {CopyMessageInto[g], Nothing}
            BY <1>d
        <3>2. WriteCopy(copy, Side(f))
            BY <2>3
        <3> HIDE DEF copy
        <3> QED BY <2>1, <3>1, <3>2, WritingCopy
    <2> QED BY <1>8, <2>2, <2>3 DEF PublishSharedMemory
<1>9. CASE Receive
    <2> DEFINE got == sent.main
               none == [f \in Fields |-> NoShadow]
    <2>1. /\ sent \in Payloads /\ \A f \in Fields : got[f] # Nothing
          /\ native' = got /\ meant' = got /\ givenUp' = {} /\ sent' = Nothing
          /\ shadow' = ExposeAll(got, none) /\ UNCHANGED <<kinds, classPatched, tf>>
        BY <1>9, <1>t DEF Receive, classVars
    <2>2. got \in [Fields -> FieldValues \cup {Nothing}]
        BY <2>1 DEF Payloads
    <2>3. got \in [Fields -> FieldValues] /\ got \in [Fields -> FieldValues \cup Refused]
        BY <2>1, <2>2
    <2>4. none \in [Fields -> Shadows] /\ \A f \in Fields : none[f] = NoShadow
        BY <1>n
    <2> HIDE DEF got, none
    <2>5. \A f \in Fields : Reads(f, got[f], none[f]) = meant'[f]
        BY <1>n, <2>1, <2>4 DEF Reads
    <2>6. sent' \in Payloads \cup {Nothing}
        BY <2>1
    <2> QED BY <1>n, <2>1, <2>3, <2>4, <2>5, <2>6, Exposing
<1>10. CASE PatchMessageClass
    <2>1. /\ classPatched' = TRUE /\ sent' = Nothing
          /\ UNCHANGED <<kinds, tf, native, shadow, meant, givenUp>>
        BY <1>10 DEF PatchMessageClass
    <2>2. MessagesTypeOK'
        BY <1>t, <2>1 DEF MessagesTypeOK
    <2>3. \A f \in Fields : Read(f)' = Read(f)
        BY <2>1 DEF Read, Held, HoldsValue, IsProperty
    <2>4. SentAsWritten'
        BY <2>1, <2>3 DEF WrittenInv, SentAsWritten
    <2> QED BY <1>t, <2>1, <2>2, <2>4 DEF WrittenInv
<1>11. CASE PatchTf
    <2>1. /\ ~tf /\ tf' = TRUE /\ sent' = Nothing
          /\ givenUp' = givenUp \cup {f \in TfFields : HoldsValue(f) /\ shadow[f].value # native[f]}
          /\ UNCHANGED <<kinds, classPatched, native, shadow, meant>>
        BY <1>11 DEF PatchTf
    <2>2. MessagesTypeOK'
        BY <1>t, <2>1, MessagesAssumption DEF MessagesTypeOK
    <2>3. ASSUME NEW f \in Fields, f \notin givenUp' PROVE Read(f)' = meant'[f]
        <3>1. Read(f) = meant[f] /\ meant'[f] = meant[f] /\ Read(f) = Held(f)
            BY <2>1, <2>3, FieldsBefore DEF Read, IsProperty
        <3>2. f \in TfFields => ~HoldsValue(f) \/ shadow[f].value = native[f]
            BY <2>1, <2>3
        <3>3. f \in TfFields => Held(f) = native[f] /\ Read(f)' = native[f]
            BY <2>1, <3>2 DEF Held, Read, IsProperty
        <3>4. f \notin TfFields => Read(f)' = Held(f)
            BY <2>1 DEF Read, Held, HoldsValue, IsProperty
        <3> QED BY <3>1, <3>3, <3>4
    <2>4. SentAsWritten'
        BY <2>1, <2>3 DEF SentAsWritten
    <2> QED BY <1>t, <2>1, <2>2, <2>4 DEF WrittenInv
<1>12. CASE UNCHANGED messageVars
    <2>1. UNCHANGED <<kinds, classPatched, tf, native, shadow, meant, givenUp, sent>>
        BY <1>12 DEF messageVars
    <2>2. MessagesTypeOK'
        BY <1>t, <2>1 DEF MessagesTypeOK
    <2>3. \A f \in Fields : Read(f)' = Read(f) /\ (Hidden(f)' <=> Hidden(f)) /\ (Overlooked(f)' <=> Overlooked(f))
        BY <2>1 DEF Read, Held, HoldsValue, IsProperty, Hidden, Overlooked
    <2>4. SentAsWritten'
        BY <2>1, <2>3 DEF WrittenInv, SentAsWritten
    <2> QED BY <1>t, <2>1, <2>2, <2>4 DEF WrittenInv
<1> QED BY <1>1, <1>2, <1>3, <1>4, <1>5, <1>6, <1>7, <1>8, <1>9, <1>10, <1>11, <1>12 DEF MessagesNext

\* SentAsWritten (property of the run node): whatever way a field is written, and
\* however often the object is published, the program reads what it wrote last
\* and the topic and the side channel get it, but for the attributes _get_value
\* overlooks (expose_callable_fields, _materialize_shadow_attributes, _get_value),
\* for any number of fields of any kind.
THEOREM SentAsWrittenHolds == MessagesSpec => []SentAsWritten
<1>1. WrittenInv => SentAsWritten
    BY DEF WrittenInv
<1> QED BY <1>1, WrittenInitially, WrittenStep, PTL DEF MessagesSpec
-----------------------------------------------------------------------------
(* Profiles, for any durations, seconds, types and hosts.                    *)

LEMMA DivMod ==
    ASSUME NEW d \in Nat, NEW p \in Nat \ {0}
    PROVE  d = p * (d \div p) + (d % p) /\ d % p \in Nat /\ d % p < p /\ d \div p \in Nat
<1> QED OBVIOUS

LEMMA Multiples ==
    ASSUME NEW a \in Nat, NEW b \in Nat, NEW p \in Nat
    PROVE  /\ p * a \in Nat /\ p * b \in Nat /\ b * p = p * b
           /\ a < b => p * a + p <= p * b
           /\ a <= b => p * a <= p * b
<1>1. p * a \in Nat /\ p * b \in Nat /\ b * p = p * b
    OBVIOUS
<1>2. a <= b => p * a <= p * b
    OBVIOUS
<1>3. ASSUME a < b PROVE p * a + p <= p * b
    <2>1. a + 1 <= b
        BY <1>3
    <2>2. p * (a + 1) <= p * b
        BY <2>1
    <2>3. p * (a + 1) = p * a + p
        OBVIOUS
    <2> QED BY <2>2, <2>3
<1> QED BY <1>1, <1>2, <1>3

\* A duration becomes infinity or its seconds and the rest, whatever its length.
LEMMA DurationApplied ==
    ASSUME NEW d \in Durations \cup {NoDuration}
    PROVE  \/ ApplyDuration(d) = Infinity /\ Length(d) = PerSecond * MaxSecond
           \/ \E q, r \in Nat :
                /\ ApplyDuration(d) = [sec |-> q, nanosec |-> r]
                /\ q < MaxSecond /\ r < PerSecond
                /\ Length(d) = PerSecond * q + r /\ Length(d) < PerSecond * MaxSecond
<1>0. /\ PerSecond \in Nat \ {0} /\ MaxSecond \in Nat \ {0} /\ Durations \subseteq Nat
      /\ NoDuration \notin Durations
    BY ProfilesAssumption
<1>1. Forever = PerSecond * MaxSecond
    BY <1>0, Multiples DEF Forever
<1>2. CASE d = NoDuration
    BY <1>1, <1>2 DEF ApplyDuration, Length
<1>3. CASE d # NoDuration
    <2> DEFINE q == d \div PerSecond
               r == d % PerSecond
    <2>1. d \in Nat /\ d = PerSecond * q + r /\ q \in Nat /\ r \in Nat /\ r < PerSecond
        BY <1>0, <1>3, DivMod
    <2>2. CASE q >= MaxSecond
        <3>1. ApplyDuration(d) = Infinity
            BY <1>3, <2>2 DEF ApplyDuration
        <3>2. PerSecond * MaxSecond <= PerSecond * q
            BY <1>0, <2>1, <2>2, Multiples
        <3>3. d >= Forever
            <4> HIDE DEF q, r
            <4>1. PerSecond * MaxSecond \in Nat /\ PerSecond * q \in Nat
                BY <1>0, <2>1, Multiples
            <4> QED BY <1>1, <2>1, <3>2, <4>1
        <3> QED BY <1>1, <1>3, <3>1, <3>3 DEF Length
    <2>3. CASE ~(q >= MaxSecond)
        <3>1. ApplyDuration(d) = [sec |-> q, nanosec |-> r]
            BY <1>3, <2>3 DEF ApplyDuration
        <3> HIDE DEF q, r
        <3>2. q < MaxSecond
            BY <1>0, <2>1, <2>3
        <3>3. PerSecond * q + PerSecond <= PerSecond * MaxSecond
            BY <1>0, <2>1, <3>2, Multiples
        <3>4. PerSecond * MaxSecond \in Nat /\ PerSecond * q \in Nat
            BY <1>0, <2>1, Multiples
        <3>5. d < Forever
            BY <1>0, <1>1, <2>1, <3>3, <3>4
        <3>6. Length(d) = d
            BY <1>0, <1>1, <1>3, <2>1, <3>4, <3>5 DEF Length
        <3> QED BY <1>1, <2>1, <3>1, <3>2, <3>5, <3>6
    <2> QED BY <2>2, <2>3
<1> QED BY <1>2, <1>3

\* Durations applied compare as the durations do.
LEMMA DurationsCompare ==
    ASSUME NEW a \in Durations \cup {NoDuration}, NEW b \in Durations \cup {NoDuration}
    PROVE  NoLonger(ApplyDuration(a), ApplyDuration(b)) <=> Length(a) <= Length(b)
<1> DEFINE ever == PerSecond * MaxSecond
           Long(d) == ApplyDuration(d) = Infinity /\ Length(d) = ever
           Short(d, q, r) == /\ ApplyDuration(d) = [sec |-> q, nanosec |-> r]
                             /\ q < MaxSecond /\ r < PerSecond
                             /\ Length(d) = PerSecond * q + r /\ Length(d) < ever
<1>0. PerSecond \in Nat \ {0} /\ MaxSecond \in Nat \ {0} /\ ever \in Nat
    BY ProfilesAssumption, Multiples
<1>1. Long(a) \/ \E q, r \in Nat : Short(a, q, r)
    BY DurationApplied
<1>2. Long(b) \/ \E q, r \in Nat : Short(b, q, r)
    BY DurationApplied
<1>3. Infinity.sec = MaxSecond /\ Infinity.nanosec = PerSecond
    BY DEF Infinity
<1> HIDE DEF ever
<1>4. CASE Long(a) /\ Long(b)
    BY <1>0, <1>3, <1>4 DEF NoLonger
<1>5. ASSUME Long(a), NEW q \in Nat, NEW r \in Nat, Short(b, q, r)
      PROVE  NoLonger(ApplyDuration(a), ApplyDuration(b)) <=> Length(a) <= Length(b)
    <2>1. PerSecond * q \in Nat
        BY <1>0, Multiples
    <2>2. ~NoLonger(ApplyDuration(a), ApplyDuration(b))
        BY <1>0, <1>3, <1>5 DEF NoLonger
    <2>3. Length(b) \in Nat /\ Length(b) < Length(a) /\ Length(a) \in Nat
        BY <1>0, <1>5, <2>1
    <2> QED BY <2>2, <2>3
<1>6. ASSUME Long(b), NEW q \in Nat, NEW r \in Nat, Short(a, q, r)
      PROVE  NoLonger(ApplyDuration(a), ApplyDuration(b)) <=> Length(a) <= Length(b)
    <2>1. PerSecond * q \in Nat
        BY <1>0, Multiples
    <2>2. NoLonger(ApplyDuration(a), ApplyDuration(b))
        BY <1>0, <1>3, <1>6 DEF NoLonger
    <2>3. Length(a) \in Nat /\ Length(a) < Length(b) /\ Length(b) \in Nat
        BY <1>0, <1>6, <2>1
    <2> QED BY <2>2, <2>3
<1>7. ASSUME NEW q \in Nat, NEW r \in Nat, Short(a, q, r),
             NEW s \in Nat, NEW t \in Nat, Short(b, s, t)
      PROVE  NoLonger(ApplyDuration(a), ApplyDuration(b)) <=> Length(a) <= Length(b)
    <2>1. /\ PerSecond * q \in Nat /\ PerSecond * s \in Nat
          /\ q < s => PerSecond * q + PerSecond <= PerSecond * s
          /\ s < q => PerSecond * s + PerSecond <= PerSecond * q
        BY <1>0, Multiples
    <2>2. NoLonger(ApplyDuration(a), ApplyDuration(b)) <=> q < s \/ (q = s /\ r <= t)
        BY <1>7 DEF NoLonger
    <2>3. /\ Length(a) = PerSecond * q + r /\ Length(b) = PerSecond * s + t
          /\ r < PerSecond /\ t < PerSecond
        BY <1>7
    <2>4. CASE q < s
        BY <1>0, <2>1, <2>2, <2>3, <2>4
    <2>5. CASE s < q
        BY <1>0, <2>1, <2>2, <2>3, <2>5
    <2>6. CASE q = s
        BY <1>0, <2>1, <2>2, <2>3, <2>6
    <2> QED BY <2>4, <2>5, <2>6
<1> HIDE DEF Long, Short
<1> QED BY <1>1, <1>2, <1>4, <1>5, <1>6, <1>7

\* A profile's durations are durations or None.
LEMMA ProfileDurations ==
    ASSUME NEW p \in Profiles
    PROVE  p.deadline \in Durations \cup {NoDuration} /\ p.lease \in Durations \cup {NoDuration}
<1>1. \A x \in Presets : x.deadline = NoDuration /\ x.lease = NoDuration
    <2>1. \A reliability, durability :
            /\ Profile(reliability, durability).deadline = NoDuration
            /\ Profile(reliability, durability).lease = NoDuration
        BY DEF Profile
    <2> QED BY <2>1 DEF Presets, SensorData, SystemDefault, ActionStatusDefault
<1>2. SystemDefault \in Presets
    BY DEF Presets
<1>3. CASE p \in Presets
    BY <1>1, <1>3
<1>4. ASSUME NEW x \in Presets, NEW l \in Livelinesses, p = [x EXCEPT !.liveliness = l]
      PROVE  p.deadline = NoDuration /\ p.lease = NoDuration
    BY <1>1, <1>4 DEF Presets, SensorData, SystemDefault, ActionStatusDefault, Profile
<1>5. ASSUME NEW d \in Durations, p = [SystemDefault EXCEPT !.deadline = d, !.lifespan = d]
      PROVE  p.deadline = d /\ p.lease = NoDuration
    BY <1>5 DEF SystemDefault, Profile
<1>6. ASSUME NEW d \in Durations, p = [SystemDefault EXCEPT !.liveliness = "by topic", !.lease = d]
      PROVE  p.deadline = NoDuration /\ p.lease = d
    BY <1>6 DEF SystemDefault, Profile
<1>7. \/ p \in Presets
      \/ \E x \in Presets, l \in Livelinesses : p = [x EXCEPT !.liveliness = l]
      \/ \E d \in Durations : p = [SystemDefault EXCEPT !.deadline = d, !.lifespan = d]
      \/ \E d \in Durations : p = [SystemDefault EXCEPT !.liveliness = "by topic", !.lease = d]
    <2>1. p \in Presets \/ p \in Lively \/ p \in Timely \/ p \in Leased
        BY DEF Profiles
    <2>2. p \in Lively => \E x \in Presets, l \in Livelinesses : p = [x EXCEPT !.liveliness = l]
        BY DEF Lively
    <2>3. p \in Timely => \E d \in Durations : p = [SystemDefault EXCEPT !.deadline = d, !.lifespan = d]
        BY DEF Timely
    <2>4. p \in Leased =>
            \E d \in Durations : p = [SystemDefault EXCEPT !.liveliness = "by topic", !.lease = d]
        BY DEF Leased
    <2> QED BY <2>1, <2>2, <2>3, <2>4
<1> QED BY <1>3, <1>4, <1>5, <1>6, <1>7

\* Two endpoints match exactly when their profiles suit each other.
LEMMA MatchesSuits ==
    ASSUME NEW p \in Profiles, NEW q \in Profiles
    PROVE  Matches(ApplyToWriter(p), ApplyToReader(q)) <=> Suits(p, q)
<1> DEFINE w == ApplyToWriter(p)
           r == ApplyToReader(q)
<1>1. /\ w.reliability = p.reliability /\ w.durability = p.durability
      /\ w.liveliness = p.liveliness
      /\ w.deadline = ApplyDuration(p.deadline) /\ w.lease = ApplyDuration(p.lease)
    BY DEF ApplyToWriter
<1>2. /\ r.reliability = q.reliability /\ r.durability = q.durability
      /\ r.liveliness = q.liveliness
      /\ r.deadline = ApplyDuration(q.deadline) /\ r.lease = ApplyDuration(q.lease)
    BY DEF ApplyToReader
<1> HIDE DEF w, r
<1>3. Matches(w, r) <=>
        /\ Rank(w.reliability) >= Rank(r.reliability) /\ Rank(w.durability) >= Rank(r.durability)
        /\ Rank(w.liveliness) >= Rank(r.liveliness)
        /\ NoLonger(w.deadline, r.deadline) /\ NoLonger(w.lease, r.lease)
    BY DEF Matches
<1>4. Suits(p, q) <=>
        /\ Rank(p.reliability) >= Rank(q.reliability) /\ Rank(p.durability) >= Rank(q.durability)
        /\ Rank(p.liveliness) >= Rank(q.liveliness)
        /\ Length(p.deadline) <= Length(q.deadline) /\ Length(p.lease) <= Length(q.lease)
    BY DEF Suits
<1>5. /\ NoLonger(w.deadline, r.deadline) <=> Length(p.deadline) <= Length(q.deadline)
      /\ NoLonger(w.lease, r.lease) <=> Length(p.lease) <= Length(q.lease)
    BY <1>1, <1>2, ProfileDurations, DurationsCompare
<1>6. Matches(w, r) <=> Suits(p, q)
    BY <1>1, <1>2, <1>3, <1>4, <1>5
<1> QED BY <1>6 DEF w, r

\* What is opened has the QoS it was opened with, and knows whether it shares.
LEMMA OpenedAs ==
    ASSUME NEW qos, NEW force, NEW endpoint \in Opened(qos, force), endpoint.made = "made"
    PROVE  endpoint.qos = qos /\ endpoint.shares = endpoint.enabled
<1>1. PICK s \in {force, FALSE} :
        endpoint = [made |-> "made", qos |-> qos, shares |-> s, enabled |-> s]
    BY DEF Opened, Never
<1> QED BY <1>1

\* An endpoint is what its profile asks for, or there is none.
EndpointsInv ==
    /\ offered \in Profiles /\ requested \in Profiles
    /\ writer \in {NotYet} \cup Opened(ApplyToWriter(offered), ForceOnWriter)
    /\ reader \in {NotYet} \cup Opened(ApplyToReader(requested), ForceOnReader)

LEMMA EndpointsMeant == EndpointsInv => AppliedAsMeant
<1> SUFFICES ASSUME EndpointsInv PROVE AppliedAsMeant
    OBVIOUS
<1>1. NotYet.made # "made"
    BY DEF NotYet
<1>2. writer.made = "made" => writer.qos = ApplyToWriter(offered) /\ writer.shares = writer.enabled
    BY <1>1, OpenedAs DEF EndpointsInv
<1>3. reader.made = "made" => reader.qos = ApplyToReader(requested)
    BY <1>1, OpenedAs DEF EndpointsInv
<1> QED BY <1>2, <1>3, MatchesSuits DEF EndpointsInv, AppliedAsMeant, AutomaticLoans

LEMMA EndpointsStep == EndpointsInv /\ [ProfilesNext]_profileVars => EndpointsInv'
<1> SUFFICES ASSUME EndpointsInv, [ProfilesNext]_profileVars PROVE EndpointsInv'
    OBVIOUS
<1>1. UNCHANGED <<offered, requested, type, host>>
    BY DEF ProfilesNext, MakeWriter, MakeReader, profileVars
<1>2. writer' = writer \/ writer' \in Opened(ApplyToWriter(offered), ForceOnWriter)
    BY DEF ProfilesNext, MakeWriter, MakeReader, profileVars
<1>3. reader' = reader \/ reader' \in Opened(ApplyToReader(requested), ForceOnReader)
    BY DEF ProfilesNext, MakeWriter, MakeReader, profileVars
<1>4. (ForceOnWriter' <=> ForceOnWriter) /\ (ForceOnReader' <=> ForceOnReader)
    BY <1>1 DEF ForceOnWriter, ForceOnReader
<1>5. /\ Opened(ApplyToWriter(offered), ForceOnWriter)' = Opened(ApplyToWriter(offered), ForceOnWriter)
      /\ Opened(ApplyToReader(requested), ForceOnReader)' = Opened(ApplyToReader(requested), ForceOnReader)
    BY <1>1 DEF Opened, ApplyToWriter, ApplyToReader, ApplyDuration, Infinity, Never, ForceOnWriter, ForceOnReader
<1> QED BY <1>1, <1>2, <1>3, <1>5 DEF EndpointsInv, NotYet

\* AppliedAsMeant (property of the run node): for durations of any length, a
\* writer and a reader match exactly when their profiles suit each other, and
\* automatic loans are on only where data sharing is (QoSProfile._apply_duration,
\* Publisher.__init__).
THEOREM AppliedAsMeantHolds == ProfilesSpec => []AppliedAsMeant
<1>1. ProfilesInit => EndpointsInv
    BY DEF ProfilesInit, EndpointsInv
<1> QED BY <1>1, EndpointsMeant, EndpointsStep, PTL DEF ProfilesSpec
-----------------------------------------------------------------------------
(* Types, for any modules, actions and nodes.                                *)

\* What a node remembers of a class is true of the participant that was told, which
\* is its own or a later one; and so it is for the endpoints.
KnownInv ==
    /\ inits \in Nat /\ participant \in {0, inits}
    /\ home \in [Nodes -> 0..inits] /\ known \in [Nodes -> SUBSET (Messages \X (1..inits))]
    /\ \A n \in Nodes : home[n] = 0 => known[n] = {}
    /\ \A n \in Nodes : \A entry \in known[n] :
         /\ home[n] <= entry[2]
         /\ <<entry[2], ResolveGeneratedType(entry[1])>> \in registeredTypes
    /\ \A e \in opened :
         /\ e.on \in 0..inits /\ e.by \in 0..inits /\ e.on <= e.by
         /\ <<e.by, ResolveGeneratedType(e.class)>> \in registeredTypes

\* The halves that an answer gives are the service's own.
OwnHalves(service, answer) ==
    service \in aliases \/ BasesOf(service[1]) = {service[2]} =>
      \A i \in 1..2 : answer[i].module = service[1] /\ answer[i].name.base = service[2]

\* A wrapper has a name that no class of its module has; what is remembered of a
\* service was right, and is still, since a service stays with or without wrapper.
HalvesInv ==
    /\ \A a \in aliases : ~Has(a[1], Message(a[2]))
    /\ \A c \in cache :
         /\ c[1] \in aliases \/ Has(c[1][1], Message(c[1][2]))
         /\ OwnHalves(c[1], c[2])

LEMMA HasIsMember == ASSUME NEW m \in Modules, NEW name PROVE Has(m, name) <=> name \in ToSet(Dir[m])
<1>1. DOMAIN Dir[m] = 1..Len(Dir[m])
    BY TypesAssumption, LenProperties
<1> QED BY <1>1 DEF Has, Contains, ToSet

LEMMA UpToNat == \A n \in Nat : 1..n \subseteq Nat
    OBVIOUS

\* The first class that ends in a half is a class of the module that does.
LEMMA FirstEndsSo ==
    ASSUME NEW m \in Modules, NEW half, half # "", NEW pubsub, First(m, half, pubsub) # NoClass
    PROVE  \E name \in ToSet(Dir[m]) : name.half = half /\ First(m, half, pubsub) = Class(m, name)
<1> DEFINE found == {i \in DOMAIN Dir[m] :
                      Dir[m][i].pubsub = pubsub /\ half \in {"", Dir[m][i].half}}
           i == CHOOSE x \in found : \A y \in found : x =< y
<1>1. found # {} /\ First(m, half, pubsub) = Class(m, Dir[m][i])
    BY DEF First, Min
<1>2. found \in SUBSET Nat
    <2>1. Dir[m] \in Seq(ToSet(Dir[m]))
        BY TypesAssumption
    <2>2. DOMAIN Dir[m] = 1..Len(Dir[m]) /\ Len(Dir[m]) \in Nat
        BY <2>1, LenProperties
    <2> QED BY <2>2, UpToNat
<1>3. i \in found
    <2> HIDE DEF found
    <2> QED BY <1>1, <1>2, LeastOf
<1>4. i \in DOMAIN Dir[m] /\ Dir[m][i].half = half
    BY <1>3
<1> HIDE DEF i
<1>5. Dir[m][i] \in ToSet(Dir[m])
    BY <1>4 DEF ToSet
<1> QED BY <1>1, <1>4, <1>5

\* A half that is found is the service's own, if it has a wrapper or its module
\* has the halves of no other.
LEMMA HalfIsOwn ==
    ASSUME NEW service \in Services, NEW half \in {"Request", "Response"},
           Half(service, half) # NoClass,
           service \in aliases \/ BasesOf(service[1]) = {service[2]},
           service \notin aliases => service[1] \in Modules
    PROVE  Half(service, half).module = service[1] /\ Half(service, half).name.base = service[2]
<1> DEFINE m == service[1]
           flat == [Message(service[2]) EXCEPT !.half = half]
<1>1. \A name : Class(m, name).module = m /\ Class(m, name).name = name
    BY DEF Class
<1>2. flat.base = service[2] /\ [flat EXCEPT !.under = TRUE].base = service[2]
    BY DEF Message
<1>3. CASE service \in aliases
    <2>1. Half(service, half) = Class(m, [flat EXCEPT !.under = TRUE])
        BY <1>3 DEF Half
    <2> HIDE DEF flat
    <2> QED BY <1>1, <1>2, <2>1
<1>4. CASE service \notin aliases /\ Has(m, flat)
    <2>1. Half(service, half) = Class(m, flat)
        BY <1>4 DEF Half
    <2> HIDE DEF flat
    <2> QED BY <1>1, <1>2, <2>1
<1>5. CASE service \notin aliases /\ ~Has(m, flat)
    <2>1. Half(service, half) = First(m, half, FALSE)
        BY <1>5 DEF Half
    <2>2. half # "" /\ m \in Modules
        BY <1>5
    <2>3. First(m, half, FALSE) # NoClass
        BY <2>1
    <2> HIDE DEF m, flat
    <2>4. PICK name \in ToSet(Dir[m]) : name.half = half /\ First(m, half, FALSE) = Class(m, name)
        BY <2>2, <2>3, FirstEndsSo
    <2>5. name.base \in BasesOf(m)
        BY <2>2, <2>4 DEF BasesOf
    <2>6. name.base = service[2]
        BY <1>5, <2>5 DEF m
    <2> QED BY <1>1, <2>1, <2>4, <2>6 DEF m
<1> QED BY <1>3, <1>4, <1>5

\* What resolve_service_type answers may be remembered.
LEMMA AnswersOwn ==
    ASSUME HalvesInv, NEW service \in Services, Resolves(service)
    PROVE  /\ service \in aliases \/ (service[1] \in Modules /\ Has(service[1], Message(service[2])))
           /\ OwnHalves(service, ResolveServiceType(service))
<1>1. ASSUME service \notin aliases
      PROVE  service[1] \in Modules /\ Has(service[1], Message(service[2]))
    <2>1. PICK m \in Modules : \E n \in ToSet(Dir[m]) : n = Message(n.base) /\ service = <<m, n.base>>
        BY <1>1 DEF Services
    <2>2. PICK n \in ToSet(Dir[m]) : n = Message(n.base) /\ service = <<m, n.base>>
        BY <2>1
    <2>3. service[1] = m /\ service[2] = n.base
        BY <2>2
    <2> QED BY <2>2, <2>3, HasIsMember
<1>2. CASE \E c \in cache : c[1] = service
    <2> DEFINE c == CHOOSE d \in cache : d[1] = service
    <2>1. c \in cache /\ c[1] = service
        BY <1>2
    <2>2. ResolveServiceType(service) = c[2]
        BY <1>2 DEF ResolveServiceType
    <2> HIDE DEF c
    <2>3. OwnHalves(service, c[2])
        BY <2>1 DEF HalvesInv
    <2> QED BY <1>1, <2>2, <2>3
<1>3. CASE ~ \E c \in cache : c[1] = service
    <2> DEFINE answer == <<Half(service, "Request"), Half(service, "Response")>>
    <2>1. ResolveServiceType(service) = answer
        BY <1>3 DEF ResolveServiceType
    <2>2. answer[1] # NoClass /\ answer[2] # NoClass
        BY <2>1 DEF Resolves
    <2>3. ASSUME service \in aliases \/ BasesOf(service[1]) = {service[2]}, NEW i \in 1..2
          PROVE  answer[i].module = service[1] /\ answer[i].name.base = service[2]
        <3>1. CASE i = 1
            BY <1>1, <2>2, <2>3, <3>1, HalfIsOwn
        <3>2. CASE i = 2
            BY <1>1, <2>2, <2>3, <3>2, HalfIsOwn
        <3> QED BY <3>1, <3>2
    <2> HIDE DEF answer
    <2> QED BY <1>1, <2>1, <2>3 DEF OwnHalves
<1> QED BY <1>2, <1>3

LEMMA HalvesStep == HalvesInv /\ [TypesNext]_typeVars => HalvesInv'
<1> SUFFICES ASSUME HalvesInv, [TypesNext]_typeVars PROVE HalvesInv'
    OBVIOUS
<1>u. ASSUME UNCHANGED <<aliases, cache>> PROVE HalvesInv'
    BY <1>u DEF HalvesInv, OwnHalves
<1>1. ASSUME NEW m \in Modules, PatchModule(m) PROVE HalvesInv'
    <2> DEFINE new == {n \in ToSet(Dir[m]) : /\ n.half = "Request" /\ n.under /\ ~n.pubsub
                                             /\ Has(m, [n EXCEPT !.half = "Response"])
                                             /\ ~Has(m, Message(n.base))}
    <2>p. cache' = cache /\ aliases' = aliases \cup {<<m, n.base>> : n \in new}
        BY <1>1 DEF PatchModule
    <2>a. \A n \in new : ~Has(m, Message(n.base))
        OBVIOUS
    <2> HIDE DEF new
    <2>b. ASSUME NEW a \in aliases' \ aliases PROVE ~Has(a[1], Message(a[2]))
        <3>1. PICK n \in new : a = <<m, n.base>>
            BY <2>p
        <3>2. a[1] = m /\ a[2] = n.base
            BY <3>1
        <3> QED BY <2>a, <3>2
    <2>1. /\ cache' = cache /\ aliases \subseteq aliases'
          /\ \A a \in aliases' \ aliases : ~Has(a[1], Message(a[2]))
        BY <2>p, <2>b
    <2>2. ASSUME NEW c \in cache
          PROVE  /\ c[1] \in aliases' \/ Has(c[1][1], Message(c[1][2]))
                 /\ c[1] \in aliases' => c[1] \in aliases
        BY <2>1 DEF HalvesInv
    <2> QED BY <2>1, <2>2 DEF HalvesInv, OwnHalves
<1>2. ASSUME NEW n \in Nodes, NEW service \in Services, CreateServiceEntity(n, service)
      PROVE  HalvesInv'
    <2>1. /\ aliases' = aliases /\ cache' = cache \cup {<<service, ResolveServiceType(service)>>}
          /\ Resolves(service)
        BY <1>2 DEF CreateServiceEntity
    <2>2. /\ service \in aliases \/ Has(service[1], Message(service[2]))
          /\ OwnHalves(service, ResolveServiceType(service))
        BY <2>1, AnswersOwn
    <2>3. ASSUME NEW c \in cache'
          PROVE  (c[1] \in aliases \/ Has(c[1][1], Message(c[1][2]))) /\ OwnHalves(c[1], c[2])
        <3>1. CASE c \in cache
            BY <3>1 DEF HalvesInv
        <3>2. CASE c \notin cache
            <4>1. c[1] = service /\ c[2] = ResolveServiceType(service)
                BY <2>1, <2>3, <3>2
            <4> QED BY <2>2, <4>1
        <3> QED BY <3>1, <3>2
    <2> QED BY <2>1, <2>3 DEF HalvesInv, OwnHalves
<1>3. CASE InitParticipant \/ Shutdown
    BY <1>3, <1>u DEF InitParticipant, Shutdown, resolutionVars
<1>4. ASSUME NEW n \in Nodes, NEW class, CreateNode(n) \/ CreateTopicEntity(n, class)
      PROVE  HalvesInv'
    BY <1>4, <1>u DEF CreateNode, CreateTopicEntity, resolutionVars
<1>5. ASSUME NEW n \in Nodes, NEW action, CreateActionEntity(n, action) PROVE HalvesInv'
    BY <1>5, <1>u DEF CreateActionEntity, resolutionVars
<1>6. CASE UNCHANGED typeVars
    BY <1>6, <1>u DEF typeVars, resolutionVars
<1> QED BY <1>1, <1>2, <1>3, <1>4, <1>5, <1>6 DEF TypesNext

\* Types that are registered are known to the participant there is, and no type is
\* forgotten.
LEMMA Registered ==
    ASSUME KnownInv, NEW types, Register(types)
    PROVE  /\ participant = inits /\ inits \in Nat \ {0}
           /\ registeredTypes \subseteq registeredTypes'
           /\ \A t \in types : <<participant, t>> \in registeredTypes'
    BY DEF Register, KnownInv

\* Endpoints may be asked for whose types have been told to a participant that is
\* not older.
LEMMA OpeningMore ==
    ASSUME KnownInv, NEW n \in Nodes, UNCHANGED <<participant, inits, home>>,
           registeredTypes \subseteq registeredTypes',
           \/ known' = known
           \/ /\ home[n] # 0
              /\ \E class \in Messages :
                   /\ known' = [known EXCEPT ![n] = @ \cup {<<class, inits>>}]
                   /\ <<inits, ResolveGeneratedType(class)>> \in registeredTypes',
           \A e \in opened' \ opened :
             /\ e.on \in 0..inits /\ e.by \in 0..inits /\ e.on <= e.by
             /\ <<e.by, ResolveGeneratedType(e.class)>> \in registeredTypes'
    PROVE  KnownInv'
<1>t. /\ inits \in Nat /\ participant \in {0, inits}
      /\ home \in [Nodes -> 0..inits] /\ known \in [Nodes -> SUBSET (Messages \X (1..inits))]
    BY DEF KnownInv
<1>1. \A e \in opened' : /\ e.on \in 0..inits /\ e.by \in 0..inits /\ e.on <= e.by
                         /\ <<e.by, ResolveGeneratedType(e.class)>> \in registeredTypes'
    BY DEF KnownInv
<1>2. CASE known' = known
    BY <1>t, <1>1, <1>2 DEF KnownInv
<1>3. CASE home[n] # 0 /\ known' # known
    <2>1. PICK class \in Messages :
            /\ known' = [known EXCEPT ![n] = @ \cup {<<class, inits>>}]
            /\ <<inits, ResolveGeneratedType(class)>> \in registeredTypes'
        BY <1>3
    <2>2. inits \in 1..inits /\ home[n] \in 1..inits
        BY <1>t, <1>3
    <2>3. known' \in [Nodes -> SUBSET (Messages \X (1..inits))]
        BY <1>t, <2>1, <2>2
    <2>4. \A x \in Nodes : \A entry \in known'[x] :
            entry \in known[x] \/ (x = n /\ entry = <<class, inits>>)
        BY <1>t, <2>1
    <2>5. \A x \in Nodes : \A entry \in known[x] :
            /\ home[x] <= entry[2]
            /\ <<entry[2], ResolveGeneratedType(entry[1])>> \in registeredTypes'
        BY DEF KnownInv
    <2>6. home[n] <= inits
        BY <1>t
    <2>7. \A x \in Nodes : \A entry \in known'[x] :
            /\ home[x] <= entry[2]
            /\ <<entry[2], ResolveGeneratedType(entry[1])>> \in registeredTypes'
        BY <2>1, <2>4, <2>5, <2>6
    <2>8. \A x \in Nodes : home[x] = 0 => known'[x] = {}
        BY <1>t, <1>3, <2>1 DEF KnownInv
    <2> QED BY <1>t, <1>1, <2>3, <2>7, <2>8 DEF KnownInv
<1> QED BY <1>2, <1>3

LEMMA KnownStep == KnownInv /\ [TypesNext]_typeVars => KnownInv'
<1> SUFFICES ASSUME KnownInv, [TypesNext]_typeVars PROVE KnownInv'
    OBVIOUS
<1>t. /\ inits \in Nat /\ participant \in {0, inits}
      /\ home \in [Nodes -> 0..inits] /\ known \in [Nodes -> SUBSET (Messages \X (1..inits))]
    BY DEF KnownInv
<1>u. ASSUME UNCHANGED <<inits, registeredTypes, home, known, opened>>, participant' \in {0, inits}
      PROVE  KnownInv'
    BY <1>u DEF KnownInv
<1>1. ASSUME NEW m \in Modules, PatchModule(m) PROVE KnownInv'
    BY <1>t, <1>1, <1>u DEF PatchModule, registry
<1>2. CASE InitParticipant
    <2>1. /\ inits' = inits + 1 /\ participant' = inits'
          /\ UNCHANGED <<registeredTypes, home, known, opened>>
        BY <1>2 DEF InitParticipant
    <2>2. inits' \in Nat /\ 0..inits \subseteq 0..inits' /\ 1..inits \subseteq 1..inits'
        BY <1>t, <2>1
    <2>3. home \in [Nodes -> 0..inits'] /\ known \in [Nodes -> SUBSET (Messages \X (1..inits'))]
        BY <1>t, <2>2
    <2>4. \A e \in opened : e.on \in 0..inits' /\ e.by \in 0..inits'
        BY <2>2 DEF KnownInv
    <2> QED BY <2>1, <2>2, <2>3, <2>4 DEF KnownInv
<1>3. CASE Shutdown
    BY <1>3, <1>u DEF Shutdown
<1>4. ASSUME NEW n \in Nodes, CreateNode(n) PROVE KnownInv'
    <2>1. /\ participant # 0 /\ home[n] = 0 /\ home' = [home EXCEPT ![n] = participant]
          /\ UNCHANGED <<participant, inits, registeredTypes, known, opened>>
        BY <1>4 DEF CreateNode, registry
    <2>2. home' \in [Nodes -> 0..inits]
        BY <1>t, <2>1
    <2>3. known[n] = {}
        BY <2>1 DEF KnownInv
    <2>4. \A x \in Nodes : x # n => home'[x] = home[x]
        BY <1>t, <2>1
    <2>5. ASSUME NEW x \in Nodes
          PROVE  /\ home'[x] = 0 => known[x] = {}
                 /\ \A entry \in known[x] :
                      /\ home'[x] <= entry[2]
                      /\ <<entry[2], ResolveGeneratedType(entry[1])>> \in registeredTypes
        BY <2>3, <2>4 DEF KnownInv
    <2> QED BY <1>t, <2>1, <2>2, <2>5 DEF KnownInv
<1>5. ASSUME NEW n \in Nodes, NEW class \in Messages, CreateTopicEntity(n, class) PROVE KnownInv'
    <2>1. home[n] # 0 /\ UNCHANGED <<participant, inits, home>>
        BY <1>5 DEF CreateTopicEntity
    <2>2. ASSUME NEW entry \in known[n], entry[1] = class,
                 opened' = opened \cup OpenedFor({class}, home[n], entry[2]),
                 UNCHANGED <<registeredTypes, known>>
          PROVE  KnownInv'
        <3>1. /\ home[n] \in 0..inits /\ entry[2] \in 0..inits /\ home[n] <= entry[2]
              /\ <<entry[2], ResolveGeneratedType(class)>> \in registeredTypes
            BY <1>t, <2>2 DEF KnownInv
        <3>2. \A e \in opened' \ opened : e.class = class /\ e.on = home[n] /\ e.by = entry[2]
            BY <2>2 DEF OpenedFor
        <3> QED BY <2>1, <2>2, <3>1, <3>2, OpeningMore
    <2>3. ASSUME Register({ResolveGeneratedType(class)}),
                 known' = [known EXCEPT ![n] = @ \cup {<<class, participant>>}],
                 opened' = opened \cup OpenedFor({class}, home[n], participant)
          PROVE  KnownInv'
        <3>1. /\ participant = inits /\ inits \in Nat \ {0}
              /\ registeredTypes \subseteq registeredTypes'
              /\ <<inits, ResolveGeneratedType(class)>> \in registeredTypes'
            BY <2>3, Registered
        <3>2. \A e \in opened' \ opened : e.class = class /\ e.on = home[n] /\ e.by = inits
            BY <2>3, <3>1 DEF OpenedFor
        <3>3. home[n] \in 0..inits /\ home[n] <= inits /\ inits \in 0..inits
            BY <1>t, <3>1
        <3> QED BY <2>1, <2>3, <3>1, <3>2, <3>3, OpeningMore
    <2> QED BY <1>5, <2>2, <2>3 DEF CreateTopicEntity
<1>6. ASSUME NEW n \in Nodes, NEW classes, NEW types,
             \A class \in classes : ResolveGeneratedType(class) \in types, Register(types),
             opened' = opened \cup OpenedFor(classes, participant, participant),
             UNCHANGED <<participant, inits, home, known>>
      PROVE  KnownInv'
    <2>1. /\ participant = inits /\ inits \in Nat \ {0} /\ inits \in 0..inits /\ inits <= inits
          /\ registeredTypes \subseteq registeredTypes'
          /\ \A t \in types : <<inits, t>> \in registeredTypes'
        BY <1>6, Registered
    <2>2. \A e \in opened' \ opened : e.class \in classes /\ e.on = inits /\ e.by = inits
        BY <1>6, <2>1 DEF OpenedFor
    <2> QED BY <1>6, <2>1, <2>2, OpeningMore
<1>7. ASSUME NEW n \in Nodes, NEW service \in Services, CreateServiceEntity(n, service)
      PROVE  KnownInv'
    <2> DEFINE pair == ResolveServiceType(service)
    <2>1. /\ UNCHANGED <<participant, inits, home, known>>
          /\ Register({ResolveGeneratedType(pair[1]), ResolveGeneratedType(pair[2])})
          /\ opened' = opened \cup OpenedFor({pair[1], pair[2]}, participant, participant)
        BY <1>7 DEF CreateServiceEntity
    <2> HIDE DEF pair
    <2> DEFINE types == {ResolveGeneratedType(pair[1]), ResolveGeneratedType(pair[2])}
    <2>2. \A class \in {pair[1], pair[2]} : ResolveGeneratedType(class) \in types
        OBVIOUS
    <2>3. Register(types)
        BY <2>1
    <2> HIDE DEF types
    <2> QED BY <1>6, <2>1, <2>2, <2>3
<1>8. ASSUME NEW n \in Nodes, NEW action \in Actions, CreateActionEntity(n, action) PROVE KnownInv'
    <2> DEFINE classes == ResolveActionType(action)
               types == {ResolveGeneratedType(class) : class \in classes}
    <2>1. /\ UNCHANGED <<participant, inits, home, known>>
          /\ Register(types)
          /\ opened' = opened \cup OpenedFor(classes, participant, participant)
        BY <1>8 DEF CreateActionEntity
    <2> HIDE DEF classes
    <2>2. \A class \in classes : ResolveGeneratedType(class) \in types
        OBVIOUS
    <2> HIDE DEF types
    <2> QED BY <1>6, <2>1, <2>2
<1>9. CASE UNCHANGED typeVars
    BY <1>t, <1>9, <1>u DEF typeVars, registry
<1> QED BY <1>1, <1>2, <1>3, <1>4, <1>5, <1>7, <1>8, <1>9 DEF TypesNext

\* TypesKnown (property of the run node): over any number of shutdowns and inits,
\* whatever the caches of nodes old and new remember, the participant that is asked
\* to open an endpoint knows its type, unless the type has gone to a later one; and
\* a service has its own halves (RegisteredType.register, Node.create_publisher,
\* resolve_service_type).
THEOREM TypesKnownHolds == TypesSpec => []TypesKnown
<1>1. TypesInit => KnownInv /\ HalvesInv
    BY DEF TypesInit, KnownInv, HalvesInv
<1>2. KnownInv /\ HalvesInv => TypesKnown
    <2> SUFFICES ASSUME KnownInv, HalvesInv PROVE TypesKnown
        OBVIOUS
    <2>1. ASSUME NEW e \in opened
          PROVE  <<e.on, ResolveGeneratedType(e.class)>> \in registeredTypes \/ e.on < e.by
        <3>1. /\ inits \in Nat /\ e.on \in 0..inits /\ e.by \in 0..inits /\ e.on <= e.by
              /\ <<e.by, ResolveGeneratedType(e.class)>> \in registeredTypes
            BY DEF KnownInv
        <3>2. e.on = e.by \/ e.on < e.by
            BY <3>1
        <3> QED BY <3>1, <3>2
    <2> QED BY <2>1 DEF HalvesInv, OwnHalves, TypesKnown
<1> QED BY <1>1, <1>2, KnownStep, HalvesStep, PTL DEF TypesSpec
-----------------------------------------------------------------------------
(* Construction, for any calls that make entities, of any topics and types.  *)

Openings == {"open", "try", "start", "companion"}
Binds(r) == r.kind \in {"subscription", "client", "service", "timer"}

\* What the plans have in common: whatever may call back has its entity bound in
\* the last step, or hands over itself; the group comes before anything that it
\* is needed for; and nothing is opened once the entity is tracked.
Shaped(r, p) ==
    LET n == Len(p)
    IN /\ n \in Nat
       /\ \A i \in 1..n : p[i].do \in Openings \cup {"group", "track", "bind"}
       /\ \A i \in 1..n : p[i].do = "bind" => i = n
       /\ Binds(r) => p[n].do = "bind"
       /\ \A i \in 1..n :
            p[i].do \in {"open", "try", "start"} /\ CallsBack(p[i]) => Direct(r) \/ Binds(r)
       /\ \A i \in 1..n :
            p[i].do = "bind" \/ (Direct(r) /\ p[i].do \in Openings)
              \/ (p[i].do = "companion" /\ p[i].dir = "reader") =>
            \E j \in 1..(i - 1) : p[j].do = "group"
       /\ \E t \in 1..n :
            /\ p[t].do = "track"
            /\ \A i \in 1..n : (p[i].do = "track" => i = t) /\ (p[i].do \in Openings => i < t)

LEMMA PublisherShaped == ASSUME NEW r, r.kind = "publisher" PROVE Shaped(r, CreatePublisher(r))
<1> DEFINE p == CreatePublisher(r)
<1>1. /\ Len(p) = 4 /\ p[1].do = "open" /\ p[1].dir = "writer"
      /\ p[2].do = "companion" /\ p[2].dir = "writer"
      /\ p[3].do = "companion" /\ p[3].dir = "writer" /\ p[4].do = "track"
    BY DEF CreatePublisher, CudaWriter, SharedMemoryWriter, Companion, Topics, Open, Step
<1> HIDE DEF p
<1>2. \A i \in 1..4 : i = 1 \/ i = 2 \/ i = 3 \/ i = 4
    OBVIOUS
<1>3. \A i \in 1..4 : p[i].do \in Openings \cup {"group", "track", "bind"}
    BY <1>1, <1>2 DEF Openings
<1>4. \A i \in 1..4 : p[i].do = "bind" => i = 4
    BY <1>1, <1>2
<1>5. Binds(r) => p[4].do = "bind"
    BY <1>1 DEF Binds
<1>6. \A i \in 1..4 :
        p[i].do \in {"open", "try", "start"} /\ CallsBack(p[i]) => Direct(r) \/ Binds(r)
    BY <1>1, <1>2 DEF Binds, CallsBack
<1>7. \A i \in 1..4 :
        p[i].do = "bind" \/ (Direct(r) /\ p[i].do \in Openings)
          \/ (p[i].do = "companion" /\ p[i].dir = "reader") =>
        \E j \in 1..(i - 1) : p[j].do = "group"
    BY <1>1, <1>2 DEF Direct
<1>8. \E t \in 1..4 :
        /\ p[t].do = "track"
        /\ \A i \in 1..4 : (p[i].do = "track" => i = t) /\ (p[i].do \in Openings => i < t)
    BY <1>1, <1>2 DEF Openings
<1> QED BY <1>1, <1>3, <1>4, <1>5, <1>6, <1>7, <1>8 DEF Shaped, p

LEMMA SubscriptionShaped ==
    ASSUME NEW r, r.kind = "subscription" PROVE Shaped(r, CreateSubscription(r))
<1> DEFINE p == CreateSubscription(r)
<1>1. /\ Len(p) = 6 /\ p[1].do = "open" /\ p[2].do = "group" /\ p[3].do = "companion"
      /\ p[4].do = "companion" /\ p[5].do = "track" /\ p[6].do = "bind"
    BY DEF CreateSubscription, CudaReader, SharedMemoryReader, Companion, Topics, Open, Step
<1> HIDE DEF p
<1>2. \A i \in 1..6 : i = 1 \/ i = 2 \/ i = 3 \/ i = 4 \/ i = 5 \/ i = 6
    OBVIOUS
<1>3. \A i \in 1..6 : p[i].do \in Openings \cup {"group", "track", "bind"}
    BY <1>1, <1>2 DEF Openings
<1>4. \A i \in 1..6 : p[i].do = "bind" => i = 6
    BY <1>1, <1>2
<1>5. Binds(r) => p[6].do = "bind"
    BY <1>1 DEF Binds
<1>6. \A i \in 1..6 :
        p[i].do \in {"open", "try", "start"} /\ CallsBack(p[i]) => Direct(r) \/ Binds(r)
    BY <1>1, <1>2 DEF Binds, CallsBack
<1>7. \A i \in 1..6 :
        p[i].do = "bind" \/ (Direct(r) /\ p[i].do \in Openings)
          \/ (p[i].do = "companion" /\ p[i].dir = "reader") =>
        \E j \in 1..(i - 1) : p[j].do = "group"
    BY <1>1, <1>2 DEF Direct
<1>8. \E t \in 1..6 :
        /\ p[t].do = "track"
        /\ \A i \in 1..6 : (p[i].do = "track" => i = t) /\ (p[i].do \in Openings => i < t)
    BY <1>1, <1>2 DEF Openings
<1> QED BY <1>1, <1>3, <1>4, <1>5, <1>6, <1>7, <1>8 DEF Shaped, p

LEMMA ClientShaped == ASSUME NEW r, r.kind = "client" PROVE Shaped(r, CreateClient(r))
<1> DEFINE p == CreateClient(r)
<1>1. /\ Len(p) = 5 /\ p[1].do = "open" /\ p[2].do = "open" /\ p[3].do = "track"
      /\ p[4].do = "group" /\ p[5].do = "bind"
    BY DEF CreateClient, NewClient, Topics, Open, Step
<1> HIDE DEF p
<1>2. \A i \in 1..5 : i = 1 \/ i = 2 \/ i = 3 \/ i = 4 \/ i = 5
    OBVIOUS
<1>3. \A i \in 1..5 : p[i].do \in Openings \cup {"group", "track", "bind"}
    BY <1>1, <1>2 DEF Openings
<1>4. \A i \in 1..5 : p[i].do = "bind" => i = 5
    BY <1>1, <1>2
<1>5. Binds(r) => p[5].do = "bind"
    BY <1>1 DEF Binds
<1>6. \A i \in 1..5 :
        p[i].do \in {"open", "try", "start"} /\ CallsBack(p[i]) => Direct(r) \/ Binds(r)
    BY <1>1, <1>2 DEF Binds, CallsBack
<1>7. \A i \in 1..5 :
        p[i].do = "bind" \/ (Direct(r) /\ p[i].do \in Openings)
          \/ (p[i].do = "companion" /\ p[i].dir = "reader") =>
        \E j \in 1..(i - 1) : p[j].do = "group"
    BY <1>1, <1>2 DEF Direct
<1>8. \E t \in 1..5 :
        /\ p[t].do = "track"
        /\ \A i \in 1..5 : (p[i].do = "track" => i = t) /\ (p[i].do \in Openings => i < t)
    BY <1>1, <1>2 DEF Openings
<1> QED BY <1>1, <1>3, <1>4, <1>5, <1>6, <1>7, <1>8 DEF Shaped, p

LEMMA ServiceShaped == ASSUME NEW r, r.kind = "service" PROVE Shaped(r, CreateService(r))
<1> DEFINE p == CreateService(r)
<1>1. /\ Len(p) = 5 /\ p[1].do = "open" /\ p[2].do = "open" /\ p[3].do = "track"
      /\ p[4].do = "group" /\ p[5].do = "bind"
    BY DEF CreateService, NewService, Topics, Open, Step
<1> HIDE DEF p
<1>2. \A i \in 1..5 : i = 1 \/ i = 2 \/ i = 3 \/ i = 4 \/ i = 5
    OBVIOUS
<1>3. \A i \in 1..5 : p[i].do \in Openings \cup {"group", "track", "bind"}
    BY <1>1, <1>2 DEF Openings
<1>4. \A i \in 1..5 : p[i].do = "bind" => i = 5
    BY <1>1, <1>2
<1>5. Binds(r) => p[5].do = "bind"
    BY <1>1 DEF Binds
<1>6. \A i \in 1..5 :
        p[i].do \in {"open", "try", "start"} /\ CallsBack(p[i]) => Direct(r) \/ Binds(r)
    BY <1>1, <1>2 DEF Binds, CallsBack
<1>7. \A i \in 1..5 :
        p[i].do = "bind" \/ (Direct(r) /\ p[i].do \in Openings)
          \/ (p[i].do = "companion" /\ p[i].dir = "reader") =>
        \E j \in 1..(i - 1) : p[j].do = "group"
    BY <1>1, <1>2 DEF Direct
<1>8. \E t \in 1..5 :
        /\ p[t].do = "track"
        /\ \A i \in 1..5 : (p[i].do = "track" => i = t) /\ (p[i].do \in Openings => i < t)
    BY <1>1, <1>2 DEF Openings
<1> QED BY <1>1, <1>3, <1>4, <1>5, <1>6, <1>7, <1>8 DEF Shaped, p

LEMMA TimerShaped == ASSUME NEW r, r.kind = "timer" PROVE Shaped(r, CreateTimer(r))
<1> DEFINE p == CreateTimer(r)
<1>1. /\ Len(p) = 4 /\ p[1].do = "start" /\ p[2].do = "track"
      /\ p[3].do = "group" /\ p[4].do = "bind"
    BY DEF CreateTimer, Step
<1> HIDE DEF p
<1>2. \A i \in 1..4 : i = 1 \/ i = 2 \/ i = 3 \/ i = 4
    OBVIOUS
<1>3. \A i \in 1..4 : p[i].do \in Openings \cup {"group", "track", "bind"}
    BY <1>1, <1>2 DEF Openings
<1>4. \A i \in 1..4 : p[i].do = "bind" => i = 4
    BY <1>1, <1>2
<1>5. Binds(r) => p[4].do = "bind"
    BY <1>1 DEF Binds
<1>6. \A i \in 1..4 :
        p[i].do \in {"open", "try", "start"} /\ CallsBack(p[i]) => Direct(r) \/ Binds(r)
    BY <1>1, <1>2 DEF Binds, CallsBack
<1>7. \A i \in 1..4 :
        p[i].do = "bind" \/ (Direct(r) /\ p[i].do \in Openings)
          \/ (p[i].do = "companion" /\ p[i].dir = "reader") =>
        \E j \in 1..(i - 1) : p[j].do = "group"
    BY <1>1, <1>2 DEF Direct
<1>8. \E t \in 1..4 :
        /\ p[t].do = "track"
        /\ \A i \in 1..4 : (p[i].do = "track" => i = t) /\ (p[i].do \in Openings => i < t)
    BY <1>1, <1>2 DEF Openings
<1> QED BY <1>1, <1>3, <1>4, <1>5, <1>6, <1>7, <1>8 DEF Shaped, p

\* The steps of an action's constructor: the group, then endpoints.
ActionTopicNames ==
    {"goal request", "goal reply", "result request", "result reply", "cancel request",
     "cancel reply", "feedback"}
StatusWriter(r) == Optional(Open("writer", <<r.topic, "status">>, "status"))
ActionEndpoints(r) ==
    {Open(dir, <<r.topic, n>>, r.type) : dir \in {"writer", "reader"}, n \in ActionTopicNames}
ActionSteps(r) == {Step("group"), StatusWriter(r)} \cup ActionEndpoints(r)
EndpointSteps(r, p) ==
    p \in Seq(ActionSteps(r)) /\ \A i \in 1..Len(p) : p[i].do \in {"open", "try"}
GroupThenEndpoints(r, p) ==
    /\ p \in Seq(ActionSteps(r)) /\ Len(p) >= 1
    /\ p[1].do = "group" /\ \A i \in 2..Len(p) : p[i].do \in {"open", "try"}

LEMMA MoreEndpoints ==
    ASSUME NEW r, NEW p, NEW q, GroupThenEndpoints(r, p), EndpointSteps(r, q)
    PROVE  GroupThenEndpoints(r, p \o q)
<1>1. /\ p \o q \in Seq(ActionSteps(r)) /\ Len(p \o q) = Len(p) + Len(q)
      /\ \A i \in 1..Len(p) + Len(q) : (p \o q)[i] = IF i <= Len(p) THEN p[i] ELSE q[i - Len(p)]
    BY ConcatProperties DEF GroupThenEndpoints, EndpointSteps
<1>2. Len(p) \in Nat /\ Len(q) \in Nat /\ Len(p) >= 1
    BY DEF GroupThenEndpoints, EndpointSteps
<1>3. (p \o q)[1].do = "group"
    BY <1>1, <1>2 DEF GroupThenEndpoints
<1>4. ASSUME NEW i \in 2..Len(p \o q) PROVE (p \o q)[i].do \in {"open", "try"}
    <2>1. CASE i <= Len(p)
        BY <1>1, <1>2, <2>1 DEF GroupThenEndpoints
    <2>2. CASE i > Len(p)
        BY <1>1, <1>2, <2>2 DEF EndpointSteps
    <2> QED BY <1>1, <1>2, <2>1, <2>2
<1> QED BY <1>1, <1>2, <1>3, <1>4 DEF GroupThenEndpoints

LEMMA TopicsAreEndpoints ==
    ASSUME NEW r, NEW dir \in {"writer", "reader"}, NEW names \in Seq(ActionTopicNames)
    PROVE  EndpointSteps(r, Topics(r, dir, names))
<1> DEFINE f == [i \in 1..Len(names) |-> Open(dir, <<r.topic, names[i]>>, r.type)]
<1>1. Topics(r, dir, names) = f /\ Len(names) \in Nat
    BY DEF Topics
<1>2. \A i \in 1..Len(names) : Open(dir, <<r.topic, names[i]>>, r.type) \in ActionSteps(r)
    <2>1. \A n \in ActionTopicNames : Open(dir, <<r.topic, n>>, r.type) \in ActionEndpoints(r)
        BY DEF ActionEndpoints
    <2> QED BY <2>1 DEF ActionSteps
<1>3. \A i \in 1..Len(names) : f[i].do = "open"
    BY DEF Open
<1>4. f \in [1..Len(names) -> ActionSteps(r)]
    BY <1>2
<1> HIDE DEF f
<1>5. f \in Seq(ActionSteps(r)) /\ Len(f) = Len(names)
    BY <1>1, <1>4
<1> QED BY <1>1, <1>3, <1>5 DEF EndpointSteps

LEMMA Single == ASSUME NEW S, NEW y \in S PROVE <<y>> \in Seq(S) /\ Len(<<y>>) = 1 /\ <<y>>[1] = y
    OBVIOUS

LEMMA GroupFirst == ASSUME NEW r PROVE GroupThenEndpoints(r, <<Step("group")>>)
<1> DEFINE g == Step("group")
<1>1. g \in ActionSteps(r) /\ g.do = "group"
    BY DEF ActionSteps, Step
<1> HIDE DEF g
<1>2. <<g>> \in Seq(ActionSteps(r)) /\ Len(<<g>>) = 1 /\ <<g>>[1] = g
    BY <1>1, Single
<1> QED BY <1>1, <1>2 DEF GroupThenEndpoints, g

LEMMA StatusAfter == ASSUME NEW r PROVE EndpointSteps(r, <<StatusWriter(r)>>)
<1>1. StatusWriter(r) \in ActionSteps(r)
    BY DEF ActionSteps
<1>2. StatusWriter(r).do = "try"
    BY DEF StatusWriter, Optional, Open
<1>3. LET s == <<StatusWriter(r)>>
      IN s \in Seq(ActionSteps(r)) /\ Len(s) = 1 /\ s[1] = StatusWriter(r)
    BY <1>1, Single
<1> QED BY <1>2, <1>3 DEF EndpointSteps

LEMMA NamesInSeq ==
    /\ <<"goal request", "result request", "cancel request">> \in Seq(ActionTopicNames)
    /\ <<"goal reply", "result reply", "feedback", "cancel reply">> \in Seq(ActionTopicNames)
    /\ <<"goal reply", "result reply", "feedback">> \in Seq(ActionTopicNames)
    /\ <<"cancel reply">> \in Seq(ActionTopicNames)
    BY DEF ActionTopicNames

LEMMA ActionShaped ==
    ASSUME NEW r, Direct(r), NEW p, GroupThenEndpoints(r, p)
    PROVE  Shaped(r, Append(p, Step("track")))
<1> DEFINE q == Append(p, Step("track"))
           n == Len(p)
<1>1. /\ n \in Nat /\ n >= 1 /\ p[1].do = "group" /\ \A i \in 2..n : p[i].do \in {"open", "try"}
      /\ p \in Seq(ActionSteps(r))
    BY DEF GroupThenEndpoints
<1>2. Len(q) = n + 1 /\ q[n + 1] = Step("track") /\ \A i \in 1..n : q[i] = p[i]
    BY <1>1
<1> HIDE DEF q, n
<1>3. /\ q[1].do = "group" /\ q[n + 1].do = "track"
      /\ \A i \in 1..(n + 1) : i = 1 \/ i = n + 1 \/ (i \in 2..n /\ q[i].do \in {"open", "try"})
    BY <1>1, <1>2 DEF Step
<1>4. ~Binds(r)
    BY DEF Binds, Direct
<1>5. \A i \in 2..(n + 1) : 1 \in 1..(i - 1)
    BY <1>1
<1>6. /\ \A i \in 1..(n + 1) : q[i].do \in Openings \cup {"group", "track", "bind"}
      /\ \A i \in 1..(n + 1) : q[i].do # "bind"
    BY <1>3 DEF Openings
<1>7. ASSUME NEW i \in 1..(n + 1), q[i].do \in Openings
      PROVE  i \in 2..n /\ q[i].do # "companion"
    BY <1>3, <1>7 DEF Openings
<1>8. \A i \in 1..(n + 1) : (q[i].do = "track" => i = n + 1) /\ (q[i].do \in Openings => i < n + 1)
    BY <1>1, <1>3, <1>7
<1>9. n + 1 \in 1..(n + 1) /\ n + 1 \in Nat
    BY <1>1
<1>10. \A i \in 1..(n + 1) : q[i].do \in Openings => \E j \in 1..(i - 1) : q[j].do = "group"
    BY <1>1, <1>3, <1>5, <1>7
<1>11. \A i \in 1..(n + 1) : q[i].do = "companion" => q[i].do \in Openings
    BY DEF Openings
<1> QED BY <1>2, <1>3, <1>4, <1>6, <1>8, <1>9, <1>10, <1>11 DEF Shaped, q

LEMMA ActionClientShaped ==
    ASSUME NEW r, r.kind = "action client" PROVE Shaped(r, CreateActionClient(r))
<1> DEFINE w == Topics(r, "writer", <<"goal request", "result request", "cancel request">>)
           d == Topics(r, "reader", <<"goal reply", "result reply", "feedback", "cancel reply">>)
           g == <<Step("group")>>
<1>1. GroupThenEndpoints(r, g)
    BY GroupFirst
<1>2. EndpointSteps(r, w) /\ EndpointSteps(r, d)
    BY NamesInSeq, TopicsAreEndpoints
<1>3. CreateActionClient(r) = Append((g \o w) \o d, Step("track"))
    BY DEF CreateActionClient, NewActionClient
<1> HIDE DEF w, d, g
<1>4. GroupThenEndpoints(r, (g \o w) \o d)
    BY <1>1, <1>2, MoreEndpoints
<1>5. Direct(r)
    BY DEF Direct
<1> QED BY <1>3, <1>4, <1>5, ActionShaped

LEMMA ActionServerShaped ==
    ASSUME NEW r, r.kind = "action server" PROVE Shaped(r, CreateActionServer(r))
<1> DEFINE w == Topics(r, "writer", <<"goal reply", "result reply", "feedback">>)
           o == <<StatusWriter(r)>>
           y == Topics(r, "writer", <<"cancel reply">>)
           d == Topics(r, "reader", <<"goal request", "result request", "cancel request">>)
           g == <<Step("group")>>
<1>1. GroupThenEndpoints(r, g)
    BY GroupFirst
<1>2. EndpointSteps(r, w) /\ EndpointSteps(r, y) /\ EndpointSteps(r, d)
    BY NamesInSeq, TopicsAreEndpoints
<1>3. EndpointSteps(r, o)
    BY StatusAfter
<1>4. CreateActionServer(r) = Append((((g \o w) \o o) \o y) \o d, Step("track"))
    BY DEF CreateActionServer, NewActionServer, StatusWriter
<1> HIDE DEF w, o, y, d, g
<1>5. GroupThenEndpoints(r, (((g \o w) \o o) \o y) \o d)
    BY <1>1, <1>2, <1>3, MoreEndpoints
<1>6. Direct(r)
    BY DEF Direct
<1> QED BY <1>4, <1>5, <1>6, ActionShaped

LEMMA PlansShaped == ASSUME NEW r, r.kind \in Makeable PROVE Shaped(r, Plan(r))
    BY PublisherShaped, SubscriptionShaped, ClientShaped, ServiceShaped, TimerShaped,
       ActionServerShaped, ActionClientShaped DEF Plan, Makeable

\* A call is in its plan, what is open was opened by a step of it, and past the
\* step that does it its entity is in a group, until destroy_node empties those.
PlaceInv ==
    /\ \A c \in CreateCalls : asked[c].kind \in Makeable
    /\ step \in [CreateCalls -> Nat]
    /\ outcome \in [CreateCalls -> {"new", "running", "returned", "raised"}]
    /\ \A c \in CreateCalls :
         /\ step[c] <= Len(ThePlan(c))
         /\ outcome[c] = "new" => step[c] = 0
         /\ outcome[c] = "running" => step[c] >= 1
         /\ outcome[c] = "returned" => step[c] = Len(ThePlan(c))
    /\ \A e \in open :
         /\ e.call \in CreateCalls /\ e.at \in 1..step[e.call]
         /\ ThePlan(e.call)[e.at].do \in Openings
    /\ \A c \in CreateCalls : \A j \in 1..(step[c] - 1) :
         ThePlan(c)[j].do = "group" => c \in grouped \/ nodeGone
    /\ torn => nodeGone

\* A step of call c and of no other: it begins, stays, goes on or gives up.
Goes(c) ==
    /\ asked' = asked
    /\ step' \in [CreateCalls -> Nat]
    /\ outcome' \in [CreateCalls -> {"new", "running", "returned", "raised"}]
    /\ \A d \in CreateCalls : d # c => step'[d] = step[d] /\ outcome'[d] = outcome[d]
    /\ \/ outcome'[c] = outcome[c] /\ step'[c] = step[c]
       \/ outcome[c] = "new" /\ outcome'[c] = "running" /\ step'[c] = 1
       \/ outcome'[c] = "raised" /\ step'[c] = step[c]
       \/ /\ outcome[c] = "running"
          /\ IF step[c] = Len(ThePlan(c)) THEN outcome'[c] = "returned" /\ step'[c] = step[c]
             ELSE outcome'[c] = "running" /\ step'[c] = step[c] + 1

LEMMA ShapedPlans ==
    ASSUME PlaceInv, NEW c \in CreateCalls
    PROVE  /\ Shaped(asked[c], ThePlan(c)) /\ Len(ThePlan(c)) \in Nat /\ Len(ThePlan(c)) >= 1
           /\ outcome[c] = "running" => step[c] \in 1..Len(ThePlan(c))
<1>1. Shaped(asked[c], ThePlan(c))
    BY PlansShaped DEF PlaceInv, ThePlan
<1>2. Len(ThePlan(c)) \in Nat /\ Len(ThePlan(c)) >= 1
    BY <1>1 DEF Shaped
<1>3. outcome[c] = "running" => step[c] \in 1..Len(ThePlan(c))
    BY <1>2 DEF PlaceInv
<1> QED BY <1>1, <1>2, <1>3

LEMMA PlansStay == asked' = asked => \A c : ThePlan(c)' = ThePlan(c)
    BY DEF ThePlan

LEMMA AdvanceGoes ==
    ASSUME PlaceInv, NEW c \in CreateCalls, outcome[c] = "running", Advance(c)
    PROVE  Goes(c)
<1>1. /\ step \in [CreateCalls -> Nat]
      /\ outcome \in [CreateCalls -> {"new", "running", "returned", "raised"}]
    BY DEF PlaceInv
<1>2. CASE step[c] = Len(ThePlan(c))
    <2>1. outcome' = [outcome EXCEPT ![c] = "returned"] /\ UNCHANGED <<step, asked>>
        BY <1>2 DEF Advance
    <2> QED BY <1>1, <1>2, <2>1 DEF Goes
<1>3. CASE step[c] # Len(ThePlan(c))
    <2>1. step' = [step EXCEPT ![c] = step[c] + 1] /\ UNCHANGED <<outcome, asked>>
        BY <1>3 DEF Advance
    <2>2. step' \in [CreateCalls -> Nat] /\ step'[c] = step[c] + 1
        BY <1>1, <2>1
    <2>3. \A d \in CreateCalls : d # c => step'[d] = step[d]
        BY <1>1, <2>1
    <2> QED BY <1>1, <1>3, <2>1, <2>2, <2>3 DEF Goes
<1> QED BY <1>2, <1>3

LEMMA RaiseGoes ==
    ASSUME PlaceInv, NEW c \in CreateCalls, Raise(c)
    PROVE  Goes(c) /\ outcome'[c] = "raised" /\ step' = step
    BY DEF PlaceInv, Raise, Goes

LEMMA FailGoes ==
    ASSUME PlaceInv, NEW c \in CreateCalls, outcome[c] = "running", Fail(c)
    PROVE  Goes(c)
    BY AdvanceGoes, RaiseGoes DEF Fail

LEMMA StayGoes ==
    ASSUME PlaceInv, NEW c \in CreateCalls, UNCHANGED <<asked, step, outcome>>
    PROVE  Goes(c)
    BY DEF PlaceInv, Goes

LEMMA GoesPlace ==
    ASSUME PlaceInv, NEW c \in CreateCalls, Goes(c),
           \A e \in open' \ open :
             /\ e.call = c /\ e.at = step[c] /\ outcome[c] = "running"
             /\ ThePlan(c)[step[c]].do \in Openings,
           grouped \subseteq grouped' \/ nodeGone',
           nodeGone => nodeGone', torn' => nodeGone',
           step'[c] = step[c] + 1 /\ outcome[c] = "running" /\ ThePlan(c)[step[c]].do = "group" => c \in grouped'
    PROVE  PlaceInv'
<1>1. \A d \in CreateCalls : ThePlan(d)' = ThePlan(d) /\ asked'[d] = asked[d]
    BY PlansStay DEF Goes
<1>2. /\ step \in [CreateCalls -> Nat] /\ step' \in [CreateCalls -> Nat]
      /\ outcome' \in [CreateCalls -> {"new", "running", "returned", "raised"}]
    BY DEF PlaceInv, Goes
<1>3. \A d \in CreateCalls : step[d] <= step'[d]
    BY <1>2 DEF Goes, PlaceInv
<1>4. Len(ThePlan(c)) \in Nat /\ Len(ThePlan(c)) >= 1
    BY ShapedPlans
<1>5. ASSUME NEW d \in CreateCalls
      PROVE  /\ step'[d] <= Len(ThePlan(d))
             /\ outcome'[d] = "new" => step'[d] = 0
             /\ outcome'[d] = "running" => step'[d] >= 1
             /\ outcome'[d] = "returned" => step'[d] = Len(ThePlan(d))
    BY <1>2, <1>4 DEF PlaceInv, Goes
<1>6. ASSUME NEW e \in open'
      PROVE  /\ e.call \in CreateCalls /\ e.at \in 1..step'[e.call]
             /\ ThePlan(e.call)[e.at].do \in Openings
    <2>1. CASE e \in open
        BY <1>2, <1>3, <2>1 DEF PlaceInv
    <2>2. CASE e \notin open
        BY <1>2, <1>3, <2>2 DEF PlaceInv
    <2> QED BY <2>1, <2>2
<1>7. ASSUME NEW d \in CreateCalls, NEW j \in 1..(step'[d] - 1), ThePlan(d)[j].do = "group"
      PROVE  d \in grouped' \/ nodeGone'
    <2>1. CASE j \in 1..(step[d] - 1)
        BY <1>7, <2>1 DEF PlaceInv
    <2>2. CASE j \notin 1..(step[d] - 1)
        <3>1. d = c /\ outcome[c] = "running" /\ step'[c] = step[c] + 1 /\ j = step[c]
            BY <1>2, <1>7, <2>2 DEF Goes, PlaceInv
        <3> QED BY <1>7, <3>1
    <2> QED BY <2>1, <2>2
<1> QED BY <1>1, <1>2, <1>5, <1>6, <1>7 DEF PlaceInv

LEMMA BeginGoes ==
    ASSUME PlaceInv, NEW c \in CreateCalls, Begin(c)
    PROVE  Goes(c) /\ outcome[c] = "new" /\ step[c] = 0 /\ outcome'[c] # "new" /\ step'[c] \in 0..1
<1>1. outcome[c] = "new" /\ step[c] = 0
    BY DEF Begin, PlaceInv
<1>2. CASE nodeGone
    <2>1. Goes(c) /\ outcome'[c] = "raised" /\ step' = step
        BY <1>2, RaiseGoes DEF Begin
    <2> QED BY <1>1, <2>1
<1>3. CASE ~nodeGone
    <2>1. /\ asked' = asked /\ outcome' = [outcome EXCEPT ![c] = "running"]
          /\ step' = [step EXCEPT ![c] = 1]
        BY <1>3 DEF Begin
    <2>2. /\ step \in [CreateCalls -> Nat]
          /\ outcome \in [CreateCalls -> {"new", "running", "returned", "raised"}]
        BY DEF PlaceInv
    <2>3. outcome'[c] = "running" /\ step'[c] = 1
        BY <2>1, <2>2
    <2>4. \A d \in CreateCalls : d # c => step'[d] = step[d] /\ outcome'[d] = outcome[d]
        BY <2>1, <2>2
    <2>5. step' \in [CreateCalls -> Nat] /\ outcome' \in [CreateCalls -> {"new", "running", "returned", "raised"}]
        BY <2>1, <2>2
    <2> QED BY <1>1, <2>1, <2>3, <2>4, <2>5 DEF Goes
<1> QED BY <1>2, <1>3

\* What each step of a call does for its place.
LEMMA PlaceStep == PlaceInv /\ [MakingNext]_makingVars => PlaceInv'
<1> SUFFICES ASSUME PlaceInv, [MakingNext]_makingVars PROVE PlaceInv'
    OBVIOUS
<1>t. torn => nodeGone
    BY DEF PlaceInv
<1>s. ASSUME NEW c \in CreateCalls, At(c, {"open", "try", "companion", "start", "track", "bind"})
      PROVE  outcome[c] = "running" /\ Now(c).do # "group"
    BY <1>s DEF At
<1>1. ASSUME NEW c \in CreateCalls, Begin(c) PROVE PlaceInv'
    <2>1. outcome[c] # "running" /\ UNCHANGED <<open, grouped, nodeGone, torn>>
        BY <1>1 DEF Begin, dds, knownVars, node
    <2>2. Goes(c)
        BY <1>1, BeginGoes
    <2> QED BY <1>t, <2>1, <2>2, GoesPlace
<1>2. ASSUME NEW c \in CreateCalls, ShareCompanion(c) \/ Bound(c) PROVE PlaceInv'
    <2>1. /\ outcome[c] = "running" /\ Now(c).do # "group" /\ Advance(c)
          /\ UNCHANGED <<open, grouped, nodeGone, torn>>
        BY <1>2 DEF ShareCompanion, Bound, At, dds, knownVars, node
    <2> QED BY <1>t, <2>1, AdvanceGoes, GoesPlace DEF Now
<1>3. ASSUME NEW c \in CreateCalls, NodeTopic(c) \/ Bind(c) \/ Flush(c) PROVE PlaceInv'
    <2>1. UNCHANGED <<asked, step, outcome, open, grouped, nodeGone, torn>>
        BY <1>3 DEF NodeTopic, Bind, Flush, callers, dds, knownVars, node
    <2> QED BY <2>1 DEF PlaceInv, ThePlan
<1>4. ASSUME NEW c \in CreateCalls, FindTopic(c) PROVE PlaceInv'
    <2>1. /\ outcome[c] = "running" /\ Now(c).do # "group"
          /\ Fail(c) \/ UNCHANGED <<asked, step, outcome>>
          /\ UNCHANGED <<open, grouped, nodeGone, torn>>
        BY <1>4 DEF FindTopic, At, knownVars, node
    <2> QED BY <1>t, <2>1, FailGoes, StayGoes, GoesPlace DEF Now
<1>5. ASSUME NEW c \in CreateCalls, OpenEndpoint(c) PROVE PlaceInv'
    <2>1. /\ outcome[c] = "running" /\ Now(c).do \in {"open", "try"}
          /\ Fail(c) \/ Advance(c)
          /\ open' \subseteq open \cup {Endpoint(c)} /\ UNCHANGED <<grouped, nodeGone, torn>>
        BY <1>5 DEF OpenEndpoint, At, knownVars, node
    <2>2. \A e \in open' \ open : e.call = c /\ e.at = step[c]
        BY <2>1 DEF Endpoint
    <2> QED BY <1>t, <2>1, <2>2, FailGoes, AdvanceGoes, GoesPlace DEF Now, Openings
<1>6. ASSUME NEW c \in CreateCalls, OpenCompanion(c) \/ Start(c) PROVE PlaceInv'
    <2>1. /\ outcome[c] = "running" /\ Now(c).do \in {"companion", "start"} /\ Advance(c)
          /\ open' \subseteq open \cup {Endpoint(c)} /\ UNCHANGED <<grouped, nodeGone, torn>>
        BY <1>6 DEF OpenCompanion, Start, At, knownVars, node
    <2>2. \A e \in open' \ open : e.call = c /\ e.at = step[c]
        BY <2>1 DEF Endpoint
    <2> QED BY <1>t, <2>1, <2>2, AdvanceGoes, GoesPlace DEF Now, Openings
<1>7. ASSUME NEW c \in CreateCalls, Group(c) PROVE PlaceInv'
    <2>1. /\ outcome[c] = "running" /\ Advance(c) /\ grouped' = grouped \cup {c}
          /\ UNCHANGED <<open, nodeGone, torn>>
        BY <1>7 DEF Group, At, dds, node
    <2> QED BY <1>t, <2>1, AdvanceGoes, GoesPlace
<1>8. ASSUME NEW c \in CreateCalls, Track(c) PROVE PlaceInv'
    <2>1. /\ outcome[c] = "running" /\ Now(c).do # "group"
          /\ Raise(c) \/ Advance(c)
          /\ open' \subseteq open /\ UNCHANGED <<grouped, nodeGone, torn>>
        BY <1>8 DEF Track, At, node
    <2> QED BY <1>t, <2>1, RaiseGoes, AdvanceGoes, GoesPlace DEF Now
<1>9. ASSUME NEW c \in CreateCalls, EnqueueOrHold(c) \/ EnqueueMetadata(c) PROVE PlaceInv'
    <2>1. UNCHANGED <<asked, step, outcome, open, grouped, nodeGone, torn>>
        BY <1>9 DEF EnqueueOrHold, EnqueueMetadata, callers, dds, knownVars, node
    <2> QED BY <2>1 DEF PlaceInv, ThePlan
<1>10. ASSUME NEW item \in passing, Pass(item) PROVE PlaceInv'
    <2>1. UNCHANGED <<asked, step, outcome, open, grouped, nodeGone, torn>>
        BY <1>10 DEF Pass, callers, dds, knownVars, node
    <2> QED BY <2>1 DEF PlaceInv, ThePlan
<1>11. CASE MarkDestroyed
    <2>1. UNCHANGED <<asked, step, outcome, open, grouped, torn>> /\ nodeGone'
        BY <1>11 DEF MarkDestroyed, callers, dds, knownVars
    <2> QED BY <2>1 DEF PlaceInv, ThePlan
<1>12. CASE CloseTracked
    <2>1. /\ UNCHANGED <<asked, step, outcome>> /\ nodeGone' /\ open' \subseteq open
        BY <1>12 DEF CloseTracked, callers
    <2> QED BY <2>1 DEF PlaceInv, ThePlan
<1>13. CASE UNCHANGED makingVars
    <2>1. UNCHANGED <<asked, step, outcome, open, grouped, nodeGone, torn>>
        BY <1>13 DEF makingVars, callers, dds, knownVars, node
    <2> QED BY <2>1 DEF PlaceInv, ThePlan
<1> QED BY <1>1, <1>2, <1>3, <1>4, <1>5, <1>6, <1>7, <1>8, <1>9, <1>10, <1>11, <1>12, <1>13 DEF MakingNext
-----------------------------------------------------------------------------
(* What is left open.                                                        *)

WasTracked(c) ==
    \E j \in 1..Len(ThePlan(c)) :
      ThePlan(c)[j].do = "track" /\ (j < step[c] \/ outcome[c] = "returned")

\* The node lists an entity once it is tracked, and its companions one by one; a
\* call that raised without a failure of its own has nothing open but those; and
\* what destroy_node has gone through is not open again.
LeftInv ==
    /\ \A c \in CreateCalls :
         /\ <<c, 0>> \in listed => WasTracked(c)
         /\ outcome[c] \in {"running", "returned"} /\ WasTracked(c) => <<c, 0>> \in listed
         /\ \A i \in 1..Len(ThePlan(c)) : <<c, i>> \in listed => ThePlan(c)[i].do = "companion"
    /\ \A e \in open :
         /\ ThePlan(e.call)[e.at].do = "companion" => <<e.call, e.at>> \in listed
         /\ ThePlan(e.call)[e.at].do # "companion" =>
              outcome[e.call] # "raised" \/ e.call \in failed
         /\ torn => ThePlan(e.call)[e.at].do # "companion" /\ <<e.call, 0>> \notin listed

\* A call opens before it is tracked, and is tracked by that step alone.
LEMMA TrackedOnce ==
    ASSUME PlaceInv, NEW c \in CreateCalls, outcome[c] = "running"
    PROVE  /\ Now(c).do \in Openings \cup {"track"} => ~WasTracked(c)
           /\ Goes(c) /\ outcome'[c] # "raised" =>
                (WasTracked(c)' <=> WasTracked(c) \/ (Now(c).do = "track" /\ <<step, outcome>>' # <<step, outcome>>))
<1> DEFINE p == ThePlan(c)
           n == Len(p)
<1>1. Shaped(asked[c], p) /\ n \in Nat /\ step[c] \in 1..n
    BY ShapedPlans
<1> HIDE DEF p, n
<1>2. PICK t \in 1..n :
        /\ p[t].do = "track"
        /\ \A i \in 1..n : (p[i].do = "track" => i = t) /\ (p[i].do \in Openings => i < t)
    BY <1>1 DEF Shaped, n
<1>3. WasTracked(c) <=> t < step[c]
    BY <1>2 DEF WasTracked, p, n
<1>4. Now(c).do \in Openings \cup {"track"} => ~(t < step[c])
    BY <1>1, <1>2 DEF Now, p
<1>5. ASSUME Goes(c), outcome'[c] # "raised"
      PROVE  WasTracked(c)' <=> WasTracked(c) \/ (Now(c).do = "track" /\ <<step, outcome>>' # <<step, outcome>>)
    <2>1. ThePlan(c)' = p
        BY <1>5, PlansStay DEF Goes, p
    <2>2. WasTracked(c)' <=> t < step'[c] \/ outcome'[c] = "returned"
        BY <1>2, <2>1 DEF WasTracked, p, n
    <2>3. Now(c).do = "track" <=> step[c] = t
        BY <1>1, <1>2 DEF Now, p
    <2>4. CASE outcome'[c] = outcome[c] /\ step'[c] = step[c]
        <3>1. step' = step /\ outcome' = outcome
            BY <1>5, <2>4 DEF Goes, PlaceInv
        <3> QED BY <1>3, <2>2, <2>4, <3>1
    <2>5. CASE ~(outcome'[c] = outcome[c] /\ step'[c] = step[c])
        <3>1. <<step, outcome>>' # <<step, outcome>>
            BY <2>5
        <3>2. IF step[c] = n THEN outcome'[c] = "returned" /\ step'[c] = step[c]
              ELSE outcome'[c] = "running" /\ step'[c] = step[c] + 1
            BY <1>5, <2>5 DEF Goes, p, n
        <3>3. t < step'[c] \/ outcome'[c] = "returned" <=> t < step[c] \/ step[c] = t
            BY <1>1, <1>2, <3>2
        <3> QED BY <1>3, <2>2, <2>3, <3>1, <3>3
    <2> QED BY <2>4, <2>5
<1> QED BY <1>3, <1>4, <1>5

LEMMA OthersTracked ==
    ASSUME NEW c \in CreateCalls, Goes(c), NEW d \in CreateCalls, d # c
    PROVE  WasTracked(d)' <=> WasTracked(d)
<1>1. ThePlan(d)' = ThePlan(d) /\ step'[d] = step[d] /\ outcome'[d] = outcome[d]
    BY PlansStay DEF Goes
<1> QED BY <1>1 DEF WasTracked

LEMMA GoesLeft ==
    ASSUME PlaceInv, PlaceInv', LeftInv, NEW c \in CreateCalls, Goes(c),
           failed \subseteq failed', torn' = torn, listed \subseteq listed',
           torn => listed' = listed,
           \A l \in listed' \ listed :
             \/ l = <<c, 0>>
             \/ l = <<c, step[c]>> /\ outcome[c] = "running" /\ Now(c).do = "companion",
           <<c, 0>> \in listed' => WasTracked(c)',
           outcome'[c] \in {"running", "returned"} /\ WasTracked(c)' => <<c, 0>> \in listed',
           \A e \in open' \ open :
             /\ e.call = c /\ e.at = step[c] /\ outcome[c] = "running" /\ outcome'[c] # "raised"
             /\ Now(c).do \in Openings
             /\ Now(c).do = "companion" => <<c, step[c]>> \in listed' /\ ~torn,
           outcome'[c] = "raised" =>
             \/ outcome[c] = "raised" \/ c \in failed'
             \/ \A e \in open' : e.call = c => ThePlan(c)[e.at].do = "companion"
    PROVE  LeftInv'
<1>1. \A d \in CreateCalls : ThePlan(d)' = ThePlan(d)
    BY PlansStay DEF Goes
<1>2. ASSUME NEW d \in CreateCalls
      PROVE  /\ <<d, 0>> \in listed' => WasTracked(d)'
             /\ outcome'[d] \in {"running", "returned"} /\ WasTracked(d)' => <<d, 0>> \in listed'
    <2>1. CASE d = c
        BY <2>1
    <2>2. CASE d # c
        <3>1. (WasTracked(d)' <=> WasTracked(d)) /\ outcome'[d] = outcome[d]
            BY <2>2, OthersTracked DEF Goes
        <3>2. <<d, 0>> \in listed' => <<d, 0>> \in listed
            BY <2>2
        <3> QED BY <3>1, <3>2 DEF LeftInv
    <2> QED BY <2>1, <2>2
<1>3. ASSUME NEW d \in CreateCalls, NEW i \in 1..Len(ThePlan(d)), <<d, i>> \in listed'
      PROVE  ThePlan(d)[i].do = "companion"
    <2>1. CASE <<d, i>> \in listed
        BY <2>1 DEF LeftInv
    <2>2. CASE <<d, i>> \notin listed
        <3>1. i # 0
            OBVIOUS
        <3>2. d = c /\ i = step[c] /\ Now(c).do = "companion"
            BY <1>3, <2>2, <3>1
        <3> QED BY <3>2 DEF Now
    <2> QED BY <2>1, <2>2
<1>4. ASSUME NEW e \in open'
      PROVE  /\ ThePlan(e.call)[e.at].do = "companion" => <<e.call, e.at>> \in listed'
             /\ ThePlan(e.call)[e.at].do # "companion" =>
                  outcome'[e.call] # "raised" \/ e.call \in failed'
             /\ torn => ThePlan(e.call)[e.at].do # "companion" /\ <<e.call, 0>> \notin listed'
    <2>1. CASE e \in open
        <3>1. outcome'[e.call] = "raised" /\ outcome[e.call] # "raised" => e.call = c
            BY <2>1 DEF Goes, PlaceInv
        <3> QED BY <2>1, <3>1 DEF LeftInv
    <2>2. CASE e \notin open
        <3>1. /\ e.call = c /\ e.at = step[c] /\ outcome[c] = "running" /\ outcome'[c] # "raised"
              /\ Now(c).do \in Openings /\ ThePlan(e.call)[e.at].do = Now(c).do
              /\ Now(c).do = "companion" => <<c, step[c]>> \in listed' /\ ~torn
            BY <2>2 DEF Now
        <3>2. ~WasTracked(c)
            BY <3>1, TrackedOnce
        <3>3. <<c, 0>> \notin listed
            BY <3>2 DEF LeftInv
        <3> QED BY <3>1, <3>3
    <2> QED BY <2>1, <2>2
<1>5. \A e \in open' : e.call \in CreateCalls
    BY DEF PlaceInv
<1> QED BY <1>1, <1>2, <1>3, <1>4, <1>5 DEF LeftInv

\* Whether a call is tracked, before and after a step that is none of Track's.
LEMMA TrackedStays ==
    ASSUME PlaceInv, LeftInv, NEW c \in CreateCalls, Goes(c), listed' \ {<<c, step[c]>>} \subseteq listed,
           outcome[c] = "running", Now(c).do # "track",
           outcome'[c] = "raised" => Now(c).do \in Openings
    PROVE  /\ <<c, 0>> \in listed' => WasTracked(c)'
           /\ outcome'[c] \in {"running", "returned"} /\ WasTracked(c)' => <<c, 0>> \in listed
<1>1. step[c] >= 1 /\ <<c, 0>> # <<c, step[c]>>
    BY DEF PlaceInv
<1>2. <<c, 0>> \in listed' => WasTracked(c)
    BY <1>1 DEF LeftInv
<1>3. CASE outcome'[c] = "raised"
    <2>1. ~WasTracked(c)
        BY <1>3, TrackedOnce
    <2> QED BY <1>2, <1>3, <2>1
<1>4. CASE outcome'[c] # "raised"
    <2>1. WasTracked(c)' <=> WasTracked(c)
        BY <1>4, TrackedOnce
    <2> QED BY <1>2, <2>1 DEF LeftInv
<1> QED BY <1>3, <1>4

LEMMA LeftStays ==
    ASSUME LeftInv, UNCHANGED <<asked, step, outcome, open, listed, torn, failed>>
    PROVE  LeftInv'
<1>1. \A c : ThePlan(c)' = ThePlan(c) /\ (WasTracked(c)' <=> WasTracked(c))
    BY DEF ThePlan, WasTracked
<1> QED BY <1>1 DEF LeftInv

LEMMA LeftStep == PlaceInv /\ PlaceInv' /\ LeftInv /\ [MakingNext]_makingVars => LeftInv'
<1> SUFFICES ASSUME PlaceInv, PlaceInv', LeftInv, [MakingNext]_makingVars PROVE LeftInv'
    OBVIOUS
<1>t. torn => nodeGone
    BY DEF PlaceInv
<1>1. ASSUME NEW c \in CreateCalls, Begin(c) PROVE LeftInv'
    <2>1. UNCHANGED <<open, listed, torn, failed>>
        BY <1>1 DEF Begin, dds, knownVars, node
    <2>2. /\ Goes(c) /\ outcome[c] = "new" /\ step[c] = 0
          /\ outcome'[c] \in {"running", "raised"} /\ step'[c] \in 0..1
        BY <1>1, BeginGoes DEF Goes
    <2>3. ~WasTracked(c) /\ ~WasTracked(c)'
        BY <2>2 DEF WasTracked
    <2>4. \A e \in open' : e.call # c
        <3>1. \A e \in open : e.at \in 1..step[e.call]
            BY DEF PlaceInv
        <3>2. \A i : i \notin 1..0
            OBVIOUS
        <3> QED BY <2>1, <2>2, <3>1, <3>2
    <2>5. <<c, 0>> \notin listed
        BY <2>3 DEF LeftInv
    <2> QED BY <2>1, <2>2, <2>3, <2>4, <2>5, GoesLeft
<1>2. ASSUME NEW c \in CreateCalls, ShareCompanion(c) \/ Bound(c) \/ Group(c) PROVE LeftInv'
    <2>1. /\ outcome[c] = "running" /\ Now(c).do # "track" /\ Advance(c)
          /\ UNCHANGED <<open, listed, torn, failed>>
        BY <1>2 DEF ShareCompanion, Bound, Group, At, dds, knownVars, node
    <2>2. Goes(c) /\ outcome'[c] # "raised"
        BY <2>1, AdvanceGoes DEF Advance, PlaceInv
    <2>3. (<<c, 0>> \in listed' => WasTracked(c)')
          /\ (outcome'[c] \in {"running", "returned"} /\ WasTracked(c)' => <<c, 0>> \in listed)
        BY <2>1, <2>2, TrackedStays
    <2> QED BY <2>1, <2>2, <2>3, GoesLeft
<1>3. ASSUME NEW c \in CreateCalls, FindTopic(c) PROVE LeftInv'
    <2>1. /\ outcome[c] = "running" /\ Now(c).do \in {"open", "try", "companion"}
          /\ Fail(c) \/ UNCHANGED <<asked, step, outcome, failed>>
          /\ UNCHANGED <<open, listed, torn>>
        BY <1>3 DEF FindTopic, At, knownVars, node
    <2>2. CASE UNCHANGED <<asked, step, outcome, failed>>
        BY <2>1, <2>2, LeftStays
    <2>3. CASE Fail(c)
        <3>1. Goes(c)
            BY <2>1, <2>3, FailGoes
        <3>2. failed \subseteq failed' /\ (outcome'[c] = "raised" => c \in failed')
            BY <2>1, <2>3 DEF Fail, Advance, PlaceInv
        <3>3. (<<c, 0>> \in listed' => WasTracked(c)')
              /\ (outcome'[c] \in {"running", "returned"} /\ WasTracked(c)' => <<c, 0>> \in listed)
            BY <2>1, <3>1, TrackedStays DEF Openings
        <3> QED BY <2>1, <3>1, <3>2, <3>3, GoesLeft
    <2> QED BY <2>1, <2>2, <2>3
<1>4. ASSUME NEW c \in CreateCalls, OpenEndpoint(c) PROVE LeftInv'
    <2>1. /\ outcome[c] = "running" /\ Now(c).do \in {"open", "try"}
          /\ \/ open' = open \cup {Endpoint(c)} /\ Advance(c) /\ UNCHANGED failed
             \/ Fail(c) /\ UNCHANGED open
          /\ UNCHANGED <<listed, torn>>
        BY <1>4 DEF OpenEndpoint, At, knownVars, node
    <2>2. Goes(c)
        BY <2>1, FailGoes, AdvanceGoes
    <2>3. failed \subseteq failed' /\ (outcome'[c] = "raised" => c \in failed' /\ open' = open)
        BY <2>1 DEF Fail, Advance, PlaceInv
    <2>4. \A e \in open' \ open : e.call = c /\ e.at = step[c] /\ outcome'[c] # "raised"
        BY <2>1, <2>3 DEF Endpoint
    <2>5. (<<c, 0>> \in listed' => WasTracked(c)')
          /\ (outcome'[c] \in {"running", "returned"} /\ WasTracked(c)' => <<c, 0>> \in listed)
        BY <2>1, <2>2, TrackedStays DEF Openings
    <2>6. Now(c).do \in Openings /\ Now(c).do # "companion"
        BY <2>1 DEF Openings
    <2> QED BY <2>1, <2>2, <2>3, <2>4, <2>5, <2>6, GoesLeft
<1>5. ASSUME NEW c \in CreateCalls, OpenCompanion(c) PROVE LeftInv'
    <2>1. /\ outcome[c] = "running" /\ Now(c).do = "companion" /\ Advance(c)
          /\ \/ ~nodeGone /\ open' = open \cup {Endpoint(c)} /\ listed' = listed \cup {<<c, step[c]>>}
             \/ UNCHANGED <<open, listed>>
          /\ UNCHANGED <<torn, failed>>
        BY <1>5 DEF OpenCompanion, At, node
    <2>2. Goes(c) /\ outcome'[c] # "raised"
        BY <2>1, AdvanceGoes DEF Advance, PlaceInv
    <2>3. \A e \in open' \ open :
            e.call = c /\ e.at = step[c] /\ <<c, step[c]>> \in listed' /\ ~nodeGone
        BY <2>1 DEF Endpoint
    <2>4. /\ listed \subseteq listed' /\ (nodeGone => listed' = listed)
          /\ \A l \in listed' \ listed : l = <<c, step[c]>>
          /\ listed' \ {<<c, step[c]>>} \subseteq listed
        BY <2>1
    <2>5. (<<c, 0>> \in listed' => WasTracked(c)')
          /\ (outcome'[c] \in {"running", "returned"} /\ WasTracked(c)' => <<c, 0>> \in listed)
        BY <2>1, <2>2, <2>4, TrackedStays
    <2>6. Now(c).do \in Openings
        BY <2>1 DEF Openings
    <2> QED BY <1>t, <2>1, <2>2, <2>3, <2>4, <2>5, <2>6, GoesLeft
<1>6. ASSUME NEW c \in CreateCalls, Start(c) PROVE LeftInv'
    <2>1. /\ outcome[c] = "running" /\ Now(c).do = "start" /\ Advance(c)
          /\ open' = open \cup {Endpoint(c)} /\ UNCHANGED <<listed, torn, failed>>
        BY <1>6 DEF Start, At, knownVars, node
    <2>2. Goes(c) /\ outcome'[c] # "raised"
        BY <2>1, AdvanceGoes DEF Advance, PlaceInv
    <2>3. \A e \in open' \ open : e.call = c /\ e.at = step[c]
        BY <2>1 DEF Endpoint
    <2>4. (<<c, 0>> \in listed' => WasTracked(c)')
          /\ (outcome'[c] \in {"running", "returned"} /\ WasTracked(c)' => <<c, 0>> \in listed)
        BY <2>1, <2>2, TrackedStays
    <2>5. Now(c).do \in Openings /\ Now(c).do # "companion"
        BY <2>1 DEF Openings
    <2> QED BY <2>1, <2>2, <2>3, <2>4, <2>5, GoesLeft
<1>7. ASSUME NEW c \in CreateCalls, Track(c) PROVE LeftInv'
    <2>1. outcome[c] = "running" /\ Now(c).do = "track" /\ UNCHANGED <<torn, failed>>
        BY <1>7 DEF Track, At, node
    <2>2. ~WasTracked(c)
        BY <2>1, TrackedOnce
    <2>3. CASE nodeGone
        <3>1. open' = open \ Endpoints(c) /\ Raise(c) /\ UNCHANGED listed
            BY <1>7, <2>3 DEF Track
        <3>2. Goes(c) /\ outcome'[c] = "raised"
            BY <3>1, RaiseGoes
        <3>3. \A e \in open' : e.call = c => ThePlan(c)[e.at].do = "companion"
            BY <3>1 DEF Endpoints
        <3>4. <<c, 0>> \notin listed'
            BY <2>2, <3>1 DEF LeftInv
        <3> QED BY <2>1, <3>1, <3>2, <3>3, <3>4, GoesLeft
    <2>4. CASE ~nodeGone
        <3>1. listed' = listed \cup {<<c, 0>>} /\ Advance(c) /\ UNCHANGED open
            BY <1>7, <2>4 DEF Track
        <3>2. Goes(c) /\ outcome'[c] # "raised"
            BY <2>1, <3>1, AdvanceGoes DEF Advance, PlaceInv
        <3>p. <<step, outcome>>' # <<step, outcome>>
            <4>1. step'[c] = step[c] + 1 \/ outcome'[c] = "returned"
                BY <3>1 DEF Advance, PlaceInv
            <4>2. step[c] \in Nat
                BY DEF PlaceInv
            <4>3. step'[c] # step[c] \/ outcome'[c] # outcome[c]
                BY <2>1, <4>1, <4>2
            <4> QED BY <4>3
        <3>3. WasTracked(c)'
            BY <2>1, <3>2, <3>p, TrackedOnce
        <3> QED BY <1>t, <2>1, <2>4, <3>1, <3>2, <3>3, GoesLeft
    <2> QED BY <2>3, <2>4
<1>8. ASSUME NEW c \in CreateCalls,
             NodeTopic(c) \/ Bind(c) \/ Flush(c) \/ EnqueueOrHold(c) \/ EnqueueMetadata(c)
      PROVE  LeftInv'
    <2>1. UNCHANGED <<asked, step, outcome, open, listed, torn, failed>>
        BY <1>8 DEF NodeTopic, Bind, Flush, EnqueueOrHold, EnqueueMetadata, callers, dds, knownVars, node
    <2> QED BY <2>1, LeftStays
<1>9. ASSUME NEW item \in passing, Pass(item) PROVE LeftInv'
    <2>1. UNCHANGED <<asked, step, outcome, open, listed, torn, failed>>
        BY <1>9 DEF Pass, callers, dds, knownVars, node
    <2> QED BY <2>1, LeftStays
<1>10. CASE MarkDestroyed
    <2>1. UNCHANGED <<asked, step, outcome, open, listed, torn, failed>>
        BY <1>10 DEF MarkDestroyed, callers, dds, knownVars
    <2> QED BY <2>1, LeftStays
<1>11. CASE CloseTracked
    <2>1. /\ UNCHANGED <<asked, step, outcome, listed, failed>>
          /\ open' = {e \in open : /\ <<e.call, e.at>> \notin listed
                                   /\ e \in Endpoints(e.call) => <<e.call, 0>> \notin listed}
        BY <1>11 DEF CloseTracked, callers
    <2>2. \A c : ThePlan(c)' = ThePlan(c) /\ (WasTracked(c)' <=> WasTracked(c))
        BY <2>1 DEF ThePlan, WasTracked
    <2>3. ASSUME NEW e \in open'
          PROVE  /\ e \in open /\ ThePlan(e.call)[e.at].do # "companion"
                 /\ <<e.call, 0>> \notin listed
        <3>1. e \in open /\ <<e.call, e.at>> \notin listed
            BY <2>1
        <3>2. ThePlan(e.call)[e.at].do # "companion"
            BY <3>1 DEF LeftInv
        <3>3. e \in Endpoints(e.call)
            BY <3>1, <3>2 DEF Endpoints
        <3> QED BY <2>1, <3>1, <3>2, <3>3
    <2> QED BY <2>1, <2>2, <2>3 DEF LeftInv
<1>12. CASE UNCHANGED makingVars
    <2>1. UNCHANGED <<asked, step, outcome, open, listed, torn, failed>>
        BY <1>12 DEF makingVars, callers, dds, knownVars, node
    <2> QED BY <2>1, LeftStays
<1> QED BY <1>1, <1>2, <1>3, <1>4, <1>5, <1>6, <1>7, <1>8, <1>9, <1>10, <1>11, <1>12 DEF MakingNext

LEMMA PlaceInitially == MakingInit => PlaceInv
<1> SUFFICES ASSUME MakingInit PROVE PlaceInv
    OBVIOUS
<1>1. \A c \in CreateCalls : asked[c].kind \in Makeable
    BY ConstructionAssumption DEF MakingInit
<1>2. \A c \in CreateCalls : Len(ThePlan(c)) \in Nat
    BY <1>1, PlansShaped DEF ThePlan, Shaped
<1>3. /\ step = [c \in CreateCalls |-> 0] /\ outcome = [c \in CreateCalls |-> "new"]
      /\ open = {} /\ torn = FALSE
    BY DEF MakingInit
<1> QED BY <1>1, <1>2, <1>3 DEF PlaceInv

LEMMA LeftInitially == MakingInit => LeftInv
    BY DEF MakingInit, LeftInv

\* OnlyFailedLeak (property of the run node): for any calls, interleaved in any
\* way with each other and with destroy_node, only a constructor that gave up has
\* left endpoints open when all is over (_track_entity, the create_* calls).
THEOREM OnlyFailedLeakHolds == MakingSpec => []OnlyFailedLeak
<1>1. PlaceInv /\ LeftInv => OnlyFailedLeak
    <2> SUFFICES ASSUME PlaceInv, LeftInv, torn, \A c \in CreateCalls : outcome[c] # "running",
                        NEW e \in open
                 PROVE  e.call \in failed /\ e \in Endpoints(e.call)
        BY DEF OnlyFailedLeak
    <2> DEFINE c == e.call
    <2>1. /\ ThePlan(c)[e.at].do # "companion" /\ <<c, 0>> \notin listed
          /\ outcome[c] # "raised" \/ c \in failed
        BY DEF LeftInv
    <2>2. c \in CreateCalls /\ e.at \in 1..step[c]
        BY DEF PlaceInv
    <2>3. outcome[c] # "new"
        BY <2>2 DEF PlaceInv
    <2>4. outcome[c] # "returned"
        <3>1. \E t \in 1..Len(ThePlan(c)) : ThePlan(c)[t].do = "track"
            BY <2>2, ShapedPlans DEF Shaped
        <3> QED BY <2>1, <2>2, <3>1 DEF LeftInv, WasTracked
    <2>5. outcome[c] = "raised"
        BY <2>2, <2>3, <2>4 DEF PlaceInv
    <2> QED BY <2>1, <2>5 DEF Endpoints
<1> QED BY <1>1, PlaceInitially, LeftInitially, PlaceStep, LeftStep, PTL DEF MakingSpec
-----------------------------------------------------------------------------
(* The callbacks that come early.                                            *)

LEMMA AppendMembers ==
    ASSUME NEW S, NEW s \in Seq(S), NEW x \in S
    PROVE  Append(s, x) \in Seq(S) /\ ToSet(Append(s, x)) = ToSet(s) \cup {x}
<1> DEFINE n == Len(s)
           a == Append(s, x)
<1>1. /\ n \in Nat /\ DOMAIN s = 1..n /\ DOMAIN a = 1..(n + 1)
      /\ a \in Seq(S) /\ a[n + 1] = x /\ \A i \in 1..n : a[i] = s[i]
    BY AppendProperties
<1>2. \A i \in 1..(n + 1) : i \in 1..n \/ i = n + 1
    BY <1>1
<1>3. ToSet(a) = ToSet(s) \cup {x}
    BY <1>1, <1>2 DEF ToSet
<1> QED BY <1>1, <1>3

LEMMA HeadAndTail ==
    ASSUME NEW S, NEW s \in Seq(S), s # <<>>
    PROVE  Head(s) \in S /\ Tail(s) \in Seq(S) /\ ToSet(s) = {Head(s)} \cup ToSet(Tail(s))
<1> DEFINE n == Len(s)
           r == Tail(s)
<1>1. /\ n \in Nat \ {0} /\ DOMAIN s = 1..n /\ r \in Seq(S) /\ Head(s) = s[1] /\ Head(s) \in S
      /\ DOMAIN r = 1..(n - 1) /\ \A i \in 1..(n - 1) : r[i] = s[i + 1]
    BY HeadTailProperties, EmptySeq
<1>2. ASSUME NEW b \in ToSet(s), b # s[1] PROVE b \in ToSet(r)
    <2>1. PICK i \in 1..n : b = s[i]
        BY <1>1 DEF ToSet
    <2>2. i - 1 \in 1..(n - 1) /\ r[i - 1] = b
        BY <1>1, <1>2, <2>1
    <2> QED BY <1>1, <2>2 DEF ToSet
<1>3. ASSUME NEW b \in ToSet(r) PROVE b \in ToSet(s)
    <2>1. PICK i \in 1..(n - 1) : b = s[i + 1]
        BY <1>1 DEF ToSet
    <2>2. i + 1 \in 1..n
        BY <1>1, <2>1
    <2> QED BY <1>1, <2>1, <2>2 DEF ToSet
<1>4. s[1] \in ToSet(s)
    BY <1>1 DEF ToSet
<1> QED BY <1>1, <1>2, <1>3, <1>4

\* Where the callbacks of call c may be.
Everywhere(c) == UNION {passing, handed, lost, ToSet(held[c]), ToSet(flushing[c])}

\* Callbacks are held back only for an entity that will be bound, by the last step
\* of its call, and never once it is; what bind() has taken is being handed on; and
\* what is on its way has its entity in a group, unless the node has been destroyed.
KeptInv ==
    /\ held \in [CreateCalls -> Seq(CreateCalls \X Nat)]
    /\ flushing \in [CreateCalls -> Seq(CreateCalls \X Nat)]
    /\ fired \in [CreateCalls -> Nat]
    /\ \A c \in CreateCalls :
         /\ \A n \in 1..fired[c] : <<c, n>> \in Everywhere(c)
         /\ \A item \in ToSet(held[c]) \cup ToSet(flushing[c]) : item[1] = c
         /\ c \in bound => held[c] = <<>> /\ outcome[c] # "new" /\ ThePlan(c)[step[c]].do = "bind"
         /\ flushing[c] # <<>> => c \in bound /\ outcome[c] = "running"
         /\ outcome[c] = "returned" /\ Binds(asked[c]) => c \in bound
         /\ held[c] # <<>> => Binds(asked[c])
    /\ \A item \in passing \cup handed : item[1] \in grouped \/ nodeGone

\* The group is known by the time that something is on its way to the node.
LEMMA GroupKnown ==
    ASSUME PlaceInv, NEW c \in CreateCalls, NEW i \in 1..step[c],
           \/ ThePlan(c)[i].do = "bind"
           \/ Direct(asked[c]) /\ ThePlan(c)[i].do \in Openings
           \/ ThePlan(c)[i].do = "companion" /\ ThePlan(c)[i].dir = "reader"
    PROVE  c \in grouped \/ nodeGone
<1>1. i \in 1..Len(ThePlan(c)) /\ step[c] \in Nat
    BY ShapedPlans DEF PlaceInv
<1>2. PICK j \in 1..(i - 1) : ThePlan(c)[j].do = "group"
    BY <1>1, ShapedPlans DEF Shaped
<1>3. j \in 1..(step[c] - 1)
    BY <1>1
<1> QED BY <1>2, <1>3 DEF PlaceInv

\* A step that moves no callback.
LEMMA GoesKept ==
    ASSUME PlaceInv, KeptInv, NEW c \in CreateCalls, Goes(c),
           UNCHANGED <<bound, held, flushing, passing, handed, lost, fired>>,
           grouped \subseteq grouped', nodeGone' = nodeGone,
           c \in bound => UNCHANGED <<step, outcome>>
                         \/ (flushing[c] = <<>> /\ step' = step /\ outcome'[c] = "returned"),
           outcome'[c] = "returned" /\ outcome[c] # "returned" /\ Binds(asked[c]) => c \in bound
    PROVE  KeptInv'
<1>1. \A d \in CreateCalls : ThePlan(d)' = ThePlan(d) /\ asked'[d] = asked[d]
    BY PlansStay DEF Goes
<1>2. \A d \in CreateCalls : Everywhere(d)' = Everywhere(d)
    BY DEF Everywhere
<1>3. ASSUME NEW d \in CreateCalls
      PROVE  /\ d \in bound => outcome'[d] # "new" /\ ThePlan(d)[step'[d]].do = "bind"
             /\ flushing[d] # <<>> => outcome'[d] = "running"
             /\ outcome'[d] = "returned" /\ Binds(asked[d]) => d \in bound
    <2>1. CASE d # c
        <3>1. step'[d] = step[d] /\ outcome'[d] = outcome[d]
            BY <2>1 DEF Goes
        <3> QED BY <3>1 DEF KeptInv
    <2>2. CASE d = c
        BY <2>2 DEF KeptInv
    <2> QED BY <2>1, <2>2
<1>4. ASSUME NEW d \in CreateCalls
      PROVE  /\ \A n \in 1..fired'[d] : <<d, n>> \in Everywhere(d)'
             /\ \A item \in ToSet(held'[d]) \cup ToSet(flushing'[d]) : item[1] = d
             /\ d \in bound' => /\ held'[d] = <<>> /\ outcome'[d] # "new"
                               /\ ThePlan(d)'[step'[d]].do = "bind"
             /\ flushing'[d] # <<>> => d \in bound' /\ outcome'[d] = "running"
             /\ outcome'[d] = "returned" /\ Binds(asked'[d]) => d \in bound'
             /\ held'[d] # <<>> => Binds(asked'[d])
    <2>1. \A n \in 1..fired'[d] : <<d, n>> \in Everywhere(d)'
        BY <1>2 DEF KeptInv
    <2>2. /\ \A item \in ToSet(held'[d]) \cup ToSet(flushing'[d]) : item[1] = d
          /\ d \in bound' => held'[d] = <<>>
          /\ flushing'[d] # <<>> => d \in bound'
        BY DEF KeptInv
    <2>3. held'[d] # <<>> => Binds(asked'[d])
        BY <1>1 DEF KeptInv
    <2>4. /\ d \in bound' => outcome'[d] # "new" /\ ThePlan(d)'[step'[d]].do = "bind"
          /\ flushing'[d] # <<>> => outcome'[d] = "running"
          /\ outcome'[d] = "returned" /\ Binds(asked'[d]) => d \in bound'
        <3>1. ThePlan(d)' = ThePlan(d) /\ asked'[d] = asked[d] /\ bound' = bound /\ flushing' = flushing
            BY <1>1
        <3> QED BY <1>3, <3>1
    <2> QED BY <2>1, <2>2, <2>3, <2>4
<1>5. \A item \in passing' \cup handed' : item[1] \in grouped' \/ nodeGone'
    BY DEF KeptInv
<1>6. /\ held' \in [CreateCalls -> Seq(CreateCalls \X Nat)]
      /\ flushing' \in [CreateCalls -> Seq(CreateCalls \X Nat)]
      /\ fired' \in [CreateCalls -> Nat]
    BY DEF KeptInv
<1> QED BY <1>4, <1>5, <1>6 DEF KeptInv

LEMMA NotYetBound ==
    ASSUME PlaceInv, KeptInv, NEW c \in CreateCalls, outcome[c] = "running", Now(c).do # "bind"
    PROVE  /\ c \notin bound
           /\ Goes(c) /\ outcome'[c] = "returned" => ~Binds(asked[c])
<1>1. c \notin bound
    BY DEF KeptInv, Now
<1>2. ASSUME Goes(c), outcome'[c] = "returned", Binds(asked[c]) PROVE FALSE
    <2>1. step[c] = Len(ThePlan(c))
        BY <1>2 DEF Goes
    <2>2. ThePlan(c)[Len(ThePlan(c))].do = "bind"
        BY <1>2, ShapedPlans DEF Shaped
    <2> QED BY <2>1, <2>2 DEF Now
<1> QED BY <1>1, <1>2

\* Callbacks move, and no call goes on.
LEMMA MovesKept ==
    ASSUME KeptInv, UNCHANGED <<asked, step, outcome>>,
           held' \in [CreateCalls -> Seq(CreateCalls \X Nat)],
           flushing' \in [CreateCalls -> Seq(CreateCalls \X Nat)],
           fired' \in [CreateCalls -> Nat], bound \subseteq bound',
           \A d \in CreateCalls :
             /\ \A n \in 1..fired'[d] : <<d, n>> \in Everywhere(d)'
             /\ \A item \in ToSet(held'[d]) \cup ToSet(flushing'[d]) : item[1] = d
             /\ d \in bound' => held'[d] = <<>>
             /\ d \in bound' \ bound => outcome[d] # "new" /\ ThePlan(d)[step[d]].do = "bind"
             /\ flushing'[d] # <<>> => d \in bound' /\ outcome[d] = "running"
             /\ held'[d] # <<>> => Binds(asked[d]),
           \A item \in passing' \cup handed' : item[1] \in grouped' \/ nodeGone'
    PROVE  KeptInv'
<1>1. \A d \in CreateCalls : ThePlan(d)' = ThePlan(d) /\ asked'[d] = asked[d]
    BY PlansStay
<1>2. ASSUME NEW d \in CreateCalls
      PROVE  /\ d \in bound' => outcome'[d] # "new" /\ ThePlan(d)'[step'[d]].do = "bind"
             /\ outcome'[d] = "returned" /\ Binds(asked'[d]) => d \in bound'
    BY <1>1 DEF KeptInv
<1> QED BY <1>1, <1>2 DEF KeptInv

LEMMA CallKeeps ==
    ASSUME PlaceInv, KeptInv, NEW c \in CreateCalls,
           \/ Begin(c) \/ ShareCompanion(c) \/ NodeTopic(c) \/ FindTopic(c) \/ OpenEndpoint(c)
           \/ OpenCompanion(c) \/ Start(c) \/ Group(c) \/ Track(c) \/ Bound(c)
    PROVE  KeptInv'
<1>u. UNCHANGED <<bound, held, flushing, passing, handed, lost, fired, nodeGone>>
      /\ grouped \subseteq grouped'
    <2>1. ASSUME Begin(c) \/ ShareCompanion(c) \/ NodeTopic(c) \/ FindTopic(c) \/ OpenEndpoint(c)
          PROVE  UNCHANGED <<callbacks, node>> /\ grouped' = grouped
        BY <2>1 DEF Begin, ShareCompanion, NodeTopic, FindTopic, OpenEndpoint, knownVars
    <2>2. ASSUME OpenCompanion(c) \/ Start(c) \/ Group(c) \/ Track(c) \/ Bound(c)
          PROVE  UNCHANGED <<callbacks, node>> /\ grouped \subseteq grouped'
        BY <2>2 DEF OpenCompanion, Start, Group, Track, Bound, knownVars
    <2> QED BY <2>1, <2>2 DEF callbacks, node
<1>1. CASE Begin(c)
    <2>1. Goes(c) /\ outcome[c] = "new" /\ outcome'[c] # "returned"
        BY <1>1, BeginGoes DEF Goes
    <2>2. c \notin bound
        BY <2>1 DEF KeptInv
    <2> QED BY <1>u, <2>1, <2>2, GoesKept
<1>2. CASE Bound(c)
    <2>1. /\ outcome[c] = "running" /\ Now(c).do = "bind" /\ c \in bound /\ flushing[c] = <<>>
          /\ Advance(c)
        BY <1>2 DEF Bound, At
    <2>2. step[c] = Len(ThePlan(c))
        BY <2>1, ShapedPlans DEF Shaped, Now
    <2>3. Goes(c) /\ step' = step /\ outcome'[c] = "returned"
        BY <2>1, <2>2, AdvanceGoes DEF Advance, PlaceInv
    <2> QED BY <1>u, <2>1, <2>3, GoesKept
<1>3. CASE NodeTopic(c)
    <2>1. UNCHANGED <<asked, step, outcome>>
        BY <1>3 DEF NodeTopic
    <2>2. Goes(c)
        BY <2>1, StayGoes
    <2> QED BY <1>u, <2>1, <2>2, GoesKept
<1>4. CASE \/ ShareCompanion(c) \/ FindTopic(c) \/ OpenEndpoint(c)
           \/ OpenCompanion(c) \/ Start(c) \/ Group(c) \/ Track(c)
    <2>1. /\ outcome[c] = "running" /\ Now(c).do # "bind"
          /\ Advance(c) \/ Fail(c) \/ Raise(c) \/ UNCHANGED <<asked, step, outcome>>
        <3>1. ASSUME ShareCompanion(c) \/ FindTopic(c) \/ OpenEndpoint(c)
              PROVE  /\ outcome[c] = "running" /\ Now(c).do # "bind"
                     /\ Advance(c) \/ Fail(c) \/ UNCHANGED <<asked, step, outcome>>
            BY <3>1 DEF ShareCompanion, FindTopic, OpenEndpoint, At
        <3>2. ASSUME OpenCompanion(c) \/ Start(c) \/ Group(c) \/ Track(c)
              PROVE  outcome[c] = "running" /\ Now(c).do # "bind" /\ (Advance(c) \/ Raise(c))
            BY <3>2 DEF OpenCompanion, Start, Group, Track, At
        <3> QED BY <1>4, <3>1, <3>2
    <2>2. Goes(c)
        BY <2>1, AdvanceGoes, FailGoes, RaiseGoes, StayGoes
    <2>3. c \notin bound /\ (outcome'[c] = "returned" => ~Binds(asked[c]))
        BY <2>1, <2>2, NotYetBound
    <2> QED BY <1>u, <2>2, <2>3, GoesKept
<1> QED BY <1>1, <1>2, <1>3, <1>4

LEMMA BindKeeps == ASSUME PlaceInv, KeptInv, NEW c \in CreateCalls, Bind(c) PROVE KeptInv'
<1>1. /\ outcome[c] = "running" /\ Now(c).do = "bind" /\ c \notin bound
      /\ bound' = bound \cup {c}
      /\ flushing' = [flushing EXCEPT ![c] = held[c]] /\ held' = [held EXCEPT ![c] = <<>>]
      /\ UNCHANGED <<asked, step, outcome, passing, handed, lost, fired, grouped, nodeGone>>
    BY DEF Bind, At, callers, knownVars, node
<1>2. flushing[c] = <<>>
    BY <1>1 DEF KeptInv
<1>3. /\ held \in [CreateCalls -> Seq(CreateCalls \X Nat)]
      /\ flushing \in [CreateCalls -> Seq(CreateCalls \X Nat)]
    BY DEF KeptInv
<1>4. <<>> \in Seq(CreateCalls \X Nat) /\ ToSet(<<>>) = {}
    BY NoMembers
<1>5. /\ held' \in [CreateCalls -> Seq(CreateCalls \X Nat)]
      /\ flushing' \in [CreateCalls -> Seq(CreateCalls \X Nat)]
      /\ held'[c] = <<>> /\ flushing'[c] = held[c]
      /\ \A d \in CreateCalls : d # c => held'[d] = held[d] /\ flushing'[d] = flushing[d]
    BY <1>1, <1>3, <1>4
<1>6. \A d \in CreateCalls : ToSet(held'[d]) \cup ToSet(flushing'[d]) = ToSet(held[d]) \cup ToSet(flushing[d])
    BY <1>2, <1>4, <1>5
<1>7. \A d \in CreateCalls : Everywhere(d)' = Everywhere(d)
    BY <1>1, <1>6 DEF Everywhere
<1>8. ASSUME NEW d \in CreateCalls
      PROVE  /\ \A n \in 1..fired'[d] : <<d, n>> \in Everywhere(d)'
             /\ \A item \in ToSet(held'[d]) \cup ToSet(flushing'[d]) : item[1] = d
             /\ d \in bound' => held'[d] = <<>>
             /\ d \in bound' \ bound => outcome[d] # "new" /\ ThePlan(d)[step[d]].do = "bind"
             /\ flushing'[d] # <<>> => d \in bound' /\ outcome[d] = "running"
             /\ held'[d] # <<>> => Binds(asked[d])
    <2>1. /\ \A n \in 1..fired'[d] : <<d, n>> \in Everywhere(d)'
          /\ \A item \in ToSet(held'[d]) \cup ToSet(flushing'[d]) : item[1] = d
        BY <1>1, <1>6, <1>7 DEF KeptInv
    <2>2. CASE d = c
        BY <1>1, <1>5, <2>1, <2>2 DEF Now
    <2>3. CASE d # c
        BY <1>1, <1>5, <2>1, <2>3 DEF KeptInv
    <2> QED BY <2>2, <2>3
<1>9. \A item \in passing' \cup handed' : item[1] \in grouped' \/ nodeGone'
    BY <1>1 DEF KeptInv
<1>10. fired' \in [CreateCalls -> Nat] /\ bound \subseteq bound'
    BY <1>1 DEF KeptInv
<1> QED BY <1>1, <1>5, <1>8, <1>9, <1>10, MovesKept

LEMMA FlushKeeps == ASSUME PlaceInv, KeptInv, NEW c \in CreateCalls, Flush(c) PROVE KeptInv'
<1> DEFINE item == Head(flushing[c])
<1>1. /\ outcome[c] = "running" /\ Now(c).do = "bind" /\ c \in bound /\ flushing[c] # <<>>
      /\ HandOver(item) /\ flushing' = [flushing EXCEPT ![c] = Tail(@)]
      /\ UNCHANGED <<asked, step, outcome, bound, held, passing, fired, grouped, nodeGone>>
    BY DEF Flush, At, callers, knownVars, node
<1>2. /\ held \in [CreateCalls -> Seq(CreateCalls \X Nat)]
      /\ flushing \in [CreateCalls -> Seq(CreateCalls \X Nat)] /\ fired \in [CreateCalls -> Nat]
    BY DEF KeptInv
<1>3. /\ Tail(flushing[c]) \in Seq(CreateCalls \X Nat)
      /\ ToSet(flushing[c]) = {item} \cup ToSet(Tail(flushing[c]))
    BY <1>1, <1>2, HeadAndTail
<1> HIDE DEF item
<1>4. /\ flushing' \in [CreateCalls -> Seq(CreateCalls \X Nat)]
      /\ flushing'[c] = Tail(flushing[c])
      /\ \A d \in CreateCalls : d # c => flushing'[d] = flushing[d]
    BY <1>1, <1>2, <1>3
<1>5. item[1] = c
    BY <1>3 DEF KeptInv
<1>6. handed \subseteq handed' /\ handed' \subseteq handed \cup {item} /\ lost \subseteq lost'
      /\ item \in handed' \cup lost'
    BY <1>1 DEF HandOver
<1>7. \A d \in CreateCalls : Everywhere(d) \subseteq Everywhere(d)'
    <2>1. \A d \in CreateCalls : ToSet(flushing[d]) \subseteq {item} \cup ToSet(flushing'[d])
        BY <1>3, <1>4
    <2> QED BY <1>1, <1>6, <2>1 DEF Everywhere
<1>8. ASSUME NEW d \in CreateCalls
      PROVE  /\ \A n \in 1..fired'[d] : <<d, n>> \in Everywhere(d)'
             /\ \A x \in ToSet(held'[d]) \cup ToSet(flushing'[d]) : x[1] = d
             /\ d \in bound' => held'[d] = <<>>
             /\ d \in bound' \ bound => outcome[d] # "new" /\ ThePlan(d)[step[d]].do = "bind"
             /\ flushing'[d] # <<>> => d \in bound' /\ outcome[d] = "running"
             /\ held'[d] # <<>> => Binds(asked[d])
    <2>1. \A n \in 1..fired'[d] : <<d, n>> \in Everywhere(d)'
        BY <1>1, <1>7 DEF KeptInv
    <2>2. ToSet(flushing'[d]) \subseteq ToSet(flushing[d])
        BY <1>3, <1>4
    <2>3. flushing'[d] # <<>> => d \in bound' /\ outcome[d] = "running"
        BY <1>1, <1>4 DEF KeptInv
    <2>4. /\ \A x \in ToSet(held[d]) \cup ToSet(flushing[d]) : x[1] = d
          /\ d \in bound => held[d] = <<>>
          /\ held[d] # <<>> => Binds(asked[d])
        BY DEF KeptInv
    <2> QED BY <1>1, <2>1, <2>2, <2>3, <2>4
<1>9. ASSUME NEW x \in passing' \cup handed' PROVE x[1] \in grouped' \/ nodeGone'
    <2>1. c \in grouped \/ nodeGone
        <3>1. step[c] \in 1..step[c]
            BY <1>1, ShapedPlans DEF PlaceInv
        <3> QED BY <1>1, <3>1, GroupKnown DEF Now
    <2> QED BY <1>1, <1>5, <1>6, <2>1 DEF KeptInv
<1> QED BY <1>1, <1>2, <1>4, <1>8, <1>9, MovesKept

\* A callback that has just come.
LEMMA EnqueueKeeps ==
    ASSUME PlaceInv, KeptInv, NEW c \in CreateCalls, Fires(c),
           UNCHANGED <<asked, step, outcome, bound, flushing, handed, lost, grouped, nodeGone>>,
           \/ /\ passing' = passing \cup {<<c, fired'[c]>>} /\ held' = held
              /\ c \in grouped \/ nodeGone
           \/ /\ held' = [held EXCEPT ![c] = Append(@, <<c, fired'[c]>>)] /\ passing' = passing
              /\ c \notin bound /\ Binds(asked[c])
    PROVE  KeptInv'
<1> DEFINE item == <<c, fired'[c]>>
<1>1. /\ held \in [CreateCalls -> Seq(CreateCalls \X Nat)]
      /\ flushing \in [CreateCalls -> Seq(CreateCalls \X Nat)] /\ fired \in [CreateCalls -> Nat]
    BY DEF KeptInv
<1>2. /\ fired' \in [CreateCalls -> Nat] /\ fired'[c] = fired[c] + 1
      /\ \A d \in CreateCalls : d # c => fired'[d] = fired[d]
    BY <1>1 DEF Fires
<1>3. item \in CreateCalls \X Nat /\ item[1] = c
    BY <1>2
<1>4. /\ Append(held[c], item) \in Seq(CreateCalls \X Nat)
      /\ ToSet(Append(held[c], item)) = ToSet(held[c]) \cup {item}
    <2> HIDE DEF item
    <2>1. held[c] \in Seq(CreateCalls \X Nat) /\ item \in CreateCalls \X Nat
        BY <1>1, <1>3
    <2> QED BY <2>1, AppendMembers
<1>5. /\ passing \subseteq passing' /\ passing' \subseteq passing \cup {item}
      /\ held' \in [CreateCalls -> Seq(CreateCalls \X Nat)]
      /\ \A d \in CreateCalls : d # c => held'[d] = held[d]
      /\ ToSet(held[c]) \subseteq ToSet(held'[c]) /\ ToSet(held'[c]) \subseteq ToSet(held[c]) \cup {item}
      /\ item \in passing' \cup ToSet(held'[c])
    <2>1. CASE passing' = passing \cup {item} /\ held' = held
        BY <1>1, <2>1
    <2>2. CASE held' = [held EXCEPT ![c] = Append(@, item)] /\ passing' = passing
        <3>1. /\ held' \in [CreateCalls -> Seq(CreateCalls \X Nat)] /\ held'[c] = Append(held[c], item)
              /\ \A d \in CreateCalls : d # c => held'[d] = held[d]
            BY <1>1, <1>4, <2>2
        <3> QED BY <1>4, <2>2, <3>1
    <2> QED BY <2>1, <2>2
<1>6. ASSUME NEW d \in CreateCalls, NEW n \in 1..fired'[d] PROVE <<d, n>> \in Everywhere(d)'
    <2>1. Everywhere(d) \subseteq Everywhere(d)'
        BY <1>5 DEF Everywhere
    <2>2. CASE n \in 1..fired[d]
        BY <2>1, <2>2 DEF KeptInv
    <2>3. CASE n \notin 1..fired[d]
        <3>1. d = c /\ n = fired'[c]
            BY <1>1, <1>2, <2>3
        <3> QED BY <1>5, <3>1 DEF Everywhere
    <2> QED BY <2>2, <2>3
<1>7. ASSUME NEW d \in CreateCalls
      PROVE  /\ \A x \in ToSet(held'[d]) \cup ToSet(flushing'[d]) : x[1] = d
             /\ d \in bound' => held'[d] = <<>>
             /\ d \in bound' \ bound => outcome[d] # "new" /\ ThePlan(d)[step[d]].do = "bind"
             /\ flushing'[d] # <<>> => d \in bound' /\ outcome[d] = "running"
             /\ held'[d] # <<>> => Binds(asked[d])
    <2>1. /\ \A x \in ToSet(held[d]) \cup ToSet(flushing[d]) : x[1] = d
          /\ d \in bound => held[d] = <<>>
          /\ flushing[d] # <<>> => d \in bound /\ outcome[d] = "running"
          /\ held[d] # <<>> => Binds(asked[d])
        BY DEF KeptInv
    <2>2. CASE d # c
        BY <1>5, <2>1, <2>2
    <2>3. CASE d = c
        <3>1. \A x \in ToSet(held'[d]) \cup ToSet(flushing'[d]) : x[1] = d
            BY <1>3, <1>5, <2>1, <2>3
        <3>2. held' = held \/ (c \notin bound /\ Binds(asked[c]))
            OBVIOUS
        <3> QED BY <2>1, <2>3, <3>1, <3>2
    <2> QED BY <2>2, <2>3
<1>8. ASSUME NEW x \in passing' \cup handed' PROVE x[1] \in grouped' \/ nodeGone'
    <2>1. x \in passing \cup handed \/ (x = item /\ passing' # passing)
        BY <1>5
    <2>2. passing' # passing => c \in grouped \/ nodeGone
        OBVIOUS
    <2> QED BY <1>3, <2>1, <2>2 DEF KeptInv
<1> HIDE DEF item
<1> QED BY <1>1, <1>2, <1>5, <1>6, <1>7, <1>8, MovesKept

LEMMA EarlyKeeps ==
    ASSUME PlaceInv, KeptInv, NEW c \in CreateCalls, EnqueueOrHold(c) \/ EnqueueMetadata(c)
    PROVE  KeptInv'
<1>u. UNCHANGED <<asked, step, outcome, bound, flushing, handed, lost, grouped, nodeGone>> /\ Fires(c)
    BY DEF EnqueueOrHold, EnqueueMetadata, callers, knownVars, node
<1>o. \A e \in open : e.call = c => e.at \in 1..step[c] /\ ThePlan(c)[e.at].do \in Openings
    BY DEF PlaceInv
<1>1. CASE EnqueueMetadata(c)
    <2>1. PICK e \in open \ Endpoints(c) : e.call = c /\ ThePlan(c)[e.at].dir = "reader"
        BY <1>1 DEF EnqueueMetadata
    <2>2. ThePlan(c)[e.at].do = "companion"
        BY <2>1 DEF Endpoints
    <2>3. c \in grouped \/ nodeGone
        BY <1>o, <2>1, <2>2, GroupKnown
    <2>4. passing' = passing \cup {<<c, fired'[c]>>} /\ held' = held
        BY <1>1 DEF EnqueueMetadata
    <2> QED BY <1>u, <2>3, <2>4, EnqueueKeeps
<1>2. CASE EnqueueOrHold(c)
    <2>1. PICK e \in Endpoints(c) : CallsBack(ThePlan(c)[e.at])
        BY <1>2 DEF EnqueueOrHold, Listening
    <2>2. e \in open /\ e.call = c /\ ThePlan(c)[e.at].do # "companion"
        BY <2>1 DEF Endpoints
    <2>3. e.at \in 1..step[c] /\ ThePlan(c)[e.at].do \in Openings
        BY <1>o, <2>2
    <2>4. CASE Direct(asked[c]) \/ c \in bound
        <3>1. passing' = passing \cup {<<c, fired'[c]>>} /\ held' = held
            BY <1>2, <2>4 DEF EnqueueOrHold
        <3>2. CASE Direct(asked[c])
            <4>1. c \in grouped \/ nodeGone
                BY <2>3, <3>2, GroupKnown
            <4> QED BY <1>u, <3>1, <4>1, EnqueueKeeps
        <3>3. CASE c \in bound
            <4>1. ThePlan(c)[step[c]].do = "bind" /\ step[c] \in 1..step[c]
                BY <2>3, <3>3 DEF KeptInv, PlaceInv
            <4>2. c \in grouped \/ nodeGone
                BY <4>1, GroupKnown
            <4> QED BY <1>u, <3>1, <4>2, EnqueueKeeps
        <3> QED BY <2>4, <3>2, <3>3
    <2>5. CASE ~(Direct(asked[c]) \/ c \in bound)
        <3>1. held' = [held EXCEPT ![c] = Append(@, <<c, fired'[c]>>)] /\ passing' = passing
            BY <1>2, <2>5 DEF EnqueueOrHold
        <3>2. e.at \in 1..Len(ThePlan(c))
            BY <2>3, ShapedPlans DEF PlaceInv
        <3>3. Binds(asked[c])
            <4>1. ThePlan(c)[e.at].do \in {"open", "try", "start"}
                BY <2>2, <2>3 DEF Openings
            <4> QED BY <2>1, <2>5, <3>2, <4>1, ShapedPlans DEF Shaped
        <3> QED BY <1>u, <2>5, <3>1, <3>3, EnqueueKeeps
    <2> QED BY <2>4, <2>5
<1> QED BY <1>1, <1>2

\* What is on its way, or in the queue, goes on; or the node is destroyed.
LEMMA QueueKeeps ==
    ASSUME KeptInv, UNCHANGED <<asked, step, outcome, bound, held, flushing, fired>>,
           passing \cup handed \cup lost \subseteq passing' \cup handed' \cup lost',
           passing' \cup handed' \subseteq passing \cup handed,
           nodeGone' \/ UNCHANGED <<grouped, nodeGone>>
    PROVE  KeptInv'
<1>1. \A d \in CreateCalls : Everywhere(d) \subseteq Everywhere(d)'
    BY DEF Everywhere
<1>2. ASSUME NEW d \in CreateCalls
      PROVE  /\ \A n \in 1..fired'[d] : <<d, n>> \in Everywhere(d)'
             /\ \A x \in ToSet(held'[d]) \cup ToSet(flushing'[d]) : x[1] = d
             /\ d \in bound' => held'[d] = <<>>
             /\ d \in bound' \ bound => outcome[d] # "new" /\ ThePlan(d)[step[d]].do = "bind"
             /\ flushing'[d] # <<>> => d \in bound' /\ outcome[d] = "running"
             /\ held'[d] # <<>> => Binds(asked[d])
    <2>1. \A n \in 1..fired'[d] : <<d, n>> \in Everywhere(d)'
        BY <1>1 DEF KeptInv
    <2> QED BY <2>1 DEF KeptInv
<1>3. \A x \in passing' \cup handed' : x[1] \in grouped' \/ nodeGone'
    BY DEF KeptInv
<1>4. /\ held' \in [CreateCalls -> Seq(CreateCalls \X Nat)]
      /\ flushing' \in [CreateCalls -> Seq(CreateCalls \X Nat)]
      /\ fired' \in [CreateCalls -> Nat] /\ bound \subseteq bound'
    BY DEF KeptInv
<1> QED BY <1>2, <1>3, <1>4, MovesKept

LEMMA KeptStep == PlaceInv /\ KeptInv /\ [MakingNext]_makingVars => KeptInv'
<1> SUFFICES ASSUME PlaceInv, KeptInv, [MakingNext]_makingVars PROVE KeptInv'
    OBVIOUS
<1>1. ASSUME NEW c \in CreateCalls,
             \/ Begin(c) \/ ShareCompanion(c) \/ NodeTopic(c) \/ FindTopic(c) \/ OpenEndpoint(c)
             \/ OpenCompanion(c) \/ Start(c) \/ Group(c) \/ Track(c) \/ Bound(c)
      PROVE  KeptInv'
    BY <1>1, CallKeeps
<1>2. ASSUME NEW c \in CreateCalls, Bind(c) PROVE KeptInv'
    BY <1>2, BindKeeps
<1>3. ASSUME NEW c \in CreateCalls, Flush(c) PROVE KeptInv'
    BY <1>3, FlushKeeps
<1>4. ASSUME NEW c \in CreateCalls, EnqueueOrHold(c) \/ EnqueueMetadata(c) PROVE KeptInv'
    BY <1>4, EarlyKeeps
<1>5. ASSUME NEW item \in passing, Pass(item) PROVE KeptInv'
    <2>1. /\ UNCHANGED <<asked, step, outcome, bound, held, flushing, fired, grouped, nodeGone>>
          /\ passing' = passing \ {item} /\ HandOver(item)
        BY <1>5 DEF Pass, callers, knownVars, node
    <2>2. /\ passing \cup handed \cup lost \subseteq passing' \cup handed' \cup lost'
          /\ passing' \cup handed' \subseteq passing \cup handed
        BY <2>1 DEF HandOver
    <2> QED BY <2>1, <2>2, QueueKeeps
<1>6. CASE MarkDestroyed
    <2>1. nodeGone' /\ UNCHANGED <<asked, step, outcome, bound, held, flushing, fired, passing, handed, lost>>
        BY <1>6 DEF MarkDestroyed, callers, callbacks
    <2> QED BY <2>1, QueueKeeps
<1>7. CASE CloseTracked
    <2>1. /\ nodeGone' /\ UNCHANGED <<asked, step, outcome, bound, held, flushing, fired, passing>>
          /\ handed' = {} /\ lost' = lost \cup handed
        BY <1>7 DEF CloseTracked, callers
    <2> QED BY <2>1, QueueKeeps
<1>8. CASE UNCHANGED makingVars
    <2>1. UNCHANGED <<asked, step, outcome, bound, held, flushing, fired, passing, handed, lost,
                      grouped, nodeGone>>
        BY <1>8 DEF makingVars, callers, callbacks, knownVars, node
    <2> QED BY <2>1, QueueKeeps
<1> QED BY <1>1, <1>2, <1>3, <1>4, <1>5, <1>6, <1>7, <1>8 DEF MakingNext

LEMMA KeptInitially == MakingInit => KeptInv
<1> SUFFICES ASSUME MakingInit PROVE KeptInv
    OBVIOUS
<1>1. /\ held = [c \in CreateCalls |-> <<>>] /\ flushing = [c \in CreateCalls |-> <<>>]
      /\ fired = [c \in CreateCalls |-> 0] /\ bound = {} /\ passing = {} /\ handed = {}
      /\ outcome = [c \in CreateCalls |-> "new"]
    BY DEF MakingInit
<1>2. <<>> \in Seq(CreateCalls \X Nat) /\ ToSet(<<>>) = {}
    BY NoMembers
<1>3. \A i : i \notin 1..0
    OBVIOUS
<1> QED BY <1>1, <1>2, <1>3 DEF KeptInv

\* EarlyCallbacksKept (property of the run node): for any calls and any number of
\* callbacks, one that comes before its entity is known is neither lost on the way
\* nor in the queue before the entity is in its group, and none is held back once
\* the call has returned (_make_deferred_entity_enqueue, the create_* calls).
THEOREM EarlyCallbacksKeptHolds == MakingSpec => []EarlyCallbacksKept
<1>1. PlaceInv /\ KeptInv => EarlyCallbacksKept
    <2> SUFFICES ASSUME PlaceInv, KeptInv, NEW c \in CreateCalls
                 PROVE  /\ \A n \in 1..fired[c] : <<c, n>> \in Everywhere(c)
                        /\ outcome[c] = "returned" => held[c] = <<>> /\ flushing[c] = <<>>
                        /\ ~nodeGone /\ (\E n \in 1..fired[c] : <<c, n>> \in handed) => c \in grouped
        BY DEF EarlyCallbacksKept, Everywhere
    <2>1. ASSUME NEW n \in 1..fired[c], <<c, n>> \in handed, ~nodeGone PROVE c \in grouped
        <3>1. <<c, n>>[1] = c
            OBVIOUS
        <3> QED BY <2>1, <3>1 DEF KeptInv
    <2>2. outcome[c] = "returned" => held[c] = <<>> /\ flushing[c] = <<>>
        BY DEF KeptInv
    <2> QED BY <2>1, <2>2 DEF KeptInv
<1> QED BY <1>1, PlaceInitially, KeptInitially, PlaceStep, KeptStep, PTL DEF MakingSpec
-----------------------------------------------------------------------------
(* Names, for any names and namespaces.                                      *)

Words ==
    STRING \cup {"rt", "rq", "rr", "ra", "_action", "feedback", "status", "send", "goal", "get",
                 "result", "cancel", "Request", "Reply"}
NameParts == Seq(Words)

\* An entity has the topics that its name stands for in the node's namespace.
NamedInv ==
    /\ namespace \in Namespaces
    /\ \A e \in named :
         /\ e.kind \in EntityKinds /\ e.asked \in Askable
         /\ e.topics = TopicsOf(e.kind, e.asked, e.raw)

LEMMA InNameParts ==
    /\ Paths \subseteq Seq(NameParts) \ {<<>>} /\ Namespaces \subseteq Seq(NameParts)
    /\ NodePart \in NameParts
    /\ {Rt, Rq, Rr, Ra, <<"_action">>, <<"feedback">>, <<"status">>} \subseteq NameParts
    /\ {<<"send", "goal">>, <<"get", "result">>, <<"cancel", "goal">>} \subseteq NameParts
<1>1. \A s \in Seq(STRING) : s \in NameParts
    BY SeqMonotonic DEF NameParts, Words
<1>2. \A s \in Seq(Seq(STRING)) : s \in Seq(NameParts)
    BY <1>1, SeqMonotonic
<1>3. {Rt, Rq, Rr, Ra, <<"_action">>, <<"feedback">>, <<"status">>} \subseteq NameParts
    BY DEF NameParts, Words, Rt, Rq, Rr, Ra
<1>4. {<<"send", "goal">>, <<"get", "result">>, <<"cancel", "goal">>} \subseteq NameParts
    BY DEF NameParts, Words
<1> QED BY <1>1, <1>2, <1>3, <1>4, NamesAssumption

LEMMA ResolvedName ==
    ASSUME namespace \in Namespaces, NEW n \in Askable
    PROVE  ResolveName(n) \in Seq(NameParts) /\ ResolveName(n) # <<>>
<1>1. /\ n.path \in Seq(NameParts) /\ n.path # <<>> /\ namespace \in Seq(NameParts)
      /\ <<NodePart>> \in Seq(NameParts) /\ n.form \in {"absolute", "relative", "private"}
    BY InNameParts DEF Askable, Forms
<1>2. ASSUME NEW s \in Seq(NameParts) PROVE s \o n.path \in Seq(NameParts) /\ s \o n.path # <<>>
    BY <1>1, ConcatProperties, ConcatEqualIffEmpty
<1>3. namespace \o <<NodePart>> \in Seq(NameParts)
    BY <1>1, ConcatProperties
<1>4. CASE n.form = "absolute"
    BY <1>1, <1>4 DEF ResolveName
<1>5. CASE n.form = "relative"
    BY <1>1, <1>2, <1>5 DEF ResolveName
<1>6. CASE n.form = "private"
    BY <1>2, <1>3, <1>6 DEF ResolveName
<1> QED BY <1>1, <1>4, <1>5, <1>6

\* A name that does not look like one of DDS gets the prefix.
LEMMA PrefixedName ==
    ASSUME NEW p \in Seq(NameParts), p # <<>>, NEW a \in NameParts, p[1] # a
    PROVE  /\ Prefixed(a, p) = <<a>> \o p /\ <<a>> \o p \in Seq(NameParts)
           /\ Len(<<a>> \o p) = Len(p) + 1 /\ (<<a>> \o p)[1] = a
           /\ \A i \in 1..Len(p) : (<<a>> \o p)[i + 1] = p[i]
<1>1. Prefixed(a, p) = <<a>> \o p
    BY DEF Prefixed, StartsWith
<1> QED BY <1>1

LEMMA Prepended ==
    ASSUME NEW p \in Seq(NameParts), NEW a \in NameParts
    PROVE  /\ <<a>> \o p \in Seq(NameParts)
           /\ Len(<<a>> \o p) = Len(p) + 1 /\ (<<a>> \o p)[1] = a
           /\ \A i \in 1..Len(p) : (<<a>> \o p)[i + 1] = p[i]
    OBVIOUS

LEMMA PartReplaced ==
    ASSUME NEW S, NEW t \in Seq(S), NEW i \in 1..Len(t), NEW x \in S
    PROVE  /\ Len([t EXCEPT ![i] = x]) = Len(t)
           /\ \A j \in 1..Len(t) : [t EXCEPT ![i] = x][j] = IF j = i THEN x ELSE t[j]
    OBVIOUS

LEMMA SameBefore ==
    ASSUME NEW S, NEW p \in Seq(S), NEW q \in Seq(S), NEW a \in S, Append(p, a) = Append(q, a)
    PROVE  p = q
    OBVIOUS

\* The suffix changes the last part, and keeps what it was.
LEMMA SuffixedName ==
    ASSUME NEW t \in Seq(NameParts), t # <<>>, NEW s \in Words
    PROVE  /\ Len(Suffixed(t, s)) = Len(t)
           /\ \A i \in 1..(Len(t) - 1) : Suffixed(t, s)[i] = t[i]
           /\ Suffixed(t, s)[Len(t)] = Append(t[Len(t)], s)
<1>1. Len(t) \in Nat \ {0} /\ Len(t) \in 1..Len(t) /\ t[Len(t)] \in NameParts
    BY EmptySeq, ElementOfSeq
<1>2. Append(t[Len(t)], s) \in NameParts
    BY <1>1, AppendProperties DEF NameParts
<1>3. Suffixed(t, s) = [t EXCEPT ![Len(t)] = Append(t[Len(t)], s)]
    BY DEF Suffixed
<1> DEFINE x == Append(t[Len(t)], s)
<1>4. x \in NameParts /\ Suffixed(t, s) = [t EXCEPT ![Len(t)] = x]
    BY <1>2, <1>3
<1>5. x = Append(t[Len(t)], s)
    OBVIOUS
<1> HIDE DEF x
<1>6. /\ Len(Suffixed(t, s)) = Len(t)
      /\ \A j \in 1..Len(t) : Suffixed(t, s)[j] = IF j = Len(t) THEN x ELSE t[j]
    <2> DEFINE i == Len(t)
    <2>1. i \in 1..Len(t) /\ Suffixed(t, s) = [t EXCEPT ![i] = x]
        BY <1>1, <1>4
    <2> HIDE DEF i
    <2>2. /\ Len([t EXCEPT ![i] = x]) = Len(t)
          /\ \A j \in 1..Len(t) : [t EXCEPT ![i] = x][j] = IF j = i THEN x ELSE t[j]
        BY <1>4, <2>1, PartReplaced
    <2> QED BY <2>1, <2>2 DEF i
<1>7. ASSUME NEW i \in 1..(Len(t) - 1) PROVE Suffixed(t, s)[i] = t[i]
    <2>1. i \in 1..Len(t) /\ i # Len(t)
        BY <1>1
    <2> QED BY <1>6, <2>1
<1>8. Suffixed(t, s)[Len(t)] = x
    BY <1>1, <1>6
<1> QED BY <1>5, <1>6, <1>7, <1>8

\* The topic of a service is its prefix, its name and the suffix.
LEMMA ServiceTopicAt ==
    ASSUME NEW p \in Seq(NameParts), p # <<>>, NEW a \in NameParts, NEW s \in Words
    PROVE  LET t == Suffixed(<<a>> \o p, s)
           IN /\ Len(t) = Len(p) + 1 /\ t[1] = a /\ \A i \in 1..(Len(p) - 1) : t[i + 1] = p[i]
              /\ t[Len(p) + 1] = Append(p[Len(p)], s)
<1> DEFINE u == <<a>> \o p
<1>1. /\ Len(p) \in Nat \ {0} /\ u \in Seq(NameParts) /\ u # <<>> /\ Len(u) = Len(p) + 1
      /\ u[1] = a /\ \A i \in 1..Len(p) : u[i + 1] = p[i]
    BY EmptySeq, Prepended
<1> HIDE DEF u
<1>2. Len(Suffixed(u, s)) = Len(u) /\ Suffixed(u, s)[Len(u)] = Append(u[Len(u)], s)
    BY <1>1, SuffixedName
<1>3. ASSUME NEW i \in 1..Len(p) PROVE Suffixed(u, s)[i] = u[i]
    <2>1. i \in 1..(Len(u) - 1)
        BY <1>1
    <2> QED BY <1>1, <2>1, SuffixedName
<1>4. u[Len(u)] = p[Len(p)]
    BY <1>1
<1>5. Suffixed(u, s)[1] = a
    BY <1>1, <1>3
<1>6. \A i \in 1..(Len(p) - 1) : Suffixed(u, s)[i + 1] = p[i]
    BY <1>1, <1>3
<1> QED BY <1>1, <1>2, <1>4, <1>5, <1>6 DEF u

\* A topic of a service tells its prefix and the service.
LEMMA ServiceTopicTells ==
    ASSUME NEW p \in Seq(NameParts), p # <<>>, NEW q \in Seq(NameParts), q # <<>>,
           NEW a \in NameParts, NEW b \in NameParts, NEW s \in Words, NEW r \in Words,
           Suffixed(<<a>> \o p, s) = Suffixed(<<b>> \o q, r)
    PROVE  a = b /\ (s = r => p = q)
<1> DEFINE t == Suffixed(<<a>> \o p, s)
<1>1. Len(p) \in Nat \ {0} /\ Len(q) \in Nat \ {0}
    BY EmptySeq
<1>2. /\ Len(t) = Len(p) + 1 /\ t[1] = a /\ \A i \in 1..(Len(p) - 1) : t[i + 1] = p[i]
      /\ t[Len(p) + 1] = Append(p[Len(p)], s)
    BY ServiceTopicAt
<1>3. /\ Len(t) = Len(q) + 1 /\ t[1] = b /\ \A i \in 1..(Len(q) - 1) : t[i + 1] = q[i]
      /\ t[Len(q) + 1] = Append(q[Len(q)], r)
    <2> DEFINE u == Suffixed(<<b>> \o q, r)
    <2>1. /\ Len(u) = Len(q) + 1 /\ u[1] = b /\ \A i \in 1..(Len(q) - 1) : u[i + 1] = q[i]
          /\ u[Len(q) + 1] = Append(q[Len(q)], r)
        BY ServiceTopicAt
    <2>2. t = u
        OBVIOUS
    <2> HIDE DEF t, u
    <2> QED BY <2>1, <2>2
<1> HIDE DEF t
<1>4. Len(p) = Len(q) /\ a = b
    BY <1>1, <1>2, <1>3
<1>5. ASSUME s = r, NEW i \in 1..Len(p) PROVE p[i] = q[i]
    <2>1. CASE i < Len(p)
        BY <1>1, <1>2, <1>3, <1>4, <2>1
    <2>2. CASE i = Len(p)
        <3>1. Append(p[i], s) = Append(q[i], s)
            BY <1>2, <1>3, <1>4, <1>5, <2>2
        <3>2. i \in 1..Len(p) /\ i \in 1..Len(q)
            BY <1>4
        <3>3. p[i] \in NameParts /\ q[i] \in NameParts
            BY <3>2, ElementOfSeq
        <3>4. p[i] \in Seq(Words) /\ q[i] \in Seq(Words)
            BY <3>3 DEF NameParts
        <3> HIDE DEF NameParts
        <3> QED BY <3>1, <3>4, SameBefore
    <2> QED BY <1>1, <2>1, <2>2
<1> QED BY <1>4, <1>5, SeqEqual

ActionTopicParts ==
    {<<"feedback">>, <<"status">>, <<"send", "goal">>, <<"get", "result">>, <<"cancel", "goal">>}

\* A topic of an action starts with its name.
LEMMA ActionTopicAt ==
    ASSUME NEW p \in Seq(NameParts), p # <<>>, p[1] # Ra, NEW t \in ActionTopics(p)
    PROVE  Len(t) = Len(p) + 3 /\ t[1] = Ra /\ \A i \in 1..Len(p) : t[i + 1] = p[i]
<1> DEFINE of(what) == Append(Append(<<Ra>> \o p, <<"_action">>), what)
<1>1. Ra \in NameParts /\ <<"_action">> \in NameParts /\ ActionTopicParts \subseteq NameParts
    BY InNameParts DEF ActionTopicParts
<1>2. Prefixed(Ra, p) = <<Ra>> \o p
    BY <1>1, PrefixedName
<1>3. ASSUME NEW what \in ActionTopicParts
      PROVE  /\ of(what) \in Seq(NameParts) /\ Len(of(what)) = Len(p) + 3 /\ of(what)[1] = Ra
             /\ \A i \in 1..Len(p) : of(what)[i + 1] = p[i]
    <2>1. /\ <<Ra>> \o p \in Seq(NameParts) /\ Len(<<Ra>> \o p) = Len(p) + 1 /\ Len(p) \in Nat
          /\ (<<Ra>> \o p)[1] = Ra /\ \A i \in 1..Len(p) : (<<Ra>> \o p)[i + 1] = p[i]
        BY <1>1, Prepended
    <2> QED BY <1>1, <1>3, <2>1, AppendProperties
<1>4. \E what \in ActionTopicParts : t = of(what) \/ \E s \in {"Request", "Reply"} : t = Suffixed(of(what), s)
    BY <1>2 DEF ActionTopics, RequestAndReply, ActionTopicParts
<1> HIDE DEF of
<1>5. PICK what \in ActionTopicParts : t = of(what) \/ \E s \in {"Request", "Reply"} : t = Suffixed(of(what), s)
    BY <1>4
<1>6. CASE t = of(what)
    BY <1>3, <1>6
<1>7. ASSUME NEW s \in {"Request", "Reply"}, t = Suffixed(of(what), s)
      PROVE  Len(t) = Len(p) + 3 /\ t[1] = Ra /\ \A i \in 1..Len(p) : t[i + 1] = p[i]
    <2>1. of(what) # <<>> /\ s \in Words /\ Len(p) \in Nat
        BY <1>3, EmptySeq DEF Words
    <2>2. Len(t) = Len(p) + 3 /\ \A i \in 1..(Len(p) + 2) : t[i] = of(what)[i]
        BY <1>3, <1>7, <2>1, SuffixedName
    <2> QED BY <1>3, <2>1, <2>2
<1> QED BY <1>5, <1>6, <1>7

\* The first part of a topic tells its family.
LEMMA FirstParts ==
    Rt # Rq /\ Rt # Rr /\ Rt # Ra /\ Rq # Rr /\ Rq # Ra /\ Rr # Ra
    BY DEF Rt, Rq, Rr, Ra

LEMMA TailOfPrepended ==
    ASSUME NEW p \in Seq(NameParts), p # <<>>, NEW a \in NameParts
    PROVE  Tail(<<a>> \o p) = p /\ Len(<<a>> \o p) > 1
<1>1. Len(p) \in Nat \ {0}
    BY EmptySeq
<1>2. /\ <<a>> \o p \in Seq(NameParts) /\ Len(<<a>> \o p) = Len(p) + 1
      /\ \A i \in 1..Len(p) : (<<a>> \o p)[i + 1] = p[i]
    BY Prepended
<1> DEFINE u == <<a>> \o p
<1> HIDE DEF u
<1>3. u \in Seq(NameParts) /\ u # <<>> /\ Len(u) = Len(p) + 1 /\ \A i \in 1..Len(p) : u[i + 1] = p[i]
    BY <1>1, <1>2, EmptySeq DEF u
<1>4. Tail(u) \in Seq(NameParts) /\ Len(Tail(u)) = Len(p) /\ \A i \in 1..Len(p) : Tail(u)[i] = u[i + 1]
    BY <1>1, <1>3, HeadTailProperties
<1>5. Tail(u) = p
    BY <1>3, <1>4, SeqEqual
<1> QED BY <1>1, <1>3, <1>5 DEF u

LEMMA ServiceTopicsTell ==
    ASSUME NEW p \in Seq(NameParts), p # <<>>, NEW t \in ServiceTopics(p)
    PROVE  /\ t[1] \in {Rq, Rr}
           /\ \A q \in Seq(NameParts) \ {<<>>} : t \in ServiceTopics(q) => p = q
<1>1. Rq \in NameParts /\ Rr \in NameParts /\ "Request" \in Words /\ "Reply" \in Words
    BY InNameParts DEF Words
<1>2. \A q : ServiceTopics(q) = {Suffixed(<<Rq>> \o q, "Request"), Suffixed(<<Rr>> \o q, "Reply")}
    BY DEF ServiceTopics, RequestAndReply
<1>3. t[1] \in {Rq, Rr}
    <2>1. CASE t = Suffixed(<<Rq>> \o p, "Request")
        BY <1>1, <2>1, ServiceTopicAt
    <2>2. CASE t = Suffixed(<<Rr>> \o p, "Reply")
        BY <1>1, <2>2, ServiceTopicAt
    <2> QED BY <1>2, <2>1, <2>2
<1>4. ASSUME NEW q \in Seq(NameParts), q # <<>>, t \in ServiceTopics(q) PROVE p = q
    <2>1. CASE t = Suffixed(<<Rq>> \o p, "Request") /\ t = Suffixed(<<Rq>> \o q, "Request")
        BY <1>1, <1>4, <2>1, ServiceTopicTells
    <2>2. CASE t = Suffixed(<<Rq>> \o p, "Request") /\ t = Suffixed(<<Rr>> \o q, "Reply")
        BY <1>1, <1>4, <2>2, ServiceTopicTells, FirstParts
    <2>3. CASE t = Suffixed(<<Rr>> \o p, "Reply") /\ t = Suffixed(<<Rq>> \o q, "Request")
        BY <1>1, <1>4, <2>3, ServiceTopicTells, FirstParts
    <2>4. CASE t = Suffixed(<<Rr>> \o p, "Reply") /\ t = Suffixed(<<Rr>> \o q, "Reply")
        BY <1>1, <1>4, <2>4, ServiceTopicTells
    <2> QED BY <1>2, <1>4, <2>1, <2>2, <2>3, <2>4
<1> QED BY <1>3, <1>4

\* What the name of a plain entity is, and which topics it stands for.
LEMMA PlainTopics ==
    ASSUME NamedInv, NEW e \in PlainEntities
    PROVE  LET p == ResolveName(e.asked)
           IN /\ p \in Seq(NameParts) /\ p # <<>> /\ p[1] # Rt /\ p[1] # Ra
              /\ Prefixed(Rt, p) = <<Rt>> \o p
              /\ \/ Family(e.kind) = "topic" /\ e.topics = {<<Rt>> \o p}
                 \/ Family(e.kind) = "service" /\ e.topics = ServiceTopics(p)
                 \/ Family(e.kind) = "action" /\ e.topics = ActionTopics(p)
              /\ (e.kind \in OnTopic => Family(e.kind) = "topic")
<1> DEFINE p == ResolveName(e.asked)
<1>1. /\ e \in named /\ ~e.raw /\ p[1] # Rt /\ p[1] # Ra
      /\ e.kind \in EntityKinds /\ e.asked \in Askable /\ e.topics = TopicsOf(e.kind, e.asked, e.raw)
    BY DEF NamedInv, PlainEntities, Regular
<1>2. p \in Seq(NameParts) /\ p # <<>>
    BY <1>1, ResolvedName DEF NamedInv
<1>3. Prefixed(Rt, p) = <<Rt>> \o p
    <2> HIDE DEF p
    <2> QED BY <1>1, <1>2, PrefixedName, InNameParts
<1>4. \/ Family(e.kind) = "topic" /\ e.topics = {<<Rt>> \o p}
      \/ Family(e.kind) = "service" /\ e.topics = ServiceTopics(p)
      \/ Family(e.kind) = "action" /\ e.topics = ActionTopics(p)
    <2>1. CASE e.kind \in OnTopic
        BY <1>1, <1>3, <2>1 DEF Family, TopicsOf, ResolveTopicName, OnTopic
    <2>2. CASE e.kind \in {"client", "service"}
        BY <1>1, <2>2 DEF Family, TopicsOf, OnTopic
    <2>3. CASE e.kind \notin OnTopic /\ e.kind \notin {"client", "service"}
        BY <1>1, <2>3 DEF Family, TopicsOf
    <2> QED BY <2>1, <2>2, <2>3
<1>5. e.kind \in OnTopic => Family(e.kind) = "topic"
    BY DEF Family, OnTopic
<1> QED BY <1>1, <1>2, <1>3, <1>4, <1>5

\* Entities share a topic exactly when they mean the same.
LEMMA SharedTopics ==
    ASSUME NamedInv, NEW e \in PlainEntities, NEW f \in PlainEntities
    PROVE  (e.topics \cap f.topics # {})
             <=> (Family(e.kind) = Family(f.kind) /\ ResolveName(e.asked) = ResolveName(f.asked))
<1> DEFINE p == ResolveName(e.asked)
           q == ResolveName(f.asked)
<1>1. /\ p \in Seq(NameParts) /\ p # <<>> /\ p[1] # Ra
      /\ \/ Family(e.kind) = "topic" /\ e.topics = {<<Rt>> \o p}
         \/ Family(e.kind) = "service" /\ e.topics = ServiceTopics(p)
         \/ Family(e.kind) = "action" /\ e.topics = ActionTopics(p)
    BY PlainTopics
<1>2. /\ q \in Seq(NameParts) /\ q # <<>> /\ q[1] # Ra
      /\ \/ Family(f.kind) = "topic" /\ f.topics = {<<Rt>> \o q}
         \/ Family(f.kind) = "service" /\ f.topics = ServiceTopics(q)
         \/ Family(f.kind) = "action" /\ f.topics = ActionTopics(q)
    BY PlainTopics
<1>3. \A r \in Seq(NameParts) \ {<<>>} : ServiceTopics(r) # {} /\ ActionTopics(r) # {}
    BY DEF ServiceTopics, RequestAndReply, ActionTopics
<1>4. Rt \in NameParts
    BY InNameParts
<1> HIDE DEF p, q
<1>5. ASSUME Family(e.kind) = Family(f.kind), p = q PROVE e.topics \cap f.topics # {}
    BY <1>1, <1>2, <1>3, <1>5
<1>6. ASSUME NEW t \in e.topics, t \in f.topics PROVE Family(e.kind) = Family(f.kind) /\ p = q
    <2>1. ASSUME NEW r \in Seq(NameParts), r # <<>>
          PROVE  /\ (<<Rt>> \o r)[1] = Rt
                 /\ (t \in ServiceTopics(r) => t[1] \in {Rq, Rr})
                 /\ (r[1] # Ra /\ t \in ActionTopics(r) => t[1] = Ra)
        BY <1>4, <2>1, Prepended, ServiceTopicsTell, ActionTopicAt
    <2>2. \/ Family(e.kind) = "topic" /\ t[1] = Rt
          \/ Family(e.kind) = "service" /\ t[1] \in {Rq, Rr}
          \/ Family(e.kind) = "action" /\ t[1] = Ra
        BY <1>1, <1>6, <2>1
    <2>3. \/ Family(f.kind) = "topic" /\ t[1] = Rt
          \/ Family(f.kind) = "service" /\ t[1] \in {Rq, Rr}
          \/ Family(f.kind) = "action" /\ t[1] = Ra
        BY <1>2, <1>6, <2>1
    <2>4. Family(e.kind) = Family(f.kind)
        BY <2>2, <2>3, FirstParts
    <2>5. CASE Family(e.kind) = "topic"
        <3>1. <<Rt>> \o p = <<Rt>> \o q
            BY <1>1, <1>2, <1>6, <2>4, <2>5
        <3> QED BY <1>1, <1>2, <1>4, <2>4, <3>1, TailOfPrepended
    <2>6. CASE Family(e.kind) = "service"
        <3>1. t \in ServiceTopics(p) /\ t \in ServiceTopics(q)
            BY <1>1, <1>2, <1>6, <2>4, <2>6
        <3> QED BY <1>1, <1>2, <2>4, <3>1, ServiceTopicsTell
    <2>7. CASE Family(e.kind) = "action"
        <3>1. t \in ActionTopics(p) /\ t \in ActionTopics(q)
            BY <1>1, <1>2, <1>6, <2>4, <2>7
        <3>2. Len(t) = Len(p) + 3 /\ \A i \in 1..Len(p) : t[i + 1] = p[i]
            BY <1>1, <3>1, ActionTopicAt
        <3>3. Len(t) = Len(q) + 3 /\ \A i \in 1..Len(q) : t[i + 1] = q[i]
            BY <1>2, <3>1, ActionTopicAt
        <3>4. Len(p) \in Nat /\ Len(q) \in Nat
            BY <1>1, <1>2, LenProperties
        <3>5. Len(p) = Len(q)
            BY <3>2, <3>3, <3>4
        <3>6. \A i \in 1..Len(p) : p[i] = q[i]
            BY <3>2, <3>3, <3>5
        <3> QED BY <1>1, <1>2, <2>4, <3>5, <3>6, SeqEqual
    <2> QED BY <1>1, <2>5, <2>6, <2>7
<1> QED BY <1>5, <1>6 DEF p, q

\* The queries find an entity of a topic whichever way its name is given.
LEMMA FoundByQueries ==
    ASSUME NamedInv, NEW kind \in OnTopic, NEW e \in Of(kind) \cap PlainEntities
    PROVE  LET ros == [form |-> "absolute", path |-> RosTopicName(TopicOf(e))]
               mangled == [form |-> "relative", path |-> TopicOf(e)]
           IN /\ e \in Matching(kind, e.asked, FALSE) /\ e \in Matching(kind, mangled, TRUE)
              /\ Matching(kind, ros, FALSE) = Matching(kind, mangled, TRUE)
              /\ <<ros.path, e.type>> \in NamesAndTypes(OnTopic, FALSE)
              /\ <<mangled.path, e.type>> \in NamesAndTypes({kind}, TRUE)
              /\ Count(kind, e.asked) = Count(kind, ros)
<1> DEFINE ros == [form |-> "absolute", path |-> RosTopicName(TopicOf(e))]
           mangled == [form |-> "relative", path |-> TopicOf(e)]
           p == ResolveName(e.asked)
           t == <<Rt>> \o p
<1>1. /\ p \in Seq(NameParts) /\ p # <<>> /\ Prefixed(Rt, p) = t /\ e.topics = {t}
      /\ e \in Of(kind) /\ e.kind = kind
    BY PlainTopics DEF Of
<1>2. TopicOf(e) = t
    BY <1>1 DEF TopicOf
<1>3. Rt \in NameParts
    BY InNameParts
<1>4. Tail(t) = p /\ Len(t) > 1 /\ t[1] = Rt
    BY <1>1, <1>3, TailOfPrepended, Prepended
<1>5. RosTopicName(TopicOf(e)) = p
    BY <1>2, <1>4 DEF RosTopicName, StartsWith
<1>6. ResolveName(ros) = p /\ ros.path = p
    BY <1>5 DEF ResolveName
<1>7. mangled.form = "relative" /\ mangled.path = t
    BY <1>2
<1>8. ResolveTopicName(e.asked, FALSE) = t /\ ResolveTopicName(ros, FALSE) = t
    BY <1>1, <1>6 DEF ResolveTopicName
<1> HIDE DEF p, t, ros, mangled
<1>9. /\ Matching(kind, e.asked, FALSE) = {f \in Of(kind) : TopicOf(f) = t}
      /\ Matching(kind, ros, FALSE) = {f \in Of(kind) : TopicOf(f) = t}
      /\ Matching(kind, mangled, TRUE) = {f \in Of(kind) : TopicOf(f) = t}
    BY <1>7, <1>8 DEF Matching
<1>10. <<ros.path, e.type>> \in NamesAndTypes(OnTopic, FALSE)
    BY <1>1, <1>5, <1>6 DEF NamesAndTypes
<1>11. <<mangled.path, e.type>> \in NamesAndTypes({kind}, TRUE)
    BY <1>1, <1>2, <1>7 DEF NamesAndTypes
<1>12. Count(kind, e.asked) = Count(kind, ros)
    BY <1>9 DEF Count
<1> QED BY <1>1, <1>2, <1>9, <1>10, <1>11, <1>12 DEF ros, mangled

THEOREM NamedInvHolds == NamesSpec => []NamedInv
<1>1. NamesInit => NamedInv
    BY DEF NamesInit, NamedInv
<1>2. NamedInv /\ [NamesNext]_nameVars => NamedInv'
    <2> SUFFICES ASSUME NamedInv, [NamesNext]_nameVars PROVE NamedInv'
        OBVIOUS
    <2>1. \A kind, n, raw : namespace' = namespace => TopicsOf(kind, n, raw)' = TopicsOf(kind, n, raw)
        BY DEF TopicsOf, ResolveTopicName, ResolveName
    <2>2. ASSUME NEW id \in 1..MaxEntities, NEW kind \in EntityKinds, NEW ty \in EntityTypes,
                 NEW n \in Askable, NEW raw \in BOOLEAN, Create(id, kind, ty, n, raw)
          PROVE  NamedInv'
        BY <2>1, <2>2 DEF NamedInv, Create
    <2>3. ASSUME NEW e \in named, Destroy(e) PROVE NamedInv'
        BY <2>1, <2>3 DEF NamedInv, Destroy
    <2>4. CASE UNCHANGED nameVars
        BY <2>1, <2>4 DEF NamedInv, nameVars
    <2> QED BY <2>2, <2>3, <2>4 DEF NamesNext
<1> QED BY <1>1, <1>2, PTL DEF NamesSpec

THEOREM NamesAgreeHolds == NamesSpec => []NamesAgree
<1>1. NamedInv => NamesAgree
    <2> SUFFICES ASSUME NamedInv PROVE NamesAgree
        OBVIOUS
    <2>1. \A e, f \in PlainEntities :
            (e.topics \cap f.topics # {})
              <=> (Family(e.kind) = Family(f.kind) /\ ResolveName(e.asked) = ResolveName(f.asked))
        BY SharedTopics
    <2> QED BY <2>1, FoundByQueries DEF NamesAgree
<1> QED BY <1>1, NamedInvHolds, PTL

==============================================================================
