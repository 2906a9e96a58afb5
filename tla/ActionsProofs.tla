---------------------------- MODULE ActionsProofs ----------------------------
(* Theorems of Actions, for any goals and any number of jobs: replies and    *)
(* requests stay in step through everything that takes a future or a key out *)
(* of the tables, and a final status is not undone.                          *)
EXTENDS Actions, SequenceTheorems, WellFoundedInduction, TLAPS

-----------------------------------------------------------------------------
(* Types                                                                     *)

Calls    == {"new", "publish", "fail", "done"}
Outcomes == Goals \cup {"none", "pending", "cancelled", "error"}
Statuses == {"none", "accepted", "executing", "canceling", "done"}
JobSteps == {"none", "handed", "executing", "submitted", "running", "mark",
             "mark and publish", "publish", "send", "clear", "over"}

\* What TypeOK says of the variables one by one.
LEMMA Types ==
    ASSUME TypeOK
    PROVE  /\ rpc \in [Kinds -> [Goals -> Calls]] /\ fut \in [Kinds -> [Goals -> Outcomes]]
           /\ registered \in [Kinds -> SUBSET Goals]
           /\ keys \in [Ordered -> Seq(Goals)]
           /\ inHand \subseteq Kinds \X Goals \X Goals /\ ending \subseteq Kinds \X Goals
           /\ requests \in [Kinds -> Seq(Goals)] /\ replies \in [Kinds -> Seq(Goals)]
           /\ handles \in SUBSET Goals /\ refused \in SUBSET Goals /\ asked \in SUBSET Goals
           /\ results \in SUBSET Goals /\ expired \in SUBSET Goals
           /\ status \in [Goals -> Statuses] /\ xpc \in [Goals -> JobSteps]
           /\ lost \subseteq Kinds \X Goals
           /\ gone \in BOOLEAN /\ down \in BOOLEAN
BY DEF TypeOK, Calls, Outcomes, Statuses, JobSteps

LEMMA KindTypes ==
    /\ Ordered \subseteq Kinds /\ {"goal", "result", "cancel"} \subseteq Kinds /\ "goal" \in Ordered
    /\ Steps \ {"idle"} = {"goal", "result", "cancel", "reply", "accepted", "execute", "submit",
                           "publish", "send", "clear", "canceling", "replyCancel"}
BY DEF Ordered, Kinds, Steps

\* What the server's callback does next, and with which goal.
LEMMA ServingTypes ==
    ASSUME TypeOK
    PROVE  /\ serving[1] # "idle" => /\ Goal \in Goals /\ serving[1] \in Steps \ {"idle"}
                                     /\ serving = <<serving[1], Goal>>
           /\ serving[1] = "idle" => serving = Idle
<1>1. CASE serving = Idle
    BY <1>1 DEF Idle
<1>2. CASE serving \in (Steps \ {"idle"}) \X Goals
    <2>1. serving[1] \in Steps \ {"idle"} /\ serving[2] \in Goals /\ serving = <<serving[1], serving[2]>>
        BY <1>2
    <2> QED BY <2>1 DEF Goal
<1> QED BY <1>1, <1>2 DEF TypeOK

\* What RemoveFirst finds: the first place of a member of the sequence.
LEMMA FirstPlace ==
    ASSUME NEW s \in Seq(Goals), NEW g, NEW m \in 1..Len(s), s[m] = g
    PROVE  \E n \in 1..Len(s) : s[n] = g /\ RemoveFirst(s, g) = SubSeq(s, 1, n - 1) \o SubSeq(s, n + 1, Len(s))
<1> DEFINE I == {i \in 1..Len(s) : s[i] = g}
<1> DEFINE n == CHOOSE x \in I : \A y \in I : x =< y
<1>1. n \in I
    <2>1. I \in SUBSET Nat /\ I # {}
        OBVIOUS
    <2> DEFINE R == OpToRel(<, Nat)
    <2>2. PICK x \in I : \A y \in I : ~ (<<y, x>> \in R)
        BY <2>1, NatLessThanWellFounded, WFMin
    <2>3. \A y \in I : ~ (y < x)
        BY <2>1, <2>2 DEF OpToRel
    <2>4. \E z \in I : \A y \in I : z <= y
        BY <2>1, <2>3
    <2> QED BY <2>4
<1>2. RemoveFirst(s, g) = RemoveAt(s, n)
    BY <1>1 DEF RemoveFirst, SelectInSeq, Min
<1> QED BY <1>1, <1>2 DEF RemoveAt

LEMMA RemovedTypes ==
    ASSUME NEW s \in Seq(Goals), NEW g
    PROVE  RemoveFirst(s, g) \in Seq(Goals)
<1>1. CASE \A i \in 1..Len(s) : s[i] # g
    BY <1>1 DEF RemoveFirst
<1>2. ASSUME NEW m \in 1..Len(s), s[m] = g PROVE RemoveFirst(s, g) \in Seq(Goals)
    <2>1. PICK n \in 1..Len(s) : RemoveFirst(s, g) = SubSeq(s, 1, n - 1) \o SubSeq(s, n + 1, Len(s))
        BY <1>2, FirstPlace
    <2>2. SubSeq(s, 1, n - 1) \in Seq(Goals) /\ SubSeq(s, n + 1, Len(s)) \in Seq(Goals)
        <3>1. \A i \in 1..Len(s) : s[i] \in Goals
            BY ElementOfSeq
        <3>2. Len(s) \in Nat
            BY LenProperties
        <3> QED BY <3>1, <3>2, SubSeqProperties
    <2> QED BY <2>1, <2>2, ConcatProperties
<1> QED BY <1>1, <1>2

\* If it stands at the end only, what is left is the front.
LEMMA RemovedLast ==
    ASSUME NEW s \in Seq(Goals), NEW g, s # <<>>, s[Len(s)] = g,
           \A i \in 1..Len(s) : s[i] = g => i = Len(s)
    PROVE  /\ Len(RemoveFirst(s, g)) = Len(s) - 1
           /\ \A i \in 1..Len(s) - 1 : RemoveFirst(s, g)[i] = s[i]
<1>1. Len(s) \in Nat \ {0}
    BY EmptySeq
<1>2. RemoveFirst(s, g) = SubSeq(s, 1, Len(s) - 1) \o SubSeq(s, Len(s) + 1, Len(s))
    <2>1. Len(s) \in 1..Len(s)
        BY <1>1
    <2>2. PICK n \in 1..Len(s) : /\ s[n] = g
                                 /\ RemoveFirst(s, g) = SubSeq(s, 1, n - 1) \o SubSeq(s, n + 1, Len(s))
        BY <2>1, FirstPlace
    <2>3. n = Len(s)
        BY <2>2
    <2> QED BY <2>2, <2>3
<1>3. SubSeq(s, Len(s) + 1, Len(s)) = <<>>
    BY <1>1, SubSeqEmpty
<1>4. /\ SubSeq(s, 1, Len(s) - 1) \in Seq(Goals) /\ Len(SubSeq(s, 1, Len(s) - 1)) = Len(s) - 1
      /\ \A i \in 1..Len(s) - 1 : SubSeq(s, 1, Len(s) - 1)[i] = s[i]
    <2>1. \A i \in 1..Len(s) - 1 : s[i] \in Goals
        BY <1>1, ElementOfSeq
    <2> DEFINE front == SubSeq(s, 1, Len(s) - 1)
    <2>2. /\ front \in Seq(Goals)
          /\ Len(front) = IF 1 <= Len(s) - 1 THEN Len(s) - 1 - 1 + 1 ELSE 0
          /\ \A i \in 1..Len(s) - 1 - 1 + 1 : front[i] = s[1 + i - 1]
        BY <1>1, <2>1, SubSeqProperties
    <2> HIDE DEF front
    <2>3. front \in Seq(Goals) /\ Len(front) = Len(s) - 1 /\ \A i \in 1..Len(s) - 1 : front[i] = s[i]
        <3>1. Len(front) = Len(s) - 1
            <4>1. \A n \in Nat \ {0} : (IF 1 <= n - 1 THEN n - 1 - 1 + 1 ELSE 0) = n - 1
                OBVIOUS
            <4>2. (IF 1 <= Len(s) - 1 THEN Len(s) - 1 - 1 + 1 ELSE 0) = Len(s) - 1
                BY <1>1, <4>1
            <4> QED BY <2>2, <4>2
        <3>2. ASSUME NEW i \in 1..Len(s) - 1 PROVE front[i] = s[i]
            <4>1. i \in 1..Len(s) - 1 - 1 + 1 /\ 1 + i - 1 = i
                BY <1>1
            <4> QED BY <2>2, <4>1
        <3> QED BY <2>2, <3>1, <3>2
    <2> QED BY <2>3 DEF front
<1>5. RemoveFirst(s, g) = SubSeq(s, 1, Len(s) - 1)
    BY <1>2, <1>3, <1>4, ConcatEmptySeq
<1> QED BY <1>4, <1>5

-----------------------------------------------------------------------------
(* Every step keeps the types: of the client's state, ...                    *)

LEMMA ClientKeeps ==
    ASSUME TypeOK, UNCHANGED <<lost, serverVars>>,
           rpc' \in [Kinds -> [Goals -> Calls]], fut' \in [Kinds -> [Goals -> Outcomes]],
           registered' \in [Kinds -> SUBSET Goals], keys' \in [Ordered -> Seq(Goals)],
           inHand' \subseteq Kinds \X Goals \X Goals, ending' \subseteq Kinds \X Goals,
           requests' \in [Kinds -> Seq(Goals)], replies' \in [Kinds -> Seq(Goals)],
           gone' \in BOOLEAN
    PROVE  TypeOK'
BY DEF TypeOK, Calls, Outcomes, serverVars, goalVars, resultVars, Idle

\* ... and of the server's.
LEMMA ServerKeeps ==
    ASSUME TypeOK, UNCHANGED clientVars,
           requests' \in [Kinds -> Seq(Goals)], replies' \in [Kinds -> Seq(Goals)],
           lost' \subseteq Kinds \X Goals,
           serving' = Idle \/ serving' \in (Steps \ {"idle"}) \X Goals,
           handles' \in SUBSET Goals, refused' \in SUBSET Goals, asked' \in SUBSET Goals,
           results' \in SUBSET Goals, expired' \in SUBSET Goals,
           status' \in [Goals -> Statuses], xpc' \in [Goals -> JobSteps], down' \in BOOLEAN
    PROVE  TypeOK'
BY DEF TypeOK, Statuses, JobSteps, clientVars, callVars, replyVars, Idle

LEMMA SettledTypes ==
    ASSUME NEW f \in [Kinds -> [Goals -> Outcomes]], NEW k \in Kinds, NEW g \in Goals,
           NEW outcome \in Outcomes
    PROVE  Settled(f, k, g, outcome) \in [Kinds -> [Goals -> Outcomes]]
BY DEF Settled

LEMMA KeysTypes ==
    ASSUME TypeOK, NEW k \in Kinds, NEW g \in Goals,
           \/ keys' = IF k \in Ordered THEN [keys EXCEPT ![k] = Append(@, g)] ELSE keys
           \/ keys' = IF k \in Ordered THEN [keys EXCEPT ![k] = RemoveFirst(@, g)] ELSE keys
    PROVE  keys' \in [Ordered -> Seq(Goals)]
<1>1. CASE k \notin Ordered
    BY <1>1, Types
<1>2. CASE k \in Ordered
    <2>1. keys[k] \in Seq(Goals)
        BY <1>2, Types
    <2>2. Append(keys[k], g) \in Seq(Goals) /\ RemoveFirst(keys[k], g) \in Seq(Goals)
        BY <2>1, RemovedTypes
    <2>3. \E s \in Seq(Goals) : keys' = [keys EXCEPT ![k] = s]
        BY <1>2, <2>2
    <2> QED BY <1>2, <2>3, Types
<1> QED BY <1>1, <1>2

LEMMA CallTypes ==
    ASSUME TypeOK, NEW k \in Kinds, NEW g \in Goals, Register(k, g) \/ CallStep(k, g) \/ Abandon(k, g)
    PROVE  TypeOK'
<1> USE Types DEF callVars, replyVars, topicVars
<1>1. \A o \in {"pending", "cancelled", "error"} : o \in Outcomes
    BY DEF Outcomes
<1>2. \A from, to \in Calls : Goto(k, g, from, to) => rpc' \in [Kinds -> [Goals -> Calls]]
    BY DEF Goto
<1>3. {"new", "publish", "fail", "done"} \subseteq Calls
    BY DEF Calls
<1>4. CASE Register(k, g)
    <2>1. rpc' \in [Kinds -> [Goals -> Calls]]
        BY <1>2, <1>3, <1>4 DEF Register
    <2>2. fut' \in [Kinds -> [Goals -> Outcomes]]
        <3>1. \E o \in {"pending", "cancelled"} : fut' = [fut EXCEPT ![k][g] = o]
            BY <1>4 DEF Register
        <3> QED BY <1>1, <3>1
    <2>3. registered' \in [Kinds -> SUBSET Goals]
        <3>1. \/ registered' = registered
              \/ registered' = [registered EXCEPT ![k] = @ \cup {g}]
            BY <1>4 DEF Register
        <3>2. registered[k] \cup {g} \in SUBSET Goals
            OBVIOUS
        <3> QED BY <3>1, <3>2
    <2>4. keys' \in [Ordered -> Seq(Goals)]
        BY <1>4, KeysTypes DEF Register
    <2>5. UNCHANGED <<replyVars, topicVars, serverVars>>
        BY <1>4 DEF Register
    <2> QED BY <2>1, <2>2, <2>3, <2>4, <2>5, ClientKeeps
<1>5. CASE Publish(k, g)
    <2>1. rpc' \in [Kinds -> [Goals -> Calls]]
        BY <1>2, <1>3, <1>5 DEF Publish
    <2>2. requests' \in [Kinds -> Seq(Goals)]
        <3>1. requests[k] \in Seq(Goals) /\ Append(requests[k], g) \in Seq(Goals)
            OBVIOUS
        <3>2. \E s \in Seq(Goals) : requests' = [requests EXCEPT ![k] = s]
            BY <1>5, <3>1 DEF Publish
        <3> QED BY <3>2
    <2>3. UNCHANGED <<fut, registered, keys, replyVars, replies, lost, serverVars>>
        BY <1>5 DEF Publish
    <2> QED BY <2>1, <2>2, <2>3, ClientKeeps
<1>6. CASE PublishFails(k, g)
    <2>1. rpc' \in [Kinds -> [Goals -> Calls]]
        BY <1>2, <1>3, <1>6 DEF PublishFails
    <2>2. registered' \in [Kinds -> SUBSET Goals] /\ keys' \in [Ordered -> Seq(Goals)]
        BY <1>6, KeysTypes DEF PublishFails
    <2>3. UNCHANGED <<fut, replyVars, topicVars, serverVars>>
        BY <1>6 DEF PublishFails
    <2> QED BY <2>1, <2>2, <2>3, ClientKeeps
<1>7. CASE SetException(k, g)
    <2>1. rpc' \in [Kinds -> [Goals -> Calls]]
        BY <1>2, <1>3, <1>7 DEF SetException
    <2>2. fut' \in [Kinds -> [Goals -> Outcomes]]
        BY <1>1, <1>7, SettledTypes DEF SetException
    <2>3. UNCHANGED <<registered, keys, replyVars, topicVars, serverVars>>
        BY <1>7 DEF SetException
    <2> QED BY <2>1, <2>2, <2>3, ClientKeeps
<1>8. CASE Cleanup(k, g)
    <2>1. registered' \in [Kinds -> SUBSET Goals]
        BY <1>8 DEF Cleanup
    <2>2. UNCHANGED <<rpc, fut, keys, replyVars, topicVars, serverVars>>
        BY <1>8 DEF Cleanup
    <2> QED BY <2>1, <2>2, ClientKeeps
<1>9. CASE Abandon(k, g)
    <2>1. fut' \in [Kinds -> [Goals -> Outcomes]]
        BY <1>1, <1>9, SettledTypes DEF Abandon
    <2>2. UNCHANGED <<rpc, registered, keys, replyVars, topicVars, serverVars>>
        BY <1>9 DEF Abandon
    <2> QED BY <2>1, <2>2, ClientKeeps
<1> QED BY <1>4, <1>5, <1>6, <1>7, <1>8, <1>9 DEF CallStep

LEMMA ClientTypes ==
    ASSUME TypeOK, ClientStep \/ DestroyClient \/ CancelRegistered
    PROVE  TypeOK'
<1> USE Types, KindTypes DEF callVars, replyVars, topicVars
<1>1. ASSUME NEW k \in Ordered, TakeReply(k) PROVE TypeOK'
    <2>1. k \in Kinds /\ replies[k] \in Seq(Goals) /\ keys[k] \in Seq(Goals) /\ replies[k] # <<>>
        BY <1>1 DEF TakeReply
    <2>2. /\ Tail(replies[k]) \in Seq(Goals) /\ Head(replies[k]) \in Goals
          /\ keys[k] # <<>> => Tail(keys[k]) \in Seq(Goals) /\ Head(keys[k]) \in Goals
        BY <2>1
    <2>3. replies' = [replies EXCEPT ![k] = Tail(replies[k])]
        BY <1>1 DEF TakeReply
    <2>4. replies' \in [Kinds -> Seq(Goals)]
        BY <2>1, <2>2, <2>3
    <2>5. UNCHANGED <<rpc, fut, ending, gone, requests, lost, serverVars>>
        BY <1>1 DEF TakeReply
    <2>6. CASE keys[k] = <<>>
        BY <1>1, <2>4, <2>5, <2>6, ClientKeeps DEF TakeReply
    <2>7. CASE keys[k] # <<>>
        <3>1. /\ keys' = [keys EXCEPT ![k] = Tail(keys[k])]
              /\ registered' = [registered EXCEPT ![k] = @ \ {Head(keys[k])}]
              /\ inHand' \subseteq {<<k, Head(keys[k]), Head(replies[k])>>}
            BY <1>1, <2>7 DEF TakeReply
        <3>2. keys' \in [Ordered -> Seq(Goals)] /\ registered' \in [Kinds -> SUBSET Goals]
            BY <2>1, <2>2, <2>7, <3>1
        <3>3. inHand' \subseteq Kinds \X Goals \X Goals
            BY <2>1, <2>2, <2>7, <3>1
        <3> QED BY <2>4, <2>5, <3>2, <3>3, ClientKeeps
    <2> QED BY <2>6, <2>7
<1>2. CASE TakeCancelReply
    <2>1. replies["cancel"] \in Seq(Goals) /\ replies["cancel"] # <<>>
        BY <1>2 DEF TakeCancelReply
    <2>2. Tail(replies["cancel"]) \in Seq(Goals) /\ Head(replies["cancel"]) \in Goals
        BY <2>1
    <2>3. replies' \in [Kinds -> Seq(Goals)]
        BY <1>2, <2>2 DEF TakeCancelReply
    <2>4. inHand' = {<<"cancel", g, Head(replies["cancel"])>> : g \in registered["cancel"]}
        BY <1>2 DEF TakeCancelReply
    <2>5. inHand' \subseteq Kinds \X Goals \X Goals
        BY <2>2, <2>4
    <2>6. registered' \in [Kinds -> SUBSET Goals] /\ UNCHANGED <<rpc, fut, keys, ending, gone, requests, lost, serverVars>>
        BY <1>2 DEF TakeCancelReply
    <2> QED BY <2>3, <2>5, <2>6, ClientKeeps
<1>3. CASE Resolve
    <2>1. PICK p \in inHand : /\ fut' = Settled(fut, p[1], p[2], p[3])
                              /\ inHand' = inHand \ {p}
                              /\ UNCHANGED <<rpc, registered, keys, ending, gone, topicVars, serverVars>>
        BY <1>3 DEF Resolve
    <2>2. p[1] \in Kinds /\ p[2] \in Goals /\ p[3] \in Outcomes
        BY DEF Outcomes
    <2>3. fut' \in [Kinds -> [Goals -> Outcomes]]
        BY <2>1, <2>2, SettledTypes
    <2> QED BY <2>1, <2>3, ClientKeeps
<1>4. CASE DestroyClient
    <2>1. /\ registered' \in [Kinds -> SUBSET Goals] /\ gone' \in BOOLEAN
          /\ ending' \subseteq Kinds \X Goals
        BY <1>4 DEF DestroyClient
    <2>2. keys' \in [Ordered -> Seq(Goals)]
        BY <1>4, EmptySeq DEF DestroyClient
    <2>3. UNCHANGED <<rpc, fut, inHand, topicVars, serverVars>>
        BY <1>4 DEF DestroyClient
    <2> QED BY <2>1, <2>2, <2>3, ClientKeeps
<1>5. CASE CancelRegistered
    <2>1. PICK p \in ending : /\ fut' = Settled(fut, p[1], p[2], "cancelled")
                              /\ ending' = ending \ {p}
                              /\ UNCHANGED <<rpc, registered, keys, inHand, gone, topicVars, serverVars>>
        BY <1>5 DEF CancelRegistered
    <2>2. p[1] \in Kinds /\ p[2] \in Goals /\ "cancelled" \in Outcomes
        BY DEF Outcomes
    <2>3. fut' \in [Kinds -> [Goals -> Outcomes]]
        BY <2>1, <2>2, SettledTypes
    <2> QED BY <2>1, <2>3, ClientKeeps
<1> QED BY <1>1, <1>2, <1>3, <1>4, <1>5 DEF ClientStep

\* What is pruned was there, and what is left was too.
LEMMA PrunedTypes ==
    ASSUME TypeOK,
           NEW res \in Stale("results", results), NEW req \in Stale("requests", asked),
           Pruned(res, req)
    PROVE  /\ res \in SUBSET results /\ req \in SUBSET asked
           /\ expired' \in SUBSET Goals /\ status' \in [Goals -> Statuses]
           /\ \A g \in Goals : status'[g] \in {"none", status[g]}
<1>1. res \in SUBSET results /\ req \in SUBSET asked
    BY DEF Stale
<1>2. "none" \in Statuses
    BY DEF Statuses
<1> QED BY <1>1, <1>2, Types DEF Pruned

LEMMA StatusTypes ==
    ASSUME TypeOK, NEW g \in Goals, NEW s \in Statuses, SetStatus(g, s)
    PROVE  status' \in [Goals -> Statuses]
BY Types DEF SetStatus

\* A reply goes out or it does not, and changes nothing of the other kinds.
LEMMA SendTypes ==
    ASSUME TypeOK, NEW k \in Kinds, NEW g \in Goals, NEW ACTION sent, NEW ACTION unsent,
           Send(k, g, sent, unsent)
    PROVE  /\ replies' \in [Kinds -> Seq(Goals)] /\ lost' \subseteq Kinds \X Goals
           /\ lost \subseteq lost'
           /\ \A q \in Kinds \ {k} : replies'[q] = replies[q]
           /\ sent \/ unsent
<1>1. replies[k] \in Seq(Goals) /\ Append(replies[k], g) \in Seq(Goals)
    BY Types
<1>2. \E s \in Seq(Goals) : replies' = [replies EXCEPT ![k] = s]
    <2>1. \/ replies' = [replies EXCEPT ![k] = IF gone THEN @ ELSE Append(@, g)]
          \/ replies' = replies
        BY DEF Send
    <2>2. replies = [replies EXCEPT ![k] = replies[k]]
        BY Types
    <2> QED BY <1>1, <2>1, <2>2
<1>3. lost' \in {lost, lost \cup {<<k, g>>}} /\ (sent \/ unsent)
    BY DEF Send
<1> QED BY <1>2, <1>3, Types

LEMMA JobTypes ==
    ASSUME TypeOK, NEW g \in Goals, NEW from, NEW to \in JobSteps, Job(g, from, to)
    PROVE  xpc' \in [Goals -> JobSteps]
BY Types DEF Job

LEMMA TakeResultTypes ==
    ASSUME TypeOK, NEW g \in Goals, NEW ACTION got, NEW ACTION none, TakeResult(g, got, none)
    PROVE  /\ asked' \in SUBSET Goals /\ results' \in SUBSET Goals
           /\ expired' \in SUBSET Goals /\ status' \in [Goals -> Statuses]
           /\ \A h \in Goals : status'[h] \in {"none", status[h]}
           /\ got \/ none
<1>1. CASE down
    BY <1>1, Types DEF TakeResult, resultVars
<1>2. CASE ~down
    <2>1. PICK res \in Stale("results", results), req \in Stale("requests", asked) :
             /\ Pruned(res, req)
             /\ results' = (results \ res) \ {g}
             /\ asked' = (asked \ (res \cup req)) \ {g} \/ asked' = asked \ (res \cup req)
             /\ got \/ none
        BY <1>2 DEF TakeResult
    <2> QED BY <2>1, PrunedTypes, Types
<1> QED BY <1>1, <1>2

LEMMA ServerTypes ==
    ASSUME TypeOK, ServerStep \/ DestroyServer
    PROVE  TypeOK'
<1> USE Types, KindTypes DEF topicVars, goalVars, resultVars, Doing
<1>1. serving' = serving => serving' = Idle \/ serving' \in (Steps \ {"idle"}) \X Goals
    BY DEF TypeOK, Idle
<1>2. \A s \in Steps \ {"idle"} : Goal \in Goals /\ serving' = <<s, Goal>> => serving' \in (Steps \ {"idle"}) \X Goals
    OBVIOUS
<1>3. \A k \in Kinds : k \in Steps \ {"idle"}
    BY DEF Kinds
<1>4. {"none", "accepted", "executing", "canceling", "done"} \subseteq Statuses
    BY DEF Statuses
<1>5. ASSUME NEW k \in Kinds, TakeRequest(k) PROVE TypeOK'
    <2>1. requests[k] \in Seq(Goals) /\ requests[k] # <<>>
        BY <1>5 DEF TakeRequest
    <2>2. Tail(requests[k]) \in Seq(Goals) /\ Head(requests[k]) \in Goals
        BY <2>1
    <2>3. requests' = [requests EXCEPT ![k] = Tail(requests[k])]
        BY <1>5 DEF TakeRequest
    <2>4. requests' \in [Kinds -> Seq(Goals)]
        BY <2>2, <2>3
    <2>5. serving' = Idle \/ serving' \in (Steps \ {"idle"}) \X Goals
        BY <1>3, <1>5, <2>2 DEF TakeRequest
    <2>6. UNCHANGED <<clientVars, replies, lost, goalVars, resultVars, status, xpc, down>>
        BY <1>5 DEF TakeRequest
    <2> QED BY <2>4, <2>5, <2>6, ServerKeeps
<1>6. ASSUME NEW s, s # "idle", Doing(s), serving' = Idle \/ serving' = <<"clear", Goal>>,
             replies' \in [Kinds -> Seq(Goals)], lost' \subseteq Kinds \X Goals,
             UNCHANGED <<clientVars, requests, goalVars, resultVars, status, xpc, down>>
      PROVE  TypeOK'
    <2>1. Goal \in Goals
        BY <1>6, ServingTypes
    <2>2. serving' = Idle \/ serving' \in (Steps \ {"idle"}) \X Goals
        BY <1>6, <2>1
    <2> QED BY <1>6, <2>2, ServerKeeps
<1>7. ASSUME NEW s \in Statuses, NEW from, from # "idle", Doing(from), SetStatus(Goal, s),
             serving' = Idle \/ \E next \in {"execute", "submit", "replyCancel"} : serving' = <<next, Goal>>,
             UNCHANGED <<clientVars, topicVars, goalVars, resultVars, xpc, down>>
      PROVE  TypeOK'
    <2>1. Goal \in Goals
        BY <1>7, ServingTypes
    <2>2. status' \in [Goals -> Statuses]
        BY <1>7, <2>1, StatusTypes
    <2>3. serving' = Idle \/ serving' \in (Steps \ {"idle"}) \X Goals
        BY <1>7, <2>1
    <2> QED BY <1>7, <2>2, <2>3, ServerKeeps
<1>8. ASSUME NEW from, from # "idle", Doing(from), refused' \in SUBSET (refused \cup {Goal}),
             handles' \in SUBSET (handles \cup {Goal}),
             serving' = Idle \/ \E next \in {"reply", "accepted", "canceling", "replyCancel"} : serving' = <<next, Goal>>,
             UNCHANGED <<clientVars, topicVars, resultVars, status, xpc, down>>
      PROVE  TypeOK'
    <2>1. Goal \in Goals
        BY <1>8, ServingTypes
    <2>2. serving' = Idle \/ serving' \in (Steps \ {"idle"}) \X Goals
        BY <1>8, <2>1
    <2> QED BY <1>8, <2>1, <2>2, ServerKeeps
<1>9. ASSUME NEW from, from # "idle", Doing(from),
             asked' \in SUBSET (Goals \cup {Goal}), results' \in SUBSET Goals,
             expired' \in SUBSET Goals, status' \in [Goals -> Statuses],
             serving' = Idle \/ \E next \in {"publish", "send"} : serving' = <<next, Goal>>,
             UNCHANGED <<clientVars, topicVars, goalVars, xpc, down>>
      PROVE  TypeOK'
    <2>1. Goal \in Goals
        BY <1>9, ServingTypes
    <2>2. serving' = Idle \/ serving' \in (Steps \ {"idle"}) \X Goals
        BY <1>9, <2>1
    <2> QED BY <1>9, <2>1, <2>2, ServerKeeps
<1>10. CASE Reject
    BY <1>8, <1>10 DEF Reject
<1>11. CASE Accept
    BY <1>8, <1>11 DEF Accept
<1>12. CASE MarkAccepted
    <2>1. Goal \in Goals
        BY <1>12, ServingTypes DEF MarkAccepted
    <2>2. status' \in [Goals -> Statuses]
        BY <1>4, <1>12, <2>1, StatusTypes DEF MarkAccepted
    <2>3. xpc' \in [Goals -> JobSteps]
        BY <1>12, <2>1 DEF MarkAccepted, JobSteps
    <2>4. serving' \in (Steps \ {"idle"}) \X Goals
        BY <1>12, <2>1 DEF MarkAccepted
    <2> QED BY <1>12, <2>2, <2>3, <2>4, ServerKeeps DEF MarkAccepted
<1>13. CASE MarkExecuting
    BY <1>4, <1>7, <1>13 DEF MarkExecuting
<1>14. CASE Submit
    <2>1. Goal \in Goals
        BY <1>14, ServingTypes DEF Submit
    <2>2. xpc' \in [Goals -> JobSteps]
        BY <1>14, <2>1 DEF Submit, JobSteps
    <2>3. serving' \in (Steps \ {"idle"}) \X Goals
        BY <1>14, <2>1 DEF Submit
    <2> QED BY <1>14, <2>2, <2>3, ServerKeeps DEF Submit
<1>15. CASE ReplyGoal
    <2>1. Goal \in Goals /\ "goal" \in Kinds
        BY <1>15, ServingTypes DEF ReplyGoal
    <2>2. replies' \in [Kinds -> Seq(Goals)] /\ lost' \subseteq Kinds \X Goals
        BY <1>15, <2>1, SendTypes DEF ReplyGoal
    <2> QED BY <1>6, <1>15, <2>2 DEF ReplyGoal
<1>16. CASE RequestResult
    <2>1. CASE down
        BY <1>9, <1>16, <2>1 DEF RequestResult
    <2>2. CASE ~down
        <3>1. PICK res \in Stale("results", results), req \in Stale("requests", asked) :
                /\ Pruned(res, req)
                /\ results' = results \ res
                /\ asked' \subseteq asked \cup {Goal}
                /\ serving' = <<"publish", Goal>> \/ serving' = Idle
            BY <1>16, <2>2 DEF RequestResult
        <3>2. expired' \in SUBSET Goals /\ status' \in [Goals -> Statuses]
            BY <3>1, PrunedTypes
        <3>3. asked' \in SUBSET (Goals \cup {Goal}) /\ results' \in SUBSET Goals
            BY <3>1
        <3> QED BY <1>9, <1>16, <3>1, <3>2, <3>3 DEF RequestResult
    <2> QED BY <2>1, <2>2
<1>17. CASE TakeResultHere
    <2>1. Goal \in Goals
        BY <1>17, ServingTypes DEF TakeResultHere
    <2>2. /\ asked' \in SUBSET Goals /\ results' \in SUBSET Goals
          /\ expired' \in SUBSET Goals /\ status' \in [Goals -> Statuses]
          /\ serving' = <<"send", Goal>> \/ serving' = Idle
        BY <1>17, <2>1, TakeResultTypes DEF TakeResultHere, Serve
    <2> QED BY <1>9, <1>17, <2>2 DEF TakeResultHere
<1>18. CASE SendResultHere
    <2>1. Goal \in Goals /\ "result" \in Kinds
        BY <1>18, ServingTypes DEF SendResultHere
    <2>2. /\ replies' \in [Kinds -> Seq(Goals)] /\ lost' \subseteq Kinds \X Goals
          /\ serving' = <<"clear", Goal>> \/ serving' = Idle
        BY <1>18, <2>1, SendTypes DEF SendResultHere, Serve
    <2> QED BY <1>6, <1>18, <2>2 DEF SendResultHere
<1>19. CASE ClearStatusHere
    BY <1>4, <1>7, <1>19 DEF ClearStatusHere
<1>20. CASE LookUpHandle
    BY <1>8, <1>20 DEF LookUpHandle
<1>21. CASE MarkCanceling
    BY <1>4, <1>7, <1>21 DEF MarkCanceling
<1>22. CASE ReplyCancel
    <2>1. Goal \in Goals /\ "cancel" \in Kinds
        BY <1>22, ServingTypes DEF ReplyCancel
    <2>2. replies' \in [Kinds -> Seq(Goals)] /\ lost' \subseteq Kinds \X Goals
        BY <1>22, <2>1, SendTypes DEF ReplyCancel
    <2> QED BY <1>6, <1>22, <2>2 DEF ReplyCancel
<1>23. CASE DestroyServer
    <2>1. /\ status' \in [Goals -> Statuses] /\ xpc' \in [Goals -> JobSteps] /\ down' \in BOOLEAN
          /\ handles' \in SUBSET Goals /\ asked' \in SUBSET Goals /\ results' \in SUBSET Goals
        BY <1>23 DEF DestroyServer, Statuses, JobSteps
    <2>2. UNCHANGED <<clientVars, topicVars, serving, refused, expired>>
        BY <1>23 DEF DestroyServer
    <2> QED BY <1>1, <2>1, <2>2, ServerKeeps
<1> QED BY <1>5, <1>10, <1>11, <1>12, <1>13, <1>14, <1>15, <1>16, <1>17, <1>18, <1>19, <1>20,
           <1>21, <1>22, <1>23 DEF ServerStep

LEMMA JobsTypes ==
    ASSUME TypeOK, NEW g \in Goals, JobStep(g)
    PROVE  TypeOK'
<1> USE Types, KindTypes DEF topicVars, goalVars, resultVars
<1>1. serving' = serving => serving' = Idle \/ serving' \in (Steps \ {"idle"}) \X Goals
    BY DEF TypeOK, Idle
<1>2. {"executing", "submitted", "running", "mark", "mark and publish", "publish", "send", "clear", "over"} \subseteq JobSteps
    BY DEF JobSteps
<1>3. {"none", "executing", "done"} \subseteq Statuses
    BY DEF Statuses
<1>4. CASE StartJob(g)
    <2>1. xpc' \in [Goals -> JobSteps]
        BY <1>2, <1>4, JobTypes DEF StartJob
    <2>2. UNCHANGED <<clientVars, topicVars, serving, goalVars, resultVars, status, down>>
        BY <1>4 DEF StartJob
    <2> QED BY <1>1, <2>1, <2>2, ServerKeeps
<1>5. CASE Complete(g)
    <2>1. UNCHANGED <<clientVars, topicVars, serving, refused, down>>
        BY <1>5 DEF Complete
    <2>2. CASE down
        <3>1. Job(g, "running", "over") /\ UNCHANGED <<handles, resultVars, status>>
            BY <1>5, <2>2 DEF Complete
        <3>2. xpc' \in [Goals -> JobSteps]
            BY <1>2, <3>1, JobTypes
        <3> QED BY <1>1, <2>1, <3>1, <3>2, ServerKeeps
    <2>3. CASE ~down
        <3>1. PICK res \in Stale("results", results), req \in Stale("requests", asked) :
                /\ Pruned(res, req)
                /\ results' = (results \ res) \cup {g} /\ asked' = asked \ (res \cup req)
                /\ Job(g, "running", IF g \in asked' THEN "mark and publish" ELSE "mark")
            BY <1>5, <2>3 DEF Complete
        <3>2. xpc' \in [Goals -> JobSteps]
            BY <1>2, <3>1, JobTypes
        <3>3. expired' \in SUBSET Goals /\ status' \in [Goals -> Statuses]
            BY <3>1, PrunedTypes
        <3>4. handles' \in SUBSET Goals /\ results' \in SUBSET Goals /\ asked' \in SUBSET Goals
            BY <1>5, <2>3, <3>1 DEF Complete
        <3> QED BY <1>1, <2>1, <3>2, <3>3, <3>4, ServerKeeps
    <2> QED BY <2>2, <2>3
<1>6. CASE MarkDone(g)
    <2>1. xpc' \in [Goals -> JobSteps]
        BY <1>2, <1>6, JobTypes DEF MarkDone
    <2>2. status' \in [Goals -> Statuses]
        BY <1>3, <1>6, StatusTypes DEF MarkDone
    <2>3. UNCHANGED <<clientVars, topicVars, serving, goalVars, resultVars, down>>
        BY <1>6 DEF MarkDone
    <2> QED BY <1>1, <2>1, <2>2, <2>3, ServerKeeps
<1>7. CASE TakeResultInJob(g)
    <2>1. /\ asked' \in SUBSET Goals /\ results' \in SUBSET Goals
          /\ expired' \in SUBSET Goals /\ status' \in [Goals -> Statuses]
          /\ Job(g, "publish", "send") \/ Job(g, "publish", "over")
        BY <1>7, TakeResultTypes DEF TakeResultInJob
    <2>2. xpc' \in [Goals -> JobSteps]
        BY <1>2, <2>1, JobTypes
    <2>3. UNCHANGED <<clientVars, topicVars, serving, goalVars, down>>
        BY <1>7 DEF TakeResultInJob
    <2> QED BY <1>1, <2>1, <2>2, <2>3, ServerKeeps
<1>8. CASE SendResultInJob(g)
    <2>1. /\ replies' \in [Kinds -> Seq(Goals)] /\ lost' \subseteq Kinds \X Goals
          /\ Job(g, "send", "clear") \/ Job(g, "send", "over")
        BY <1>8, SendTypes DEF SendResultInJob
    <2>2. xpc' \in [Goals -> JobSteps]
        BY <1>2, <2>1, JobTypes
    <2>3. UNCHANGED <<clientVars, requests, serving, goalVars, resultVars, status, down>>
        BY <1>8 DEF SendResultInJob
    <2> QED BY <1>1, <2>1, <2>2, <2>3, ServerKeeps
<1>9. CASE ClearStatusInJob(g)
    <2>1. xpc' \in [Goals -> JobSteps]
        BY <1>2, <1>9, JobTypes DEF ClearStatusInJob
    <2>2. status' \in [Goals -> Statuses]
        BY <1>3, <1>9, StatusTypes DEF ClearStatusInJob
    <2>3. UNCHANGED <<clientVars, topicVars, serving, goalVars, resultVars, down>>
        BY <1>9 DEF ClearStatusInJob
    <2> QED BY <1>1, <2>1, <2>2, <2>3, ServerKeeps
<1>10. CASE MarkHanded(g)
    <2>1. xpc' \in [Goals -> JobSteps]
        BY <1>2, <1>10, JobTypes DEF MarkHanded
    <2>2. status' \in [Goals -> Statuses]
        BY <1>3, <1>10, StatusTypes DEF MarkHanded
    <2>3. UNCHANGED <<clientVars, topicVars, serving, goalVars, resultVars, down>>
        BY <1>10 DEF MarkHanded
    <2> QED BY <1>1, <2>1, <2>2, <2>3, ServerKeeps
<1>11. CASE SubmitHanded(g)
    <2>1. xpc' \in [Goals -> JobSteps]
        BY <1>2, <1>11, JobTypes DEF SubmitHanded
    <2>2. UNCHANGED <<clientVars, topicVars, serving, goalVars, resultVars, status, down>>
        BY <1>11 DEF SubmitHanded
    <2> QED BY <1>1, <2>1, <2>2, ServerKeeps
<1> QED BY <1>4, <1>5, <1>6, <1>7, <1>8, <1>9, <1>10, <1>11 DEF JobStep

\* Every variable keeps its type (code: the tables of ActionClient and
\* ActionServer, the topics between them and the jobs of the pool).
THEOREM TypeCorrect == Spec => []TypeOK
<1>1. Init => TypeOK
    <2> SUFFICES ASSUME Init PROVE TypeOK
        OBVIOUS
    <2>1. /\ rpc \in [Kinds -> [Goals -> Calls]] /\ fut \in [Kinds -> [Goals -> Outcomes]]
          /\ registered \in [Kinds -> SUBSET Goals]
        BY DEF Init, PerRequest, Calls, Outcomes
    <2>2. /\ keys \in [Ordered -> Seq(Goals)]
          /\ requests \in [Kinds -> Seq(Goals)] /\ replies \in [Kinds -> Seq(Goals)]
        BY EmptySeq DEF Init
    <2>3. status \in [Goals -> Statuses] /\ xpc \in [Goals -> JobSteps]
        BY DEF Init, Statuses, JobSteps
    <2> QED BY <2>1, <2>2, <2>3 DEF Init, TypeOK, Calls, Outcomes, Statuses, JobSteps, Idle
<1>2. TypeOK /\ [Next]_vars => TypeOK'
    <2> SUFFICES ASSUME TypeOK, [Next]_vars PROVE TypeOK'
        OBVIOUS
    <2>1. CASE UNCHANGED vars
        BY <2>1 DEF vars, clientVars, callVars, replyVars, topicVars, serverVars, goalVars,
               resultVars, TypeOK, Idle
    <2>2. CASE Next
        BY <2>2, CallTypes, ClientTypes, ServerTypes, JobsTypes DEF Next
    <2> QED BY <2>1, <2>2
<1> QED BY <1>1, <1>2, PTL DEF Spec

-----------------------------------------------------------------------------
(* A goal is requested once                                                  *)

Distinct == \A i, j \in DOMAIN requests["goal"] : requests["goal"][i] = requests["goal"][j] => i = j

\* A request topic that lost its oldest request, ...
LEMMA AsksTail ==
    ASSUME TypeOK, NEW k \in Kinds, requests[k] # <<>>,
           requests' = [requests EXCEPT ![k] = Tail(@)]
    PROVE  /\ \A q \in Kinds : Asks(q)' \subseteq Asks(q)
           /\ Head(requests[k]) \in Asks(k)
           /\ Distinct => Distinct'
           /\ Distinct /\ k = "goal" => Head(requests["goal"]) \notin Asks("goal")'
<1> DEFINE s == requests[k]
<1>1. s \in Seq(Goals) /\ Len(s) \in Nat \ {0} /\ DOMAIN s = 1..Len(s)
    BY Types, EmptySeq, LenProperties
<1>2. requests'[k] = Tail(s) /\ \A q \in Kinds \ {k} : requests'[q] = requests[q]
    BY Types
<1> HIDE DEF s
<1>3. /\ DOMAIN Tail(s) = 1..Len(s) - 1
      /\ \A i \in 1..Len(s) - 1 : Tail(s)[i] = s[i + 1] /\ i + 1 \in 1..Len(s)
    <2>1. Len(Tail(s)) = Len(s) - 1 /\ Tail(s) \in Seq(Goals)
        BY <1>1, EmptySeq, HeadTailProperties
    <2>2. DOMAIN Tail(s) = 1..Len(s) - 1
        BY <2>1, LenProperties
    <2>3. \A i \in 1..Len(s) - 1 : Tail(s)[i] = s[i + 1]
        BY <1>1, EmptySeq, HeadTailProperties, <2>1
    <2> QED BY <1>1, <2>2, <2>3
<1>4. Head(s) = s[1]
    BY <1>1
<1>5. Asks(k)' = {Tail(s)[i] : i \in 1..Len(s) - 1} /\ Asks(k) = {s[i] : i \in 1..Len(s)}
    BY <1>1, <1>2, <1>3 DEF Asks, s
<1>6. \A q \in Kinds : Asks(q)' \subseteq Asks(q)
    <2>1. Asks(k)' \subseteq Asks(k)
        BY <1>3, <1>5
    <2>2. \A q \in Kinds \ {k} : Asks(q)' = Asks(q)
        BY <1>2 DEF Asks
    <2> QED BY <2>1, <2>2
<1>7. Head(s) \in Asks(k)
    BY <1>1, <1>4, <1>5
<1>8. ASSUME Distinct PROVE Distinct' /\ (k = "goal" => Head(s) \notin Asks("goal")')
    <2>1. CASE k = "goal"
        <3>1. \A i, j \in 1..Len(s) : s[i] = s[j] => i = j
            BY <1>1, <1>8, <2>1 DEF Distinct, s
        <3>2. \A i, j \in 1..Len(s) - 1 : Tail(s)[i] = Tail(s)[j] => i = j
            BY <1>1, <1>3, <3>1
        <3>3. Distinct'
            <4>1. requests'["goal"] = Tail(s)
                BY <1>2, <2>1
            <4> HIDE <2>1
            <4> QED BY <1>3, <3>2, <4>1 DEF Distinct
        <3>4. \A i \in 1..Len(s) - 1 : Tail(s)[i] # s[1]
            <4>1. \A i \in 1..Len(s) - 1 : i + 1 # 1 /\ 1 \in 1..Len(s)
                BY <1>1
            <4> QED BY <1>3, <3>1, <4>1
        <3> QED BY <1>4, <1>5, <2>1, <3>3, <3>4
    <2>2. CASE k # "goal"
        BY <1>2, <1>8, <2>2, KindTypes DEF Distinct
    <2> QED BY <2>1, <2>2
<1> QED BY <1>6, <1>7, <1>8 DEF s

\* ... and one that got another.
LEMMA AsksAppend ==
    ASSUME TypeOK, NEW k \in Kinds, NEW g \in Goals,
           requests' = [requests EXCEPT ![k] = Append(@, g)]
    PROVE  /\ Asks(k)' = Asks(k) \cup {g} /\ \A q \in Kinds \ {k} : Asks(q)' = Asks(q)
           /\ Distinct /\ (k = "goal" => g \notin Asks("goal")) => Distinct'
<1> DEFINE s == requests[k]
<1>1. s \in Seq(Goals) /\ Len(s) \in Nat /\ DOMAIN s = 1..Len(s)
    BY Types, LenProperties
<1>2. requests'[k] = Append(s, g) /\ \A q \in Kinds \ {k} : requests'[q] = requests[q]
    BY Types
<1> HIDE DEF s
<1>3. /\ DOMAIN Append(s, g) = 1..Len(s) + 1 /\ Append(s, g)[Len(s) + 1] = g
      /\ \A i \in 1..Len(s) : Append(s, g)[i] = s[i]
    BY <1>1, AppendProperties, LenProperties
<1>4. 1..Len(s) + 1 = (1..Len(s)) \cup {Len(s) + 1}
    BY <1>1
<1>5. Asks(k)' = {Append(s, g)[i] : i \in 1..Len(s) + 1} /\ Asks(k) = {s[i] : i \in 1..Len(s)}
    BY <1>1, <1>2, <1>3 DEF Asks, s
<1>6. Asks(k)' = Asks(k) \cup {g}
    BY <1>3, <1>4, <1>5
<1>7. \A q \in Kinds \ {k} : Asks(q)' = Asks(q)
    BY <1>2 DEF Asks
<1>8. ASSUME Distinct, k = "goal" => g \notin Asks("goal") PROVE Distinct'
    <2>1. CASE k = "goal"
        <3>1. /\ \A i, j \in 1..Len(s) : s[i] = s[j] => i = j
              /\ \A i \in 1..Len(s) : s[i] # g
            BY <1>1, <1>5, <1>8, <2>1 DEF Distinct, s
        <3>2. \A i, j \in 1..Len(s) + 1 : Append(s, g)[i] = Append(s, g)[j] => i = j
            BY <1>3, <1>4, <3>1
        <3> QED BY <1>2, <1>3, <2>1, <3>2 DEF Distinct
    <2>2. CASE k # "goal"
        BY <1>2, <1>8, <2>2, KindTypes DEF Distinct
    <2> QED BY <2>1, <2>2
<1> QED BY <1>6, <1>7, <1>8

\* What keeps OnceInv: no new request is taken up, no job begins, and a final
\* status comes from a job.
LEMMA OnceFrame ==
    ASSUME OnceInv, Distinct => Distinct', \A k \in Kinds : Asks(k)' \subseteq Asks(k),
           \A g \in Goals : /\ rpc["goal"][g] = "done" => rpc'["goal"][g] = "done"
                            /\ rpc["cancel"][g] # "new" => rpc'["cancel"][g] # "new"
                            /\ Begins(g)' => Begins(g)
                            /\ Cancels(g)' => Cancels(g)
                            /\ xpc'[g] = "none" <=> xpc[g] = "none"
                            /\ xpc'[g] = "handed" => xpc[g] = "handed"
                            /\ status'[g] = "done"
                                 => status[g] = "done" \/ xpc'[g] \notin {"none", "handed"}
    PROVE  OnceInv'
<1>1. Distinct'
    BY DEF OnceInv, Distinct
<1>2. Asks("goal")' \subseteq Asks("goal") /\ Asks("cancel")' \subseteq Asks("cancel")
    BY KindTypes
<1>3. ASSUME NEW g \in Goals
      PROVE  /\ rpc'["goal"][g] # "done" => g \notin Asks("goal")' /\ ~Begins(g)' /\ xpc'[g] = "none"
             /\ g \in Asks("goal")' => ~Begins(g)'
             /\ g \in Asks("goal")' \/ Begins(g)' => xpc'[g] = "none"
             /\ status'[g] = "done" => xpc'[g] \notin {"none", "handed"}
             /\ g \in Asks("cancel")' \/ Cancels(g)' => rpc'["cancel"][g] # "new"
    BY <1>2 DEF OnceInv
<1> QED BY <1>1, <1>3 DEF OnceInv, Distinct

\* A callback goes on with the goal it serves.
LEMMA Serves ==
    ASSUME TypeOK, NEW s, s # "idle", Doing(s)
    PROVE  Goal \in Goals /\ serving = <<s, Goal>>
BY ServingTypes DEF Doing

LEMMA JobFrame ==
    ASSUME TypeOK, NEW g \in Goals, NEW from, NEW to, Job(g, from, to)
    PROVE  /\ xpc[g] = from /\ xpc'[g] = to /\ \A h \in Goals \ {g} : xpc'[h] = xpc[h]
BY Types DEF Job

LEMMA StatusFrame ==
    ASSUME TypeOK, NEW g \in Goals, NEW s, SetStatus(g, s)
    PROVE  /\ \A h \in Goals \ {g} : status'[h] = status[h]
           /\ status'[g] \in {status[g], s}
BY Types DEF SetStatus

LEMMA ClientKeepsOnce ==
    ASSUME TypeOK, OnceInv,
           \/ \E k \in Kinds, g \in Goals : Register(k, g) \/ CallStep(k, g) \/ Abandon(k, g)
           \/ ClientStep \/ DestroyClient \/ CancelRegistered
    PROVE  OnceInv'
<1> USE Types, KindTypes
<1>1. CASE UNCHANGED <<rpc, requests, serving, xpc, status>>
    BY <1>1 DEF OnceInv, Asks, Begins, Cancels
<1>2. ASSUME NEW k \in Kinds, NEW g \in Goals, NEW from, NEW to, from # "done", to # "new",
             Goto(k, g, from, to), UNCHANGED <<requests, serving, xpc, status>>
      PROVE  OnceInv'
    <2>1. /\ rpc[k][g] = from /\ rpc'[k][g] = to
          /\ \A q \in Kinds, h \in Goals : q # k \/ h # g => rpc'[q][h] = rpc[q][h]
        BY <1>2 DEF Goto
    <2>2. \A h \in Goals : /\ rpc["goal"][h] = "done" => rpc'["goal"][h] = "done"
                           /\ rpc["cancel"][h] # "new" => rpc'["cancel"][h] # "new"
        BY <1>2, <2>1
    <2>3. /\ Distinct' = Distinct /\ \A q \in Kinds : Asks(q)' = Asks(q)
          /\ \A h \in Goals : Begins(h)' = Begins(h) /\ Cancels(h)' = Cancels(h)
        BY <1>2 DEF Distinct, Asks, Begins, Cancels
    <2> QED BY <1>2, <2>2, <2>3, OnceFrame
<1>3. ASSUME NEW k \in Kinds, NEW g \in Goals, Register(k, g) PROVE OnceInv'
    BY <1>2, <1>3 DEF Register, topicVars, serverVars
<1>4. ASSUME NEW k \in Kinds, NEW g \in Goals, PublishFails(k, g) \/ SetException(k, g) PROVE OnceInv'
    BY <1>2, <1>4 DEF PublishFails, SetException, topicVars, serverVars
<1>5. ASSUME NEW k \in Kinds, NEW g \in Goals, Publish(k, g) PROVE OnceInv'
    <2>1. UNCHANGED <<serving, xpc, status>> /\ Goto(k, g, "publish", "done")
        BY <1>5 DEF Publish, serverVars
    <2>2. CASE down
        <3>1. requests' = requests
            BY <1>5, <2>2 DEF Publish
        <3> QED BY <1>2, <2>1, <3>1
    <2>3. CASE ~down
        <3>1. requests' = [requests EXCEPT ![k] = Append(@, g)]
            BY <1>5, <2>3 DEF Publish
        <3>2. /\ rpc[k][g] = "publish" /\ rpc'[k][g] = "done"
              /\ \A q \in Kinds, h \in Goals : q # k \/ h # g => rpc'[q][h] = rpc[q][h]
            BY <2>1 DEF Goto
        <3>3. k = "goal" => g \notin Asks("goal") /\ ~Begins(g) /\ xpc[g] = "none"
            BY <3>2 DEF OnceInv
        <3>4. Asks(k)' = Asks(k) \cup {g} /\ \A q \in Kinds \ {k} : Asks(q)' = Asks(q)
            BY <3>1, AsksAppend
        <3>5. Distinct'
            BY <3>1, <3>3, AsksAppend DEF OnceInv, Distinct
        <3>6. \A h \in Goals : Begins(h)' = Begins(h) /\ Cancels(h)' = Cancels(h)
            BY <2>1 DEF Begins, Cancels
        <3>7. /\ \A h \in Asks("goal")' : h \in Asks("goal") \/ (k = "goal" /\ h = g)
              /\ \A h \in Asks("cancel")' : h \in Asks("cancel") \/ (k = "cancel" /\ h = g)
            <4>1. CASE k = "goal"
                BY <3>4, <4>1 DEF Kinds
            <4>2. CASE k = "cancel"
                BY <3>4, <4>2 DEF Kinds
            <4>3. CASE k = "result"
                BY <3>4, <4>3 DEF Kinds
            <4> QED BY <4>1, <4>2, <4>3 DEF Kinds
        <3>8. ASSUME NEW h \in Goals
              PROVE  /\ rpc'["goal"][h] # "done" => h \notin Asks("goal")' /\ ~Begins(h)' /\ xpc'[h] = "none"
                     /\ h \in Asks("goal")' => ~Begins(h)'
                     /\ h \in Asks("goal")' \/ Begins(h)' => xpc'[h] = "none"
                     /\ status'[h] = "done" => xpc'[h] \notin {"none", "handed"}
                     /\ h \in Asks("cancel")' \/ Cancels(h)' => rpc'["cancel"][h] # "new"
            <4>1. rpc'["goal"][h] # "done" => rpc["goal"][h] # "done" /\ ~(k = "goal" /\ h = g)
                BY <3>2
            <4>2. rpc["cancel"][h] # "new" \/ (k = "cancel" /\ h = g) => rpc'["cancel"][h] # "new"
                BY <3>2
            <4>3. Begins(h)' = Begins(h) /\ Cancels(h)' = Cancels(h) /\ xpc'[h] = xpc[h] /\ status'[h] = status[h]
                BY <2>1, <3>6
            <4>4. h \in Asks("goal")' => h \in Asks("goal") \/ (~Begins(h) /\ xpc[h] = "none")
                BY <3>3, <3>7 DEF Begins
            <4>5. /\ rpc["goal"][h] # "done" => h \notin Asks("goal") /\ ~Begins(h) /\ xpc[h] = "none"
                  /\ h \in Asks("goal") => ~Begins(h)
                  /\ h \in Asks("goal") \/ Begins(h) => xpc[h] = "none"
                  /\ status[h] = "done" => xpc[h] \notin {"none", "handed"}
                  /\ h \in Asks("cancel") \/ Cancels(h) => rpc["cancel"][h] # "new"
                BY DEF OnceInv
            <4>6. /\ h \in Asks("goal")' => h \in Asks("goal") \/ (k = "goal" /\ h = g)
                  /\ h \in Asks("cancel")' => h \in Asks("cancel") \/ (k = "cancel" /\ h = g)
                BY <3>7
            <4> QED BY <4>1, <4>2, <4>3, <4>4, <4>5, <4>6
        <3> QED BY <3>5, <3>8 DEF OnceInv, Distinct
    <2> QED BY <2>2, <2>3
<1>6. ASSUME NEW k \in Kinds, NEW g \in Goals, Cleanup(k, g) \/ Abandon(k, g) PROVE OnceInv'
    BY <1>1, <1>6 DEF Cleanup, Abandon, topicVars, serverVars
<1>7. CASE ClientStep \/ DestroyClient \/ CancelRegistered
    BY <1>1, <1>7 DEF ClientStep, TakeReply, TakeCancelReply, Resolve, DestroyClient,
           CancelRegistered, topicVars, serverVars
<1> QED BY <1>3, <1>4, <1>5, <1>6, <1>7 DEF CallStep

LEMMA ServerKeepsOnce ==
    ASSUME TypeOK, OnceInv, ServerStep \/ DestroyServer
    PROVE  OnceInv'
<1> USE Types, KindTypes
<1>1. requests' = requests => Distinct' = Distinct /\ \A q \in Kinds : Asks(q)' = Asks(q)
    BY DEF Distinct, Asks
<1>2. ASSUME NEW k \in Kinds, TakeRequest(k) PROVE OnceInv'
    <2>1. /\ requests[k] # <<>> /\ requests' = [requests EXCEPT ![k] = Tail(@)]
          /\ UNCHANGED <<rpc, xpc, status>> /\ Doing("idle")
          /\ serving' = IF down THEN Idle ELSE <<k, Head(requests[k])>>
        BY <1>2 DEF TakeRequest, clientVars, callVars
    <2>2. /\ \A q \in Kinds : Asks(q)' \subseteq Asks(q)
          /\ Head(requests[k]) \in Asks(k)
          /\ Distinct'
          /\ k = "goal" => Head(requests["goal"]) \notin Asks("goal")'
        BY <2>1, AsksTail DEF OnceInv, Distinct
    <2>3. \A h \in Goals : ~Begins(h) /\ ~Cancels(h)
        BY <2>1, ServingTypes DEF Doing, Begins, Cancels
    <2>4. \A h \in Goals : /\ Begins(h)' => k = "goal" /\ h = Head(requests["goal"])
                           /\ Cancels(h)' => k = "cancel" /\ h = Head(requests["cancel"])
        BY <2>1 DEF Begins, Cancels, Idle, Kinds
    <2>5. ASSUME NEW h \in Goals
          PROVE  /\ rpc'["goal"][h] # "done" => h \notin Asks("goal")' /\ ~Begins(h)' /\ xpc'[h] = "none"
                 /\ h \in Asks("goal")' => ~Begins(h)'
                 /\ h \in Asks("goal")' \/ Begins(h)' => xpc'[h] = "none"
                 /\ status'[h] = "done" => xpc'[h] \notin {"none", "handed"}
                 /\ h \in Asks("cancel")' \/ Cancels(h)' => rpc'["cancel"][h] # "new"
        <3>1. Asks("goal")' \subseteq Asks("goal") /\ Asks("cancel")' \subseteq Asks("cancel")
            BY <2>2
        <3>2. Begins(h)' => h \in Asks("goal") /\ h \notin Asks("goal")'
            BY <2>2, <2>4
        <3>3. Cancels(h)' => h \in Asks("cancel")
            BY <2>2, <2>4
        <3> QED BY <2>1, <3>1, <3>2, <3>3 DEF OnceInv
    <2> QED BY <2>2, <2>5 DEF OnceInv, Distinct
<1>3. ASSUME NEW s, s # "idle", Doing(s),
             NEW t \in {"idle", "reply", "publish", "send", "clear", "execute", "submit", "accepted",
                        "canceling", "replyCancel"},
             t \in {"execute", "submit", "accepted"} => s \in {"goal", "accepted", "execute"},
             t \in {"canceling", "replyCancel"} => s \in {"cancel", "canceling"},
             serving' = IF t = "idle" THEN Idle ELSE <<t, Goal>>
      PROVE  \A h \in Goals : (Begins(h)' => Begins(h)) /\ (Cancels(h)' => Cancels(h))
    <2>1. serving = <<s, Goal>>
        BY <1>3, Serves
    <2> QED BY <1>3, <2>1 DEF Begins, Cancels, Idle
<1>4. ASSUME UNCHANGED <<rpc, requests, xpc>>,
             \A h \in Goals : status'[h] = "done" => status[h] = "done",
             \A h \in Goals : (Begins(h)' => Begins(h)) /\ (Cancels(h)' => Cancels(h))
      PROVE  OnceInv'
    BY <1>1, <1>4, OnceFrame
<1>20. ASSUME NEW s \in {"accepted", "submit"}, NEW t \in {"handed", "submitted"}, Doing(s),
              UNCHANGED <<rpc, requests>>, serving' = <<"reply", Goal>>,
              xpc' = xpc \/ xpc' = [xpc EXCEPT ![Goal] = t],
              \A h \in Goals : status'[h] = "done" => status[h] = "done"
       PROVE  OnceInv'
    <2>1. Goal \in Goals /\ serving = <<s, Goal>>
        BY <1>20, Serves
    <2>2. xpc'[Goal] \in {xpc[Goal], t} /\ \A h \in Goals \ {Goal} : xpc'[h] = xpc[h]
        BY <1>20, <2>1
    <2>3. \A h \in Goals : ~Begins(h)' /\ ~Cancels(h)'
        BY <1>20 DEF Begins, Cancels
    <2>4. Begins(Goal)
        BY <2>1 DEF Begins
    <2>5. rpc["goal"][Goal] = "done" /\ Goal \notin Asks("goal") /\ status[Goal] # "done"
        BY <2>1, <2>4 DEF OnceInv
    <2>6. Distinct' /\ Asks("goal")' = Asks("goal") /\ Asks("cancel")' = Asks("cancel")
        BY <1>1, <1>20 DEF OnceInv, Distinct
    <2>7. ASSUME NEW h \in Goals
          PROVE  /\ rpc'["goal"][h] # "done" => h \notin Asks("goal")' /\ ~Begins(h)' /\ xpc'[h] = "none"
                 /\ h \in Asks("goal")' => ~Begins(h)'
                 /\ h \in Asks("goal")' \/ Begins(h)' => xpc'[h] = "none"
                 /\ status'[h] = "done" => xpc'[h] \notin {"none", "handed"}
                 /\ h \in Asks("cancel")' \/ Cancels(h)' => rpc'["cancel"][h] # "new"
        BY <1>20, <2>2, <2>3, <2>5, <2>6 DEF OnceInv
    <2> QED BY <2>6, <2>7 DEF OnceInv, Distinct
<1>5. CASE Reject
    BY <1>3, <1>4, <1>5 DEF Reject, clientVars, callVars, topicVars
<1>6. CASE Accept
    BY <1>3, <1>4, <1>6 DEF Accept, clientVars, callVars, topicVars
<1>7. CASE MarkAccepted
    <2>1. /\ \A h \in Goals : status'[h] = "done" => status[h] = "done"
          /\ UNCHANGED <<rpc, requests>> /\ Doing("accepted")
        BY <1>7, Serves, StatusFrame DEF MarkAccepted, clientVars, callVars, topicVars
    <2>2. CASE Goal \in Deferred
        <3>1. serving' = <<"reply", Goal>> /\ xpc' = [xpc EXCEPT ![Goal] = "handed"]
            BY <1>7, <2>2 DEF MarkAccepted
        <3> QED BY <1>20, <2>1, <3>1
    <2>3. CASE Goal \notin Deferred
        BY <1>3, <1>4, <1>7, <2>1, <2>3 DEF MarkAccepted
    <2> QED BY <2>2, <2>3
<1>8. CASE MarkExecuting
    <2>1. \A h \in Goals : status'[h] = "done" => status[h] = "done"
        BY <1>8, Serves, StatusFrame DEF MarkExecuting
    <2> QED BY <1>3, <1>4, <1>8, <2>1 DEF MarkExecuting, clientVars, callVars, topicVars
<1>9. CASE Submit
    BY <1>20, <1>9 DEF Submit, clientVars, callVars, topicVars
<1>10. CASE ReplyGoal
    BY <1>3, <1>4, <1>10 DEF ReplyGoal, clientVars, callVars
<1>11. ASSUME NEW res \in Stale("results", results), NEW req \in Stale("requests", asked), Pruned(res, req)
       PROVE  \A h \in Goals : status'[h] = "done" => status[h] = "done"
    BY <1>11, PrunedTypes
<1>12. CASE RequestResult
    <2>1. \A h \in Goals : status'[h] = "done" => status[h] = "done"
        BY <1>11, <1>12 DEF RequestResult
    <2>2. Doing("result") /\ (serving' = Idle \/ serving' = <<"publish", Goal>>)
        BY <1>12 DEF RequestResult
    <2>3. \A h \in Goals : (Begins(h)' => Begins(h)) /\ (Cancels(h)' => Cancels(h))
        BY <1>3, <2>2
    <2> QED BY <1>4, <1>12, <2>1, <2>3 DEF RequestResult, clientVars, callVars, topicVars
<1>13. CASE TakeResultHere
    <2>1. Goal \in Goals
        BY <1>13, Serves DEF TakeResultHere
    <2>2. /\ \A h \in Goals : status'[h] \in {"none", status[h]}
          /\ serving' = <<"send", Goal>> \/ serving' = Idle
        BY <1>13, <2>1, TakeResultTypes DEF TakeResultHere, Serve
    <2>3. Doing("publish")
        BY <1>13 DEF TakeResultHere
    <2>4. \A h \in Goals : (Begins(h)' => Begins(h)) /\ (Cancels(h)' => Cancels(h))
        BY <1>3, <2>2, <2>3
    <2> QED BY <1>4, <1>13, <2>2, <2>4 DEF TakeResultHere, clientVars, callVars, topicVars
<1>14. CASE SendResultHere
    <2>1. Goal \in Goals /\ Doing("send")
        BY <1>14, Serves DEF SendResultHere
    <2>2. serving' = <<"clear", Goal>> \/ serving' = Idle
        BY <1>14, <2>1, SendTypes DEF SendResultHere, Serve
    <2>3. \A h \in Goals : (Begins(h)' => Begins(h)) /\ (Cancels(h)' => Cancels(h))
        BY <1>3, <2>1, <2>2
    <2> QED BY <1>4, <1>14, <2>3 DEF SendResultHere, clientVars, callVars
<1>15. CASE ClearStatusHere
    <2>1. \A h \in Goals : status'[h] = "done" => status[h] = "done"
        BY <1>15, Serves, StatusFrame DEF ClearStatusHere
    <2> QED BY <1>3, <1>4, <1>15, <2>1 DEF ClearStatusHere, clientVars, callVars, topicVars
<1>16. CASE LookUpHandle
    <2>1. \A h \in Goals : (Begins(h)' => Begins(h)) /\ (Cancels(h)' => Cancels(h))
        BY <1>3, <1>16 DEF LookUpHandle
    <2> QED BY <1>4, <1>16, <2>1 DEF LookUpHandle, clientVars, callVars, topicVars
<1>17. CASE MarkCanceling
    <2>1. \A h \in Goals : status'[h] = "done" => status[h] = "done"
        BY <1>17, Serves, StatusFrame DEF MarkCanceling
    <2> QED BY <1>3, <1>4, <1>17, <2>1 DEF MarkCanceling, clientVars, callVars, topicVars
<1>18. CASE ReplyCancel
    BY <1>3, <1>4, <1>18 DEF ReplyCancel, clientVars, callVars
<1>19. CASE DestroyServer
    <2>1. /\ UNCHANGED <<rpc, requests, serving>> /\ \A h \in Goals : status'[h] = "none"
          /\ \A h \in Goals : (xpc'[h] = "none" <=> xpc[h] = "none") /\ (xpc'[h] = "handed" => xpc[h] = "handed")
        BY <1>19 DEF DestroyServer, clientVars, callVars, topicVars
    <2>2. \A h \in Goals : Begins(h)' = Begins(h) /\ Cancels(h)' = Cancels(h)
        BY <2>1 DEF Begins, Cancels
    <2> QED BY <1>1, <2>1, <2>2, OnceFrame
<1> QED BY <1>2, <1>5, <1>6, <1>7, <1>8, <1>9, <1>10, <1>12, <1>13, <1>14, <1>15, <1>16, <1>17,
           <1>18, <1>19 DEF ServerStep

LEMMA JobsKeepOnce ==
    ASSUME TypeOK, OnceInv, NEW g \in Goals, JobStep(g)
    PROVE  OnceInv'
<1> USE Types, KindTypes
<1>1. ASSUME UNCHANGED <<rpc, requests, serving>>, NEW from, from # "none",
             NEW to, to \notin {"none", "handed"}, Job(g, from, to),
             \A h \in Goals : status'[h] \in {"none", status[h]} \/ h = g
      PROVE  OnceInv'
    <2>1. /\ Distinct' = Distinct /\ \A q \in Kinds : Asks(q)' = Asks(q)
          /\ \A h \in Goals : Begins(h)' = Begins(h) /\ Cancels(h)' = Cancels(h)
        BY <1>1 DEF Distinct, Asks, Begins, Cancels
    <2>2. \A h \in Goals : /\ xpc'[h] = "none" <=> xpc[h] = "none"
                           /\ xpc'[h] = "handed" => xpc[h] = "handed"
                           /\ status'[h] = "done"
                                => status[h] = "done" \/ xpc'[h] \notin {"none", "handed"}
        BY <1>1, JobFrame
    <2> QED BY <1>1, <2>1, <2>2, OnceFrame
<1>2. UNCHANGED <<rpc, requests, serving>>
    BY DEF JobStep, MarkHanded, SubmitHanded, StartJob, Complete, MarkDone, TakeResultInJob,
           SendResultInJob, ClearStatusInJob, clientVars, callVars, topicVars
<1>3. CASE StartJob(g)
    BY <1>1, <1>2, <1>3 DEF StartJob
<1>4. CASE Complete(g)
    <2>1. \A h \in Goals : status'[h] \in {"none", status[h]}
        <3>1. CASE down
            BY <1>4, <3>1 DEF Complete
        <3>2. CASE ~down
            BY <1>4, <3>2, PrunedTypes DEF Complete
        <3> QED BY <3>1, <3>2
    <2>2. \E to \in {"over", "mark", "mark and publish"} : Job(g, "running", to)
        BY <1>4 DEF Complete
    <2> QED BY <1>1, <1>2, <2>1, <2>2
<1>5. CASE MarkDone(g)
    <2>1. \A h \in Goals : status'[h] = status[h] \/ h = g
        BY <1>5, StatusFrame DEF MarkDone
    <2>2. Job(g, "mark", "over") \/ Job(g, "mark and publish", "publish")
        BY <1>5 DEF MarkDone
    <2> QED BY <1>1, <1>2, <2>1, <2>2
<1>6. CASE TakeResultInJob(g)
    <2>1. /\ \A h \in Goals : status'[h] \in {"none", status[h]}
          /\ Job(g, "publish", "send") \/ Job(g, "publish", "over")
        BY <1>6, TakeResultTypes DEF TakeResultInJob
    <2> QED BY <1>1, <1>2, <2>1
<1>7. CASE SendResultInJob(g)
    <2>1. status' = status /\ (Job(g, "send", "clear") \/ Job(g, "send", "over"))
        BY <1>7, SendTypes DEF SendResultInJob
    <2> QED BY <1>1, <1>2, <2>1
<1>8. CASE ClearStatusInJob(g)
    <2>1. \A h \in Goals : status'[h] = status[h] \/ h = g
        BY <1>8, StatusFrame DEF ClearStatusInJob
    <2>2. Job(g, "clear", "over")
        BY <1>8 DEF ClearStatusInJob
    <2> QED BY <1>1, <1>2, <2>1, <2>2
<1>9. CASE MarkHanded(g)
    <2>1. \A h \in Goals : status'[h] = status[h] \/ h = g
        BY <1>9, StatusFrame DEF MarkHanded
    <2>2. Job(g, "handed", "executing")
        BY <1>9 DEF MarkHanded
    <2> QED BY <1>1, <1>2, <2>1, <2>2
<1>10. CASE SubmitHanded(g)
    <2>1. status' = status /\ (Job(g, "executing", "submitted") \/ Job(g, "executing", "over"))
        BY <1>10 DEF SubmitHanded
    <2> QED BY <1>1, <1>2, <2>1
<1> QED BY <1>3, <1>4, <1>5, <1>6, <1>7, <1>8, <1>9, <1>10 DEF JobStep

\* A goal is requested once and has no job before its request was served (code:
\* send_goal_async and _on_send_goal with _start_execute).
THEOREM OnceHolds == Spec => []OnceInv
<1>1. Init => OnceInv
    <2> SUFFICES ASSUME Init PROVE OnceInv
        OBVIOUS
    <2>1. /\ requests["goal"] = <<>> /\ requests["cancel"] = <<>> /\ serving = <<"idle", None>>
          /\ \A g \in Goals : xpc[g] = "none" /\ status[g] = "none"
        BY KindTypes DEF Init
    <2>2. Asks("goal") = {} /\ Asks("cancel") = {} /\ \A g \in Goals : ~Begins(g) /\ ~Cancels(g)
        BY <2>1 DEF Asks, Begins, Cancels
    <2>3. Distinct
        BY <2>1 DEF Distinct
    <2> QED BY <2>1, <2>2, <2>3 DEF OnceInv, Distinct
<1>2. TypeOK /\ OnceInv /\ [Next]_vars => OnceInv'
    <2> SUFFICES ASSUME TypeOK, OnceInv, [Next]_vars PROVE OnceInv'
        OBVIOUS
    <2>1. CASE UNCHANGED vars
        <3>1. UNCHANGED <<rpc, requests, serving, xpc, status>>
            BY <2>1 DEF vars, clientVars, callVars, topicVars, serverVars
        <3> QED BY <3>1 DEF OnceInv, Asks, Begins, Cancels
    <2>2. CASE Next
        BY <2>2, ClientKeepsOnce, ServerKeepsOnce, JobsKeepOnce DEF Next
    <2> QED BY <2>1, <2>2
<1> QED BY <1>1, <1>2, TypeCorrect, PTL DEF Spec

\* The client does not touch the server's state.
LEMMA ClientSide ==
    ASSUME \/ \E k \in Kinds, h \in Goals : Register(k, h) \/ CallStep(k, h) \/ Abandon(k, h)
           \/ ClientStep \/ DestroyClient \/ CancelRegistered
    PROVE  UNCHANGED serverVars
BY DEF Register, CallStep, Publish, PublishFails, SetException, Cleanup, Abandon, ClientStep,
       TakeReply, TakeCancelReply, Resolve, DestroyClient, CancelRegistered

\* A goal that reached a final status keeps it until its entry is cleared, unless
\* somebody asked to cancel it (code: _set_status, called by the callback of the
\* goal topic, by that of the cancel topic and by the job).
THEOREM FinalStatusHolds == Spec => FinalStatusStays
<1>1. TypeOK /\ OnceInv /\ [Next]_vars =>
        [\A g \in Goals : status[g] = "done" /\ rpc["cancel"][g] = "new" => status'[g] \in {"done", "none"}]_vars
    <2> SUFFICES ASSUME TypeOK, OnceInv, Next, NEW g \in Goals,
                        status[g] = "done", rpc["cancel"][g] = "new"
                 PROVE  status'[g] \in {"done", "none"}
        OBVIOUS
    <2>1. ~Begins(g) /\ ~Cancels(g)
        BY KindTypes DEF OnceInv
    <2>2. CASE status' = status
        BY <2>2
    <2>3. ASSUME NEW from \in {"accepted", "execute", "canceling"}, NEW s, Doing(from), SetStatus(Goal, s)
          PROVE  status'[g] = "done"
        <3>1. Goal \in Goals /\ serving = <<from, Goal>>
            BY <2>3, Serves
        <3>2. Goal # g
            BY <2>1, <2>3, <3>1 DEF Begins, Cancels
        <3> QED BY <2>3, <3>1, <3>2, StatusFrame
    <2>4. ASSUME NEW res \in Stale("results", results), NEW req \in Stale("requests", asked), Pruned(res, req)
          PROVE  status'[g] \in {"done", "none"}
        BY <2>4, PrunedTypes
    <2>5. CASE MarkAccepted \/ MarkExecuting \/ MarkCanceling
        BY <2>3, <2>5 DEF MarkAccepted, MarkExecuting, MarkCanceling
    <2>6. CASE RequestResult
        BY <2>2, <2>4, <2>6 DEF RequestResult
    <2>7. CASE TakeResultHere
        BY <2>7, Serves, TakeResultTypes DEF TakeResultHere
    <2>8. CASE ClearStatusHere
        BY <2>8, Serves, StatusFrame DEF ClearStatusHere
    <2>9. ASSUME NEW h \in Goals, MarkDone(h) \/ ClearStatusInJob(h) PROVE status'[g] \in {"done", "none"}
        BY <2>9, StatusFrame DEF MarkDone, ClearStatusInJob
    <2>10. ASSUME NEW h \in Goals, Complete(h) PROVE status'[g] \in {"done", "none"}
        BY <2>2, <2>4, <2>10 DEF Complete
    <2>11. ASSUME NEW h \in Goals, TakeResultInJob(h) PROVE status'[g] \in {"done", "none"}
        BY <2>11, TakeResultTypes DEF TakeResultInJob
    <2>12. CASE DestroyServer
        BY <2>12 DEF DestroyServer
    <2>13. ASSUME NEW h \in Goals, SubmitHanded(h) \/ StartJob(h) \/ SendResultInJob(h) PROVE status' = status
        BY <2>13 DEF SubmitHanded, StartJob, SendResultInJob
    <2>16. ASSUME NEW h \in Goals, MarkHanded(h) PROVE status'[g] = "done"
        <3>1. xpc[h] = "handed" /\ SetStatus(h, "executing")
            BY <2>16 DEF MarkHanded, Job
        <3>2. g # h
            BY <3>1 DEF OnceInv
        <3> QED BY <3>1, <3>2, StatusFrame
    <2>14. CASE \/ \E k \in Kinds : TakeRequest(k)
                \/ Reject \/ Accept \/ Submit \/ ReplyGoal \/ SendResultHere \/ LookUpHandle \/ ReplyCancel
        BY <2>2, <2>14 DEF TakeRequest, Reject, Accept, Submit, ReplyGoal, SendResultHere,
               LookUpHandle, ReplyCancel
    <2>15. CASE \/ \E k \in Kinds, h \in Goals : Register(k, h) \/ CallStep(k, h) \/ Abandon(k, h)
                \/ ClientStep \/ DestroyClient \/ CancelRegistered
        <3>1. UNCHANGED serverVars
            BY <2>15, ClientSide
        <3> QED BY <2>2, <3>1 DEF serverVars
    <2> QED BY <2>2, <2>5, <2>6, <2>7, <2>8, <2>9, <2>10, <2>11, <2>12, <2>13, <2>14, <2>15, <2>16
            DEF Next, ServerStep, JobStep
<1> QED BY <1>1, TypeCorrect, OnceHolds, PTL DEF Spec, FinalStatusStays

-----------------------------------------------------------------------------
(* A pending future is held by somebody                                      *)

\* A step of one call leaves the futures of the others alone.
LEMMA SettledFrame ==
    ASSUME TypeOK, NEW k \in Kinds, NEW g \in Goals, NEW outcome, outcome # "pending",
           fut' = Settled(fut, k, g, outcome)
    PROVE  \A q \in Kinds, h \in Goals :
               fut'[q][h] = "pending" => fut[q][h] = "pending" /\ <<q, h>> # <<k, g>>
BY Types DEF Settled

LEMMA CallKeepsHeld ==
    ASSUME TypeOK, HeldInv, NEW k \in Kinds, NEW g \in Goals,
           Register(k, g) \/ CallStep(k, g) \/ Abandon(k, g)
    PROVE  HeldInv'
<1> USE Types DEF callVars, replyVars
<1>1. UNCHANGED <<inHand, gone, ending>>
    BY DEF Register, CallStep, Publish, PublishFails, SetException, Cleanup, Abandon
<1>2. ASSUME \A q \in Kinds, h \in Goals :
                fut'[q][h] = "pending" =>
                  \/ h \in registered'[q] \/ rpc'[q][h] = "fail"
                  \/ /\ fut[q][h] = "pending"
                     /\ h \in registered[q] => h \in registered'[q]
                     /\ rpc[q][h] = "fail" => rpc'[q][h] = "fail"
      PROVE  HeldInv'
    BY <1>1, <1>2 DEF HeldInv, PendingIsHeld
<1>3. \A from, to : Goto(k, g, from, to) =>
          /\ rpc[k][g] = from /\ rpc'[k][g] = to
          /\ \A q \in Kinds, h \in Goals : <<q, h>> # <<k, g>> => rpc'[q][h] = rpc[q][h]
    BY DEF Goto
<1>4. CASE Register(k, g)
    <2>1. CASE ~gone
        <3>1. /\ Goto(k, g, "new", "publish")
              /\ fut' = [fut EXCEPT ![k][g] = "pending"]
              /\ registered' = [registered EXCEPT ![k] = @ \cup {g}]
            BY <1>4, <2>1 DEF Register
        <3>2. \A q \in Kinds : registered[q] \subseteq registered'[q]
            BY <3>1
        <3>3. g \in registered'[k]
            BY <3>1
        <3>4. \A q \in Kinds, h \in Goals : <<q, h>> # <<k, g>> => fut'[q][h] = fut[q][h]
            BY <3>1
        <3> QED BY <1>2, <1>3, <3>1, <3>2, <3>3, <3>4
    <2>2. CASE gone
        <3>1. /\ Goto(k, g, "new", "done") /\ registered' = registered
              /\ fut' = [fut EXCEPT ![k][g] = "cancelled"]
            BY <1>4, <2>2 DEF Register
        <3>2. /\ fut'[k][g] = "cancelled"
              /\ \A q \in Kinds, h \in Goals : <<q, h>> # <<k, g>> => fut'[q][h] = fut[q][h]
            BY <3>1
        <3> QED BY <1>2, <1>3, <3>1, <3>2
    <2> QED BY <2>1, <2>2
<1>5. CASE Publish(k, g)
    <2>1. Goto(k, g, "publish", "done") /\ UNCHANGED <<fut, registered>>
        BY <1>5 DEF Publish
    <2>2. \A q \in Kinds, h \in Goals : rpc[q][h] = "fail" => rpc'[q][h] = "fail"
        <3>1. ASSUME NEW q \in Kinds, NEW h \in Goals, rpc[q][h] = "fail" PROVE rpc'[q][h] = "fail"
            <4>1. rpc[k][g] = "publish"
                BY <1>3, <2>1
            <4>2. <<q, h>> # <<k, g>>
                BY <3>1, <4>1
            <4> QED BY <1>3, <2>1, <3>1, <4>2
        <3> QED BY <3>1
    <2> QED BY <1>2, <2>1, <2>2
<1>6. CASE PublishFails(k, g)
    <2>1. Goto(k, g, "publish", "fail") /\ registered' = [registered EXCEPT ![k] = @ \ {g}] /\ fut' = fut
        BY <1>6 DEF PublishFails
    <2>2. \A q \in Kinds, h \in Goals : <<q, h>> # <<k, g>> /\ h \in registered[q] => h \in registered'[q]
        BY <2>1
    <2> QED BY <1>2, <1>3, <2>1, <2>2
<1>7. CASE SetException(k, g)
    <2>1. /\ Goto(k, g, "fail", "done") /\ registered' = registered
          /\ fut' = Settled(fut, k, g, "error")
        BY <1>7 DEF SetException
    <2>2. \A q \in Kinds, h \in Goals : fut'[q][h] = "pending" =>
              fut[q][h] = "pending" /\ rpc'[q][h] = rpc[q][h]
        <3>1. \A q \in Kinds, h \in Goals :
                 fut'[q][h] = "pending" => fut[q][h] = "pending" /\ <<q, h>> # <<k, g>>
            BY <2>1, SettledFrame
        <3> QED BY <1>3, <2>1, <3>1
    <2> QED BY <1>2, <2>1, <2>2
<1>8. CASE Cleanup(k, g)
    <2>1. /\ fut[k][g] = "cancelled" /\ UNCHANGED <<rpc, fut>>
          /\ registered' = [registered EXCEPT ![k] = @ \ {g}]
        BY <1>8 DEF Cleanup
    <2>2. \A q \in Kinds, h \in Goals : <<q, h>> # <<k, g>> /\ h \in registered[q] => h \in registered'[q]
        BY <2>1
    <2> QED BY <1>2, <2>1, <2>2
<1>9. CASE Abandon(k, g)
    <2>1. fut' = Settled(fut, k, g, "cancelled") /\ UNCHANGED <<rpc, registered>>
        BY <1>9 DEF Abandon
    <2> QED BY <1>2, <2>1, SettledFrame
<1> QED BY <1>4, <1>5, <1>6, <1>7, <1>8, <1>9 DEF CallStep

LEMMA ClientKeepsHeld ==
    ASSUME TypeOK, HeldInv, ClientStep \/ DestroyClient \/ CancelRegistered
    PROVE  HeldInv'
<1> USE Types, KindTypes
<1>1. rpc' = rpc
    BY DEF ClientStep, TakeReply, TakeCancelReply, Resolve, DestroyClient, CancelRegistered
<1>2. ASSUME NEW k \in Ordered, TakeReply(k) PROVE HeldInv'
    <2>1. UNCHANGED <<fut, ending, gone>> /\ inHand = {}
        BY <1>2 DEF TakeReply
    <2>2. CASE keys[k] = <<>>
        BY <1>1, <1>2, <2>1, <2>2 DEF TakeReply, HeldInv, PendingIsHeld
    <2>3. CASE keys[k] # <<>>
        <3>1. /\ registered' = [registered EXCEPT ![k] = @ \ {Head(keys[k])}]
              /\ inHand' = IF Head(keys[k]) \in registered[k]
                           THEN {<<k, Head(keys[k]), Head(replies[k])>>} ELSE {}
            BY <1>2, <2>3 DEF TakeReply
        <3> DEFINE answered == Head(keys[k])
                   reply == Head(replies[k])
        <3>2. registered' = [registered EXCEPT ![k] = @ \ {answered}]
              /\ inHand' = IF answered \in registered[k] THEN {<<k, answered, reply>>} ELSE {}
            BY <3>1
        <3> HIDE DEF answered, reply
        <3>3. \A q \in Kinds, h \in Goals : h \in registered[q] =>
                 h \in registered'[q] \/ \E p \in inHand' : p[1] = q /\ p[2] = h
            BY <3>2
        <3> QED BY <1>1, <2>1, <3>3 DEF HeldInv, PendingIsHeld
    <2> QED BY <2>2, <2>3
<1>3. CASE TakeCancelReply
    <2>1. /\ UNCHANGED <<fut, ending, gone>> /\ inHand = {}
          /\ inHand' = {<<"cancel", g, Head(replies["cancel"])>> : g \in registered["cancel"]}
          /\ registered' = [registered EXCEPT !["cancel"] = {}]
        BY <1>3 DEF TakeCancelReply
    <2>2. \A h \in registered["cancel"] : \E p \in inHand' : p[1] = "cancel" /\ p[2] = h
        <3>1. ASSUME NEW h \in registered["cancel"] PROVE \E p \in inHand' : p[1] = "cancel" /\ p[2] = h
            <4>1. <<"cancel", h, Head(replies["cancel"])>> \in inHand'
                BY <2>1
            <4> QED BY <4>1
        <3> QED BY <3>1
    <2>3. \A q \in Kinds, h \in Goals : h \in registered[q] =>
              h \in registered'[q] \/ \E p \in inHand' : p[1] = q /\ p[2] = h
        BY <2>1, <2>2
    <2> QED BY <1>1, <2>1, <2>3 DEF HeldInv, PendingIsHeld
<1>4. CASE Resolve
    <2>1. PICK p \in inHand : /\ fut' = Settled(fut, p[1], p[2], p[3])
                              /\ inHand' = inHand \ {p}
                              /\ UNCHANGED <<registered, ending, gone>>
        BY <1>4 DEF Resolve
    <2>2. p[1] \in Kinds /\ p[2] \in Goals
        OBVIOUS
    <2>3. ASSUME NEW q \in Kinds, NEW h \in Goals, fut'[q][h] = "pending"
          PROVE  fut[q][h] = "pending" /\ <<q, h>> # <<p[1], p[2]>>
        <3>1. CASE p[3] # "pending"
            BY <2>1, <2>2, <2>3, <3>1, SettledFrame
        <3>2. CASE p[3] = "pending"
            BY <3>2, ActionAssumption
        <3> QED BY <3>1, <3>2
    <2>4. \A q \in Kinds, h \in Goals : fut'[q][h] = "pending" /\ (\E r \in inHand : r[1] = q /\ r[2] = h)
              => \E r \in inHand' : r[1] = q /\ r[2] = h
        BY <2>1, <2>3
    <2> QED BY <1>1, <2>1, <2>3, <2>4 DEF HeldInv, PendingIsHeld
<1>5. CASE DestroyClient
    <2>1. /\ ~gone /\ gone' = TRUE /\ UNCHANGED <<fut, inHand>>
          /\ ending' = {p \in Kinds \X Goals : p[2] \in registered[p[1]]}
        BY <1>5 DEF DestroyClient
    <2>2. ending = {}
        BY <2>1 DEF HeldInv
    <2>3. \A q \in Kinds, h \in Goals : h \in registered[q] => <<q, h>> \in ending'
        BY <2>1
    <2> QED BY <1>1, <2>1, <2>2, <2>3 DEF HeldInv, PendingIsHeld
<1>6. CASE CancelRegistered
    <2>1. PICK p \in ending : /\ fut' = Settled(fut, p[1], p[2], "cancelled")
                              /\ ending' = ending \ {p}
                              /\ UNCHANGED <<registered, inHand, gone>>
        BY <1>6 DEF CancelRegistered
    <2>2. PICK k \in Kinds, g \in Goals : p = <<k, g>>
        OBVIOUS
    <2>3. fut' = Settled(fut, k, g, "cancelled")
        BY <2>1, <2>2
    <2>5. \A q \in Kinds, h \in Goals :
              fut'[q][h] = "pending" => fut[q][h] = "pending" /\ <<q, h>> # <<k, g>>
        BY ONLY TypeOK, k \in Kinds, g \in Goals, <2>3, SettledFrame
    <2>4. \A q \in Kinds, h \in Goals :
              fut'[q][h] = "pending" => fut[q][h] = "pending" /\ <<q, h>> # p
        BY <2>2, <2>5
    <2> QED BY <1>1, <2>1, <2>4 DEF HeldInv, PendingIsHeld
<1> QED BY <1>2, <1>3, <1>4, <1>5, <1>6 DEF ClientStep

\* The server does not touch the client's.
LEMMA ServerSide ==
    ASSUME ServerStep \/ DestroyServer \/ \E g \in Goals : JobStep(g)
    PROVE  UNCHANGED clientVars
BY DEF ServerStep, TakeRequest, Reject, Accept, MarkAccepted, MarkExecuting, Submit, ReplyGoal,
       RequestResult, TakeResultHere, SendResultHere, ClearStatusHere, LookUpHandle, MarkCanceling,
       ReplyCancel, DestroyServer, JobStep, MarkHanded, SubmitHanded, StartJob, Complete, MarkDone, TakeResultInJob,
       SendResultInJob, ClearStatusInJob

\* A pending future is in its map, in the hand of a reply handler or of destroy(),
\* or its caller is about to set an exception (code: _goal_futures and the other
\* maps of ActionClient).
THEOREM HeldHolds == Spec => []HeldInv
<1>1. Init => HeldInv
    BY DEF Init, HeldInv, PendingIsHeld, PerRequest
<1>2. TypeOK /\ HeldInv /\ [Next]_vars => HeldInv'
    <2> SUFFICES ASSUME TypeOK, HeldInv, [Next]_vars PROVE HeldInv'
        OBVIOUS
    <2>1. CASE UNCHANGED clientVars
        BY <2>1 DEF clientVars, callVars, replyVars, HeldInv, PendingIsHeld
    <2>2. CASE UNCHANGED vars
        BY <2>1, <2>2 DEF vars
    <2>3. CASE Next
        BY <2>1, <2>3, ServerSide, CallKeepsHeld, ClientKeepsHeld DEF Next
    <2> QED BY <2>2, <2>3
<1> QED BY <1>1, <1>2, TypeCorrect, PTL DEF Spec

-----------------------------------------------------------------------------
(* A result and the request for it meet                                      *)

\* What keeps MeetInv: what is there now was there before, and the callback was
\* not the one to publish it.
LEMMA MeetFrame ==
    ASSUME MeetInv, UNCHANGED <<xpc, down>>, ~down,
           \A g \in asked' \cap results' : g \in asked \cap results /\ serving # <<"publish", g>>
    PROVE  MeetInv'
BY DEF MeetInv, ResultMeetsRequest

LEMMA ServerKeepsMeet ==
    ASSUME TypeOK, OnceInv, MeetInv, ServerStep
    PROVE  MeetInv'
<1> USE Types, KindTypes
<1>1. CASE UNCHANGED <<asked, results, xpc, down>> /\ ~Doing("publish")
    <2>1. \A g \in Goals : serving # <<"publish", g>>
        BY <1>1 DEF Doing
    <2> QED BY <1>1, <2>1 DEF MeetInv, ResultMeetsRequest
<1>2. ASSUME NEW s \in {"accepted", "submit"}, Doing(s), UNCHANGED <<asked, results, down>>,
             \A g \in Goals \ {Goal} : xpc'[g] = xpc[g]
      PROVE  MeetInv'
    <2>1. Goal \in Goals /\ serving = <<s, Goal>>
        BY <1>2, Serves
    <2>2. xpc[Goal] = "none"
        <3>1. Begins(Goal)
            BY <2>1 DEF Begins
        <3> QED BY <2>1, <3>1 DEF OnceInv
    <2>3. \A g \in asked \cap results : g # Goal /\ xpc[g] \in {"mark and publish", "publish"}
        BY <2>1, <2>2 DEF MeetInv, ResultMeetsRequest
    <2>4. \A g \in asked \cap results : xpc'[g] \in {"mark and publish", "publish"}
        BY <1>2, <2>3
    <2> QED BY <1>2, <2>4 DEF MeetInv, ResultMeetsRequest
<1>6. CASE Submit \/ MarkAccepted
    BY <1>2, <1>6 DEF Submit, MarkAccepted, resultVars
<1>3. CASE RequestResult
    <2>1. Goal \in Goals /\ serving = <<"result", Goal>> /\ UNCHANGED <<xpc, down>>
        BY <1>3, Serves DEF RequestResult
    <2>2. CASE down
        BY <1>3, <2>1, <2>2 DEF RequestResult, resultVars, MeetInv, ResultMeetsRequest
    <2>3. CASE ~down
        <3>1. PICK res \in Stale("results", results), req \in Stale("requests", asked) :
                /\ results' = results \ res
                /\ IF Goal \in results'
                   THEN serving' = <<"publish", Goal>> /\ asked' = asked \ (res \cup req)
                   ELSE serving' = Idle /\ asked' = (asked \ (res \cup req)) \cup {Goal}
            BY <1>3, <2>3 DEF RequestResult
        <3>2. \A g \in asked' \cap results' : g \in asked \cap results /\ serving # <<"publish", g>>
            BY <2>1, <3>1
        <3> QED BY <2>1, <2>3, <3>2, MeetFrame
    <2> QED BY <2>2, <2>3
<1>4. CASE TakeResultHere
    <2>1. Goal \in Goals /\ serving = <<"publish", Goal>> /\ UNCHANGED <<xpc, down>>
        BY <1>4, Serves DEF TakeResultHere
    <2>2. CASE down
        BY <1>4, <2>1, <2>2 DEF TakeResultHere, TakeResult, resultVars, MeetInv, ResultMeetsRequest
    <2>3. CASE ~down
        <3>1. asked' \subseteq asked /\ results' \subseteq results \ {Goal}
            BY <1>4, <2>3 DEF TakeResultHere, TakeResult
        <3>2. \A g \in asked' \cap results' : g \in asked \cap results /\ serving # <<"publish", g>>
            BY <2>1, <3>1
        <3> QED BY <2>1, <2>3, <3>2, MeetFrame
    <2> QED BY <2>2, <2>3
<1>5. CASE \/ \E k \in Kinds : TakeRequest(k)
           \/ Reject \/ Accept \/ MarkExecuting \/ ReplyGoal \/ SendResultHere
           \/ ClearStatusHere \/ LookUpHandle \/ MarkCanceling \/ ReplyCancel
    BY <1>1, <1>5 DEF TakeRequest, Reject, Accept, MarkExecuting, ReplyGoal,
           SendResultHere, ClearStatusHere, LookUpHandle, MarkCanceling, ReplyCancel, resultVars,
           Doing
<1> QED BY <1>3, <1>4, <1>5, <1>6 DEF ServerStep

LEMMA JobsKeepMeet ==
    ASSUME TypeOK, MeetInv, NEW g \in Goals, JobStep(g)
    PROVE  MeetInv'
<1> USE Types
<1>1. UNCHANGED <<serving, down>>
    BY DEF JobStep, MarkHanded, SubmitHanded, StartJob, Complete, MarkDone, TakeResultInJob, SendResultInJob, ClearStatusInJob
<1>2. ASSUME UNCHANGED <<asked, results>>, NEW from, NEW to, Job(g, from, to),
             from \in {"mark and publish", "publish"} => to \in {"mark and publish", "publish"}
      PROVE  MeetInv'
    <2>1. \A h \in Goals : xpc[h] \in {"mark and publish", "publish"}
                             => xpc'[h] \in {"mark and publish", "publish"}
        BY <1>2, JobFrame
    <2> QED BY <1>1, <1>2, <2>1 DEF MeetInv, ResultMeetsRequest
<1>3. CASE MarkHanded(g) \/ SubmitHanded(g) \/ StartJob(g)
    BY <1>2, <1>3 DEF MarkHanded, SubmitHanded, StartJob, resultVars
<1>4. CASE Complete(g)
    <2>1. CASE down
        BY <1>2, <1>4, <2>1 DEF Complete, resultVars
    <2>2. CASE ~down
        <3>1. PICK res \in Stale("results", results), req \in Stale("requests", asked) :
                /\ results' = (results \ res) \cup {g} /\ asked' = asked \ (res \cup req)
                /\ Job(g, "running", IF g \in asked' THEN "mark and publish" ELSE "mark")
            BY <1>4, <2>2 DEF Complete
        <3>2. /\ xpc[g] = "running" /\ \A h \in Goals \ {g} : xpc'[h] = xpc[h]
              /\ g \in asked' => xpc'[g] = "mark and publish"
            BY <3>1, JobFrame
        <3>3. ASSUME NEW h \in asked' \cap results'
              PROVE  serving' = <<"publish", h>> \/ xpc'[h] \in {"mark and publish", "publish"}
            <4>1. CASE h = g
                BY <3>2, <3>3, <4>1
            <4>2. CASE h # g
                <5>1. h \in asked \cap results
                    BY <3>1, <3>3, <4>2
                <5> QED BY <1>1, <3>2, <4>2, <5>1 DEF MeetInv, ResultMeetsRequest
            <4> QED BY <4>1, <4>2
        <3> QED BY <1>1, <2>2, <3>3 DEF MeetInv, ResultMeetsRequest
    <2> QED BY <2>1, <2>2
<1>5. CASE MarkDone(g)
    <2>1. UNCHANGED <<asked, results>> /\ (Job(g, "mark", "over") \/ Job(g, "mark and publish", "publish"))
        BY <1>5 DEF MarkDone, resultVars
    <2> QED BY <1>2, <2>1
<1>6. CASE TakeResultInJob(g)
    <2>1. CASE down
        BY <1>1, <1>6, <2>1 DEF TakeResultInJob, TakeResult, resultVars, MeetInv, ResultMeetsRequest
    <2>2. CASE ~down
        <3>1. asked' \subseteq asked /\ results' \subseteq results \ {g}
            BY <1>6, <2>2 DEF TakeResultInJob, TakeResult
        <3>2. Job(g, "publish", "send") \/ Job(g, "publish", "over")
            BY <1>6, TakeResultTypes DEF TakeResultInJob
        <3>3. \A h \in Goals \ {g} : xpc'[h] = xpc[h]
            BY <3>2, JobFrame
        <3>4. \A h \in asked' \cap results' : h \in asked \cap results /\ xpc'[h] = xpc[h]
            BY <3>1, <3>3
        <3> QED BY <1>1, <2>2, <3>4 DEF MeetInv, ResultMeetsRequest
    <2> QED BY <2>1, <2>2
<1>7. CASE SendResultInJob(g) \/ ClearStatusInJob(g)
    <2>1. /\ UNCHANGED <<asked, results>>
          /\ Job(g, "send", "clear") \/ Job(g, "send", "over") \/ Job(g, "clear", "over")
        BY <1>7, SendTypes, KindTypes DEF SendResultInJob, ClearStatusInJob, resultVars
    <2> QED BY <1>2, <2>1
<1> QED BY <1>3, <1>4, <1>5, <1>6, <1>7 DEF JobStep

\* When a result and a request for it are both there, somebody is about to publish
\* it, whichever came first (code: _on_get_result and _complete_goal).
THEOREM MeetHolds == Spec => []MeetInv
<1>1. Init => MeetInv
    BY DEF Init, MeetInv, ResultMeetsRequest
<1>2. TypeOK /\ OnceInv /\ MeetInv /\ [Next]_vars => MeetInv'
    <2> SUFFICES ASSUME TypeOK, OnceInv, MeetInv, [Next]_vars PROVE MeetInv'
        OBVIOUS
    <2>1. CASE UNCHANGED serverVars
        BY <2>1 DEF serverVars, resultVars, MeetInv, ResultMeetsRequest
    <2>2. CASE UNCHANGED vars
        BY <2>1, <2>2 DEF vars
    <2>3. CASE DestroyServer
        BY <2>3 DEF DestroyServer, MeetInv, ResultMeetsRequest
    <2>4. CASE Next
        BY <2>1, <2>3, <2>4, ClientSide, ServerKeepsMeet, JobsKeepMeet DEF Next
    <2> QED BY <2>2, <2>4
<1> QED BY <1>1, <1>2, TypeCorrect, OnceHolds, PTL DEF Spec

-----------------------------------------------------------------------------
(* The keys are in line with the replies and the requests                    *)

LEMMA Ones == One(TRUE) = 1 /\ One(FALSE) = 0
BY DEF One

\* A new request goes to the end of the line, when no other is being published.
LEMMA LineJoined ==
    ASSUME NEW call \in [Goals -> Calls], NEW line \in Seq(Goals), NEW answers \in Seq(Goals),
           NEW waiting \in Seq(Goals), NEW serves \in BOOLEAN, NEW goal, NEW dead \in BOOLEAN,
           InLine(call, line, answers, waiting, serves, goal, dead),
           NEW g \in Goals, call[g] = "new", \A h \in Goals : call[h] # "publish"
    PROVE  InLine([call EXCEPT ![g] = "publish"], Append(line, g), answers, waiting, serves, goal, dead)
<1> DEFINE n == Len(line)
           a == Len(answers)
           w == Len(waiting)
           reached == a + One(serves)
           call2 == [call EXCEPT ![g] = "publish"]
           line2 == Append(line, g)
<1>1. /\ n \in Nat /\ a \in Nat /\ w \in Nat /\ reached \in Nat
      /\ serves => reached \in Nat \ {0}
    BY LenProperties, Ones DEF One
<1>2. call2[g] = "publish" /\ \A h \in Goals \ {g} : call2[h] = call[h]
    OBVIOUS
<1>3. /\ Len(line2) = n + 1 /\ line2[n + 1] = g /\ line2 # <<>>
      /\ \A i \in 1..n : line2[i] = line[i]
    BY AppendProperties
<1>4. /\ \A i \in 1..a : i <= n /\ line[i] = answers[i] /\ call[answers[i]] = "done"
      /\ \A i \in 1..n : call[line[i]] = "done"
      /\ ~dead => /\ n = reached + w
                  /\ serves => line[reached] = goal
                  /\ \A i \in 1..w : line[reached + i] = waiting[i]
    <2>1. ~\E h \in Goals : call[h] = "publish"
        OBVIOUS
    <2>2. \A i \in 1..n : call[line[i]] # "publish"
        BY ElementOfSeq
    <2>3. ~dead => n = reached + w
        BY <1>1, <2>1 DEF InLine, One
    <2>4. /\ \A i \in 1..a : i <= n /\ line[i] = answers[i] /\ call[answers[i]] = "done"
          /\ \A i \in 1..n : call[line[i]] = "done" \/ (i = n /\ call[line[i]] = "publish")
          /\ ~dead => /\ serves => line[reached] = goal
                      /\ \A i \in 1..w : line[reached + i] = waiting[i]
        BY DEF InLine
    <2> QED BY <2>2, <2>3, <2>4
<1> HIDE DEF n, a, w, reached, call2, line2
<1>5. \A i \in 1..a : i <= n + 1 /\ line2[i] = answers[i] /\ call2[answers[i]] = "done"
    <2>1. \A i \in 1..a : answers[i] \in Goals \ {g}
        BY <1>4, ElementOfSeq DEF a
    <2> QED BY <1>1, <1>2, <1>3, <1>4, <2>1
<1>6. \A i \in 1..n + 1 :
          call2[line2[i]] = "done" \/ (i = n + 1 /\ call2[line2[i]] = "publish")
    <2>1. \A i \in 1..n : line[i] \in Goals \ {g}
        BY <1>4, ElementOfSeq DEF n
    <2>2. \A i \in 1..n : call2[line2[i]] = "done"
        BY <1>2, <1>3, <1>4, <2>1
    <2> QED BY <1>1, <1>2, <1>3, <2>2
<1>7. /\ \A h \in Goals : call2[h] = "publish" => h = g
      /\ One(\E h \in Goals : call2[h] = "publish") = 1
    BY <1>2 DEF One
<1>8. ~dead => /\ n + 1 = reached + w + 1
               /\ serves => line2[reached] = goal
               /\ \A i \in 1..w : line2[reached + i] = waiting[i]
    <2>1. ASSUME ~dead PROVE \A i \in 1..w : reached + i \in 1..n /\ line2[reached + i] = waiting[i]
        <3>1. n = reached + w /\ \A i \in 1..w : line[reached + i] = waiting[i]
            BY <1>4, <2>1
        <3>2. \A i \in 1..w : reached + i \in 1..n
            BY <1>1, <3>1
        <3> QED BY <1>3, <3>1, <3>2
    <2>2. ASSUME ~dead, serves PROVE line2[reached] = goal
        BY <1>1, <1>3, <1>4, <2>2
    <2> QED BY <1>1, <1>4, <2>1, <2>2
<1>9. /\ \A i \in 1..Len(answers) :
             i <= Len(line2) /\ line2[i] = answers[i] /\ call2[answers[i]] = "done"
      /\ \A i \in 1..Len(line2) :
             call2[line2[i]] = "done" \/ (i = Len(line2) /\ call2[line2[i]] = "publish")
      /\ \A h \in Goals : call2[h] = "publish" => line2 # <<>> /\ line2[Len(line2)] = h
    BY <1>3, <1>5, <1>6, <1>7 DEF a
<1>10. ~dead => /\ Len(line2) = reached + Len(waiting) + One(\E h \in Goals : call2[h] = "publish")
                /\ serves => line2[reached] = goal
                /\ \A i \in 1..Len(waiting) : line2[reached + i] = waiting[i]
    BY <1>3, <1>7, <1>8 DEF w
<1> QED BY <1>9, <1>10 DEF InLine, reached, a, call2, line2

\* What InLine says of a call that is being published: it is the last of the line,
\* and nothing else is being published or served there.
LEMMA LinePublishing ==
    ASSUME NEW call \in [Goals -> Calls], NEW line \in Seq(Goals), NEW answers \in Seq(Goals),
           NEW waiting \in Seq(Goals), NEW serves \in BOOLEAN, NEW goal, NEW dead \in BOOLEAN,
           InLine(call, line, answers, waiting, serves, goal, dead),
           NEW g \in Goals, call[g] = "publish"
    PROVE  /\ Len(line) \in Nat \ {0} /\ line[Len(line)] = g
           /\ \A i \in 1..Len(answers) : i <= Len(line) - 1 /\ line[i] = answers[i]
                                         /\ call[answers[i]] = "done" /\ answers[i] \in Goals \ {g}
           /\ \A i \in 1..Len(line) - 1 : call[line[i]] = "done" /\ line[i] \in Goals \ {g}
           /\ \A h \in Goals \ {g} : call[h] # "publish"
           /\ ~dead => /\ Len(line) = Len(answers) + One(serves) + Len(waiting) + 1
                       /\ serves => line[Len(answers) + One(serves)] = goal
                       /\ \A i \in 1..Len(waiting) : line[Len(answers) + One(serves) + i] = waiting[i]
<1> DEFINE n == Len(line)
           a == Len(answers)
<1>1. n \in Nat \ {0} /\ line[n] = g /\ \A h \in Goals \ {g} : call[h] # "publish"
    BY EmptySeq, LenProperties DEF InLine
<1>2. a \in Nat
    BY LenProperties
<1>3. /\ \A i \in 1..a : i <= n /\ line[i] = answers[i] /\ call[answers[i]] = "done"
      /\ \A i \in 1..n : call[line[i]] = "done" \/ (i = n /\ call[line[i]] = "publish")
    BY DEF InLine
<1>4. /\ \A i \in 1..a : answers[i] \in Goals
      /\ \A i \in 1..n : line[i] \in Goals
    BY ElementOfSeq
<1>5. ~dead => /\ n = a + One(serves) + Len(waiting) + 1
               /\ serves => line[a + One(serves)] = goal
               /\ \A i \in 1..Len(waiting) : line[a + One(serves) + i] = waiting[i]
    <2>1. One(\E h \in Goals : call[h] = "publish") = 1
        BY DEF One
    <2> QED BY <2>1 DEF InLine
<1> HIDE DEF n, a
<1>6. \A i \in 1..a : /\ i <= n - 1 /\ line[i] = answers[i]
                      /\ call[answers[i]] = "done" /\ answers[i] \in Goals \ {g}
    <2>1. ASSUME NEW i \in 1..a PROVE i # n
        BY <1>1, <1>3, <2>1
    <2> QED BY <1>1, <1>2, <1>3, <1>4, <2>1
<1>7. \A i \in 1..n - 1 : call[line[i]] = "done" /\ line[i] \in Goals \ {g}
    <2>1. ASSUME NEW i \in 1..n - 1 PROVE i \in 1..n /\ i # n
        BY <1>1
    <2> QED BY <1>1, <1>3, <1>4, <2>1
<1> QED BY <1>1, <1>5, <1>6, <1>7 DEF n, a

\* A published request waits at the end of the topic.
LEMMA LineSent ==
    ASSUME NEW call \in [Goals -> Calls], NEW line \in Seq(Goals), NEW answers \in Seq(Goals),
           NEW waiting \in Seq(Goals), NEW serves \in BOOLEAN, NEW goal, NEW dead \in BOOLEAN,
           InLine(call, line, answers, waiting, serves, goal, dead),
           NEW g \in Goals, call[g] = "publish"
    PROVE  /\ dead => InLine([call EXCEPT ![g] = "done"], line, answers, waiting, serves, goal, dead)
           /\ ~dead => InLine([call EXCEPT ![g] = "done"], line, answers, Append(waiting, g), serves,
                              goal, dead)
<1> DEFINE n == Len(line)
           a == Len(answers)
           w == Len(waiting)
           reached == Len(answers) + One(serves)
           call2 == [call EXCEPT ![g] = "done"]
           waiting2 == Append(waiting, g)
<1>1. /\ n \in Nat \ {0} /\ line[n] = g
      /\ \A i \in 1..a : i <= n - 1 /\ line[i] = answers[i] /\ call[answers[i]] = "done"
                         /\ answers[i] \in Goals \ {g}
      /\ \A i \in 1..n - 1 : call[line[i]] = "done" /\ line[i] \in Goals \ {g}
      /\ \A h \in Goals \ {g} : call[h] # "publish"
      /\ ~dead => /\ n = reached + w + 1
                  /\ serves => line[reached] = goal
                  /\ \A i \in 1..w : line[reached + i] = waiting[i]
    BY LinePublishing
<1>2. call2[g] = "done" /\ \A h \in Goals \ {g} : call2[h] = call[h]
    OBVIOUS
<1>3. One(\E h \in Goals : call2[h] = "publish") = 0
    BY <1>1, <1>2 DEF One
<1>4. a \in Nat /\ w \in Nat /\ reached \in Nat
    BY LenProperties DEF One
<1>5. /\ Len(waiting2) = w + 1 /\ waiting2[w + 1] = g
      /\ \A i \in 1..w : waiting2[i] = waiting[i]
    BY AppendProperties
<1> HIDE DEF n, a, w, reached, call2, waiting2
<1>6. \A i \in 1..a : i <= n /\ line[i] = answers[i] /\ call2[answers[i]] = "done"
    <2>1. ASSUME NEW i \in 1..a PROVE i <= n
        BY <1>1, <1>4, <2>1
    <2> QED BY <1>1, <1>2, <2>1
<1>7. \A i \in 1..n : call2[line[i]] = "done"
    <2>1. ASSUME NEW i \in 1..n PROVE i = n \/ i \in 1..n - 1
        BY <1>1
    <2> QED BY <1>1, <1>2, <2>1
<1>8. \A h \in Goals : call2[h] # "publish"
    BY <1>1, <1>2
<1>9. ASSUME ~dead
      PROVE  /\ n = reached + Len(waiting2) + 0
             /\ serves => line[reached] = goal
             /\ \A i \in 1..Len(waiting2) : line[reached + i] = waiting2[i]
    <2>1. n = reached + (w + 1)
        BY <1>1, <1>4, <1>9
    <2>2. ASSUME NEW i \in 1..w + 1 PROVE line[reached + i] = waiting2[i]
        <3>1. i = w + 1 \/ i \in 1..w
            BY <1>4
        <3> QED BY <1>1, <1>5, <1>9, <2>1, <3>1
    <2>3. Len(waiting2) = w + 1
        BY <1>5, <1>9
    <2>4. n = reached + (w + 1) + 0
        BY <1>4, <2>1
    <2>5. serves => line[reached] = goal
        BY <1>1, <1>9
    <2> QED BY <2>2, <2>3, <2>4, <2>5
<1> QED BY <1>3, <1>6, <1>7, <1>8, <1>9 DEF InLine, n, a, reached, call2, waiting2

\* A key that is taken back was the last.
LEMMA LineLeft ==
    ASSUME NEW call \in [Goals -> Calls], NEW line \in Seq(Goals), NEW answers \in Seq(Goals),
           NEW waiting \in Seq(Goals), NEW serves \in BOOLEAN, NEW goal, NEW dead \in BOOLEAN,
           InLine(call, line, answers, waiting, serves, goal, dead),
           NEW g \in Goals, call[g] = "publish"
    PROVE  InLine([call EXCEPT ![g] = "fail"], RemoveFirst(line, g), answers, waiting, serves, goal, dead)
<1> DEFINE n == Len(line)
           a == Len(answers)
           w == Len(waiting)
           reached == Len(answers) + One(serves)
           call2 == [call EXCEPT ![g] = "fail"]
           line2 == RemoveFirst(line, g)
<1>1. /\ n \in Nat \ {0} /\ line[n] = g
      /\ \A i \in 1..a : i <= n - 1 /\ line[i] = answers[i] /\ call[answers[i]] = "done"
                         /\ answers[i] \in Goals \ {g}
      /\ \A i \in 1..n - 1 : call[line[i]] = "done" /\ line[i] \in Goals \ {g}
      /\ \A h \in Goals \ {g} : call[h] # "publish"
      /\ ~dead => /\ n = reached + w + 1
                  /\ serves => line[reached] = goal
                  /\ \A i \in 1..w : line[reached + i] = waiting[i]
    BY LinePublishing
<1>2. call2[g] = "fail" /\ \A h \in Goals \ {g} : call2[h] = call[h]
    OBVIOUS
<1>3. One(\E h \in Goals : call2[h] = "publish") = 0
    BY <1>1, <1>2 DEF One
<1>4. /\ a \in Nat /\ w \in Nat /\ reached \in Nat
      /\ serves => reached \in Nat \ {0}
    BY LenProperties DEF One
<1>5. Len(line2) = n - 1 /\ \A i \in 1..n - 1 : line2[i] = line[i]
    <2>1. \A i \in 1..n : line[i] = g => i = n
        <3>1. ASSUME NEW i \in 1..n PROVE i = n \/ i \in 1..n - 1
            BY <1>1
        <3> QED BY <1>1, <3>1
    <2>2. line # <<>>
        BY <1>1, EmptySeq
    <2>3. line[Len(line)] = g
        BY <1>1
    <2> QED BY <2>1, <2>2, <2>3, RemovedLast
<1> HIDE DEF n, a, w, reached, call2, line2
<1>6. \A i \in 1..a : i <= n - 1 /\ line2[i] = answers[i] /\ call2[answers[i]] = "done"
    <2>1. ASSUME NEW i \in 1..a PROVE i \in 1..n - 1
        BY <1>1, <1>4, <2>1
    <2> QED BY <1>1, <1>2, <1>5, <2>1
<1>7. \A i \in 1..n - 1 : call2[line2[i]] = "done"
    BY <1>1, <1>2, <1>5
<1>8. \A h \in Goals : call2[h] # "publish"
    BY <1>1, <1>2
<1>9. ASSUME ~dead
      PROVE  /\ n - 1 = reached + w + 0
             /\ serves => line2[reached] = goal
             /\ \A i \in 1..w : line2[reached + i] = waiting[i]
    <2>1. n - 1 = reached + w
        BY <1>1, <1>4, <1>9
    <2>2. ASSUME NEW i \in 1..w PROVE line2[reached + i] = waiting[i]
        <3>1. reached + i \in 1..n - 1
            BY <1>4, <2>1
        <3> QED BY <1>1, <1>5, <1>9, <3>1
    <2>3. ASSUME serves PROVE line2[reached] = goal
        <3>1. reached \in 1..n - 1
            BY <1>4, <2>1, <2>3
        <3> QED BY <1>1, <1>5, <1>9, <2>3, <3>1
    <2> QED BY <1>4, <2>1, <2>2, <2>3
<1>10. /\ \A i \in 1..Len(answers) :
              i <= Len(line2) /\ line2[i] = answers[i] /\ call2[answers[i]] = "done"
       /\ \A i \in 1..Len(line2) :
              call2[line2[i]] = "done" \/ (i = Len(line2) /\ call2[line2[i]] = "publish")
    BY <1>5, <1>6, <1>7 DEF a
<1>11. ~dead => /\ Len(line2) = reached + Len(waiting) + One(\E h \in Goals : call2[h] = "publish")
                /\ serves => line2[reached] = goal
                /\ \A i \in 1..Len(waiting) : line2[reached + i] = waiting[i]
    BY <1>3, <1>5, <1>9 DEF w
<1> QED BY <1>8, <1>10, <1>11 DEF InLine, reached, call2, line2

\* A call that is neither being published nor in the line may change.
LEMMA LineAside ==
    ASSUME NEW call \in [Goals -> Calls], NEW line \in Seq(Goals), NEW answers \in Seq(Goals),
           NEW waiting \in Seq(Goals), NEW serves \in BOOLEAN, NEW goal, NEW dead \in BOOLEAN,
           InLine(call, line, answers, waiting, serves, goal, dead),
           NEW g \in Goals, call[g] = "fail"
    PROVE  InLine([call EXCEPT ![g] = "done"], line, answers, waiting, serves, goal, dead)
<1> DEFINE call2 == [call EXCEPT ![g] = "done"]
<1>1. /\ \A h \in Goals : call2[h] = "publish" <=> call[h] = "publish"
      /\ \A h \in Goals : call[h] = "done" => call2[h] = "done"
    OBVIOUS
<1>2. /\ \A i \in 1..Len(answers) : answers[i] \in Goals
      /\ \A i \in 1..Len(line) : line[i] \in Goals
    BY ElementOfSeq
<1>3. One(\E h \in Goals : call2[h] = "publish") = One(\E h \in Goals : call[h] = "publish")
    BY <1>1 DEF One
<1> HIDE DEF call2
<1> QED BY <1>1, <1>2, <1>3 DEF InLine, call2

\* The tail of a sequence is the sequence one place on.
LEMMA TailPlaces ==
    ASSUME NEW s \in Seq(Goals), s # <<>>
    PROVE  /\ Len(s) \in Nat \ {0} /\ Tail(s) \in Seq(Goals) /\ Len(Tail(s)) = Len(s) - 1
           /\ Head(s) = s[1]
           /\ \A i \in 1..Len(s) - 1 : Tail(s)[i] = s[i + 1]
BY EmptySeq, LenProperties, HeadTailProperties

\* The reply and the key that are taken together are of one goal.
LEMMA LineAnswered ==
    ASSUME NEW call \in [Goals -> Calls], NEW line \in Seq(Goals), NEW answers \in Seq(Goals),
           NEW waiting \in Seq(Goals), NEW serves \in BOOLEAN, NEW goal, NEW dead \in BOOLEAN,
           InLine(call, line, answers, waiting, serves, goal, dead), answers # <<>>
    PROVE  /\ line # <<>> /\ Head(line) = Head(answers)
           /\ InLine(call, Tail(line), Tail(answers), waiting, serves, goal, dead)
<1> DEFINE n == Len(line)
           a == Len(answers)
           w == Len(waiting)
           line2 == Tail(line)
           answers2 == Tail(answers)
           calling == \E h \in Goals : call[h] = "publish"
<1>1. a \in Nat \ {0} /\ w \in Nat /\ n \in Nat /\ One(serves) \in Nat /\ One(calling) \in Nat
    BY TailPlaces, LenProperties DEF One
<1>2. /\ \A i \in 1..a : i <= n /\ line[i] = answers[i] /\ call[answers[i]] = "done"
      /\ \A i \in 1..n : call[line[i]] = "done" \/ (i = n /\ call[line[i]] = "publish")
      /\ \A h \in Goals : call[h] = "publish" => line[n] = h
    BY DEF InLine
<1>3. ~dead => /\ n = a + One(serves) + w + One(calling)
               /\ serves => line[a + One(serves)] = goal
               /\ \A i \in 1..w : line[a + One(serves) + i] = waiting[i]
    BY DEF InLine
<1>4. /\ Len(answers2) = a - 1 /\ Head(answers) = answers[1]
      /\ \A i \in 1..a - 1 : answers2[i] = answers[i + 1]
    BY TailPlaces
<1>5. n \in Nat \ {0} /\ line[1] = answers[1] /\ call[line[1]] = "done"
    <2>1. 1 \in 1..a
        BY <1>1
    <2> QED BY <1>1, <1>2, <2>1
<1>6. line # <<>>
    BY <1>5, EmptySeq
<1>7. /\ Len(line2) = n - 1 /\ Head(line) = line[1] /\ line2 \in Seq(Goals)
      /\ \A i \in 1..n - 1 : line2[i] = line[i + 1]
    BY <1>6, TailPlaces
<1> HIDE DEF n, a, w, line2, answers2, calling
<1>8. \A i \in 1..a - 1 : i <= n - 1 /\ line2[i] = answers2[i] /\ call[answers2[i]] = "done"
    <2>1. ASSUME NEW i \in 1..a - 1 PROVE i + 1 \in 1..a /\ (i + 1 <= n => i \in 1..n - 1 /\ i <= n - 1)
        BY <1>1, <1>5
    <2> QED BY <1>2, <1>4, <1>7, <2>1
<1>9. \A i \in 1..n - 1 : call[line2[i]] = "done" \/ (i = n - 1 /\ call[line2[i]] = "publish")
    <2>1. ASSUME NEW i \in 1..n - 1 PROVE i + 1 \in 1..n /\ (i + 1 = n => i = n - 1)
        BY <1>5
    <2>2. ASSUME NEW i \in 1..n - 1
          PROVE  call[line[i + 1]] = "done" \/ (i = n - 1 /\ call[line[i + 1]] = "publish")
        BY <1>2, <2>1
    <2> QED BY <1>7, <2>2
<1>10. ASSUME NEW h \in Goals, call[h] = "publish" PROVE line2 # <<>> /\ line2[n - 1] = h
    <2>1. n # 1
        BY <1>2, <1>5, <1>10
    <2>2. n - 1 \in 1..n - 1 /\ n - 1 + 1 = n
        BY <1>5, <2>1
    <2>3. line2[n - 1] = h
        BY <1>2, <1>7, <1>10, <2>2
    <2>4. Len(line2) # 0
        BY <1>7, <2>2
    <2> QED BY <2>3, <2>4, <1>7, EmptySeq
<1>11. ASSUME ~dead
       PROVE  /\ n - 1 = a - 1 + One(serves) + w + One(calling)
              /\ serves => line2[a - 1 + One(serves)] = goal
              /\ \A i \in 1..w : line2[a - 1 + One(serves) + i] = waiting[i]
    <2>1. n = a + One(serves) + w + One(calling)
        BY <1>3, <1>11
    <2>2. n - 1 = a - 1 + One(serves) + w + One(calling)
        BY <1>1, <2>1
    <2>3. ASSUME serves PROVE line2[a - 1 + One(serves)] = goal
        <3>1. One(serves) = 1
            BY <2>3 DEF One
        <3>2. a - 1 + One(serves) \in 1..n - 1 /\ a - 1 + One(serves) + 1 = a + One(serves)
            BY <1>1, <2>1, <3>1
        <3>3. line[a + One(serves)] = goal
            BY <1>3, <1>11, <2>3
        <3> QED BY <1>7, <3>2, <3>3
    <2>4. ASSUME NEW i \in 1..w PROVE line2[a - 1 + One(serves) + i] = waiting[i]
        <3>1. /\ a - 1 + One(serves) + i \in 1..n - 1
              /\ a - 1 + One(serves) + i + 1 = a + One(serves) + i
            BY <1>1, <2>1
        <3>2. line[a + One(serves) + i] = waiting[i]
            BY <1>3, <1>11, <2>4
        <3> QED BY <1>7, <3>1, <3>2
    <2> QED BY <2>2, <2>3, <2>4
<1>12. /\ \A i \in 1..Len(answers2) :
              i <= Len(line2) /\ line2[i] = answers2[i] /\ call[answers2[i]] = "done"
       /\ \A i \in 1..Len(line2) :
              call[line2[i]] = "done" \/ (i = Len(line2) /\ call[line2[i]] = "publish")
       /\ \A h \in Goals : call[h] = "publish" => line2 # <<>> /\ line2[Len(line2)] = h
    BY <1>4, <1>7, <1>8, <1>9, <1>10
<1>13. ~dead => /\ Len(line2) = Len(answers2) + One(serves) + Len(waiting) + One(calling)
                /\ serves => line2[Len(answers2) + One(serves)] = goal
                /\ \A i \in 1..Len(waiting) : line2[Len(answers2) + One(serves) + i] = waiting[i]
    BY <1>4, <1>7, <1>11 DEF w
<1>14. InLine(call, line2, answers2, waiting, serves, goal, dead)
    BY <1>12, <1>13 DEF InLine, calling
<1> QED BY <1>4, <1>5, <1>6, <1>7, <1>14 DEF line2, answers2

\* The request that is taken up is the next in line.
LEMMA LineTaken ==
    ASSUME NEW call \in [Goals -> Calls], NEW line \in Seq(Goals), NEW answers \in Seq(Goals),
           NEW waiting \in Seq(Goals), NEW goal,
           InLine(call, line, answers, waiting, FALSE, goal, FALSE), waiting # <<>>
    PROVE  InLine(call, line, answers, Tail(waiting), TRUE, Head(waiting), FALSE)
<1> DEFINE n == Len(line)
           a == Len(answers)
           w == Len(waiting)
           waiting2 == Tail(waiting)
           calling == \E h \in Goals : call[h] = "publish"
<1>1. a \in Nat /\ w \in Nat \ {0} /\ n \in Nat /\ One(calling) \in Nat
    BY TailPlaces, LenProperties DEF One
<1>2. /\ n = a + w + One(calling)
      /\ \A i \in 1..w : line[a + i] = waiting[i]
    <2>1. a + One(FALSE) = a
        BY <1>1 DEF One
    <2> QED BY <2>1 DEF InLine
<1>3. /\ Len(waiting2) = w - 1 /\ Head(waiting) = waiting[1]
      /\ \A i \in 1..w - 1 : waiting2[i] = waiting[i + 1]
    BY TailPlaces
<1> HIDE DEF n, a, w, waiting2, calling
<1>4. n = a + 1 + (w - 1) + One(calling)
    BY <1>1, <1>2
<1>5. line[a + 1] = Head(waiting)
    <2>1. 1 \in 1..w
        BY <1>1
    <2> QED BY <1>2, <1>3, <2>1
<1>6. ASSUME NEW i \in 1..w - 1 PROVE line[a + 1 + i] = waiting2[i]
    <2>1. i + 1 \in 1..w /\ a + 1 + i = a + (i + 1)
        BY <1>1
    <2> QED BY <1>2, <1>3, <2>1
<1>7. /\ n = a + One(TRUE) + Len(waiting2) + One(calling)
      /\ line[a + One(TRUE)] = Head(waiting)
      /\ \A i \in 1..Len(waiting2) : line[a + One(TRUE) + i] = waiting2[i]
    BY <1>3, <1>4, <1>5, <1>6, Ones
<1> QED BY <1>7 DEF InLine, n, a, waiting2, calling

\* The reply to the goal that is served is the next in line.
LEMMA LineReplied ==
    ASSUME NEW call \in [Goals -> Calls], NEW line \in Seq(Goals), NEW answers \in Seq(Goals),
           NEW waiting \in Seq(Goals), NEW goal \in Goals,
           InLine(call, line, answers, waiting, TRUE, goal, FALSE)
    PROVE  \A next : InLine(call, line, Append(answers, goal), waiting, FALSE, next, FALSE)
<1> DEFINE n == Len(line)
           a == Len(answers)
           w == Len(waiting)
           answers2 == Append(answers, goal)
           calling == \E h \in Goals : call[h] = "publish"
<1>1. a \in Nat /\ w \in Nat /\ n \in Nat /\ One(calling) \in Nat
    BY LenProperties DEF One
<1>2. /\ \A i \in 1..a : i <= n /\ line[i] = answers[i] /\ call[answers[i]] = "done"
      /\ \A i \in 1..n : call[line[i]] = "done" \/ (i = n /\ call[line[i]] = "publish")
    BY DEF InLine
<1>3. /\ n = a + 1 + w + One(calling)
      /\ line[a + 1] = goal
      /\ \A i \in 1..w : line[a + 1 + i] = waiting[i]
    BY Ones DEF InLine
<1>4. /\ Len(answers2) = a + 1 /\ answers2[a + 1] = goal
      /\ \A i \in 1..a : answers2[i] = answers[i]
    BY AppendProperties
<1>5. call[goal] = "publish" => One(calling) = 1
    BY DEF One
<1> HIDE DEF n, a, w, answers2, calling
<1>6. call[goal] = "done"
    <2>1. a + 1 \in 1..n
        BY <1>1, <1>3
    <2>2. ~(a + 1 = n /\ One(calling) = 1)
        BY <1>1, <1>3
    <2> QED BY <1>2, <1>3, <1>5, <2>1, <2>2
<1>7. \A i \in 1..a + 1 : i <= n /\ line[i] = answers2[i] /\ call[answers2[i]] = "done"
    <2>1. ASSUME NEW i \in 1..a + 1 PROVE i \in 1..a \/ i = a + 1
        BY <1>1
    <2>2. a + 1 <= n
        BY <1>1, <1>3
    <2> QED BY <1>2, <1>3, <1>4, <1>6, <2>1, <2>2
<1>8. a + 1 + One(FALSE) = a + 1
    BY <1>1 DEF One
<1>9. /\ \A i \in 1..Len(answers2) :
             i <= Len(line) /\ line[i] = answers2[i] /\ call[answers2[i]] = "done"
      /\ Len(line) = Len(answers2) + One(FALSE) + Len(waiting) + One(calling)
      /\ \A i \in 1..Len(waiting) : line[Len(answers2) + One(FALSE) + i] = waiting[i]
    BY <1>3, <1>4, <1>7, <1>8 DEF n, w
<1> QED BY <1>9 DEF InLine, answers2, calling

\* Nothing is said of what a destroyed server has left to do.
LEMMA LineDead ==
    ASSUME NEW call \in [Goals -> Calls], NEW line \in Seq(Goals), NEW answers \in Seq(Goals),
           NEW waiting \in Seq(Goals), NEW serves \in BOOLEAN, NEW goal, NEW dead \in BOOLEAN,
           InLine(call, line, answers, waiting, serves, goal, dead)
    PROVE  \A waiting2, serves2, goal2 : InLine(call, line, answers, waiting2, serves2, goal2, TRUE)
BY DEF InLine

Line == InLine(rpc["goal"], keys["goal"], replies["goal"], requests["goal"], AtGoal, Goal, down)

LEMMA LineTypes ==
    ASSUME TypeOK
    PROVE  /\ rpc["goal"] \in [Goals -> Calls] /\ keys["goal"] \in Seq(Goals)
           /\ replies["goal"] \in Seq(Goals) /\ requests["goal"] \in Seq(Goals)
           /\ AtGoal \in BOOLEAN /\ down \in BOOLEAN
BY Types, KindTypes DEF AtGoal

\* A step that has nothing to do with goal requests, their keys and replies.
LEMMA LineFrame ==
    ASSUME Line,
           UNCHANGED <<rpc["goal"], keys["goal"], replies["goal"], requests["goal"], down, AtGoal>>,
           AtGoal => Goal' = Goal
    PROVE  Line'
<1>1. ASSUME NEW call, NEW line, NEW answers, NEW waiting, NEW serves, NEW goal, NEW goal2, NEW dead,
             InLine(call, line, answers, waiting, serves, goal, dead), serves => goal2 = goal
      PROVE  InLine(call, line, answers, waiting, serves, goal2, dead)
    BY <1>1 DEF InLine
<1> QED BY <1>1 DEF Line

\* A step of one call keeps the responses of the goals.
LEMMA OwnFrame ==
    ASSUME TypeOK, OwnGoalResponse, NEW k \in Kinds, NEW g \in Goals,
           \/ fut' = fut
           \/ \E o \in {"pending", "cancelled"} : fut' = [fut EXCEPT ![k][g] = o]
           \/ \E o \in Outcomes : fut' = Settled(fut, k, g, o) /\ (o \in Goals /\ k = "goal" => o = g)
    PROVE  OwnGoalResponse'
<1> USE Types, KindTypes
<1>1. {"pending", "cancelled"} \cap Goals = {}
    BY ActionAssumption
<1>2. ASSUME NEW h \in Goals, fut'["goal"][h] \in Goals
      PROVE  fut'["goal"][h] = fut["goal"][h] \/ (k = "goal" /\ h = g /\ fut'["goal"][g] = g)
    <2>1. CASE fut' = fut
        BY <2>1
    <2>2. ASSUME NEW o \in {"pending", "cancelled"}, fut' = [fut EXCEPT ![k][g] = o]
          PROVE  fut'["goal"][h] = fut["goal"][h]
        BY <1>1, <1>2, <2>2
    <2>3. ASSUME NEW o \in Outcomes, fut' = Settled(fut, k, g, o), o \in Goals /\ k = "goal" => o = g
          PROVE  fut'["goal"][h] = fut["goal"][h] \/ (k = "goal" /\ h = g /\ fut'["goal"][g] = g)
        <3>1. fut'["goal"][h] = fut["goal"][h] \/ (k = "goal" /\ h = g /\ fut'["goal"][h] = o)
            BY <2>3 DEF Settled
        <3> QED BY <1>2, <2>3, <3>1
    <2> QED BY <2>1, <2>2, <2>3
<1> QED BY <1>2 DEF OwnGoalResponse

LEMMA RemovedNone ==
    ASSUME NEW g
    PROVE  RemoveFirst(<<>>, g) = <<>>
BY DEF RemoveFirst

\* The calls of the program, when they come from one thread.
LEMMA CallKeepsLine ==
    ASSUME Serial, TypeOK, LineMeets, NEW k \in Kinds, NEW g \in Goals,
           Register(k, g) \/ CallStep(k, g) \/ Abandon(k, g)
    PROVE  LineMeets'
<1> USE Types, KindTypes, LineTypes
<1>1. UNCHANGED <<inHand, gone, replies, serving, down, AtGoal, Goal>>
    BY ClientSide DEF Register, CallStep, Publish, PublishFails, SetException, Cleanup, Abandon,
           replyVars, topicVars, serverVars, AtGoal, Goal
<1>2. \E o \in {"pending", "cancelled", "error"} :
          \/ fut' = fut
          \/ o # "error" /\ fut' = [fut EXCEPT ![k][g] = o]
          \/ o # "pending" /\ fut' = Settled(fut, k, g, o)
    BY DEF Register, CallStep, Publish, PublishFails, SetException, Cleanup, Abandon
<1>3. OwnGoalResponse'
    <2>1. \A o \in {"pending", "cancelled", "error"} : o \in Outcomes /\ o \notin Goals
        BY ActionAssumption DEF Outcomes
    <2> QED BY <1>2, <2>1, OwnFrame DEF LineMeets
<1>4. ASSUME gone => keys'["goal"] = <<>>, ~gone => Line' PROVE LineMeets'
    BY <1>1, <1>3, <1>4 DEF LineMeets, Line
<1>5. \A from, to : Goto(k, g, from, to) =>
          /\ rpc[k][g] = from /\ rpc' = [rpc EXCEPT ![k][g] = to]
          /\ k = "goal" => rpc'["goal"] = [rpc["goal"] EXCEPT ![g] = to]
          /\ k # "goal" => rpc'["goal"] = rpc["goal"]
    BY DEF Goto
<1>6. CASE UNCHANGED <<rpc["goal"], keys["goal"], requests["goal"]>>
    BY <1>1, <1>4, <1>6, LineFrame DEF LineMeets, Line
<1>7. CASE Register(k, g)
    <2>1. CASE gone
        <3>1. keys' = keys /\ Goto(k, g, "new", "done")
            BY <1>7, <2>1 DEF Register
        <3> QED BY <1>4, <2>1, <3>1 DEF LineMeets
    <2>2. CASE ~gone
        <3>1. /\ Goto(k, g, "new", "publish") /\ requests' = requests
              /\ keys' = IF k \in Ordered THEN [keys EXCEPT ![k] = Append(@, g)] ELSE keys
              /\ \A q \in Kinds, h \in Goals : rpc[q][h] # "publish"
            BY <1>7, <2>2 DEF Register, MayAsk, topicVars
        <3>2. CASE k # "goal"
            BY <1>5, <1>6, <3>1, <3>2
        <3>3. CASE k = "goal"
            <4>1. /\ rpc["goal"][g] = "new" /\ rpc'["goal"] = [rpc["goal"] EXCEPT ![g] = "publish"]
                  /\ keys'["goal"] = Append(keys["goal"], g)
                  /\ \A h \in Goals : rpc["goal"][h] # "publish"
                BY <1>5, <3>1, <3>3
            <4>2. Line
                BY <2>2 DEF LineMeets, Line
            <4>3. InLine([rpc["goal"] EXCEPT ![g] = "publish"], Append(keys["goal"], g), replies["goal"],
                         requests["goal"], AtGoal, Goal, down)
                BY ONLY g \in Goals, TypeOK, LineTypes, <4>1, <4>2, LineJoined DEF Line
            <4>4. Line'
                BY <1>1, <3>1, <4>1, <4>3 DEF Line
            <4> QED BY <1>4, <2>2, <4>4
        <3> QED BY <3>2, <3>3
    <2> QED BY <2>1, <2>2
<1>8. CASE Publish(k, g)
    <2>1. /\ Goto(k, g, "publish", "done") /\ keys' = keys
          /\ requests' = [requests EXCEPT ![k] = IF down THEN @ ELSE Append(@, g)]
        BY <1>8 DEF Publish
    <2>2. CASE k # "goal"
        BY <1>5, <1>6, <2>1, <2>2
    <2>3. CASE k = "goal"
        <3>1. /\ rpc["goal"][g] = "publish" /\ rpc'["goal"] = [rpc["goal"] EXCEPT ![g] = "done"]
              /\ requests'["goal"] = IF down THEN requests["goal"] ELSE Append(requests["goal"], g)
            BY <1>5, <2>1, <2>3
        <3>2. ASSUME ~gone PROVE Line'
            <4>1. Line
                BY <3>2 DEF LineMeets, Line
            <4>2. InLine([rpc["goal"] EXCEPT ![g] = "done"], keys["goal"], replies["goal"],
                         requests'["goal"], AtGoal, Goal, down)
                <5>1. /\ down => InLine([rpc["goal"] EXCEPT ![g] = "done"], keys["goal"], replies["goal"],
                                        requests["goal"], AtGoal, Goal, down)
                      /\ ~down => InLine([rpc["goal"] EXCEPT ![g] = "done"], keys["goal"], replies["goal"],
                                         Append(requests["goal"], g), AtGoal, Goal, down)
                    BY ONLY g \in Goals, TypeOK, LineTypes, <3>1, <4>1, LineSent DEF Line
                <5> QED BY <3>1, <5>1
            <4> QED BY <1>1, <2>1, <3>1, <4>2 DEF Line
        <3> QED BY <1>4, <2>1, <3>2 DEF LineMeets
    <2> QED BY <2>2, <2>3
<1>9. CASE PublishFails(k, g)
    <2>1. /\ Goto(k, g, "publish", "fail") /\ requests' = requests
          /\ keys' = IF k \in Ordered THEN [keys EXCEPT ![k] = RemoveFirst(@, g)] ELSE keys
        BY <1>9 DEF PublishFails, topicVars
    <2>2. CASE k # "goal"
        BY <1>5, <1>6, <2>1, <2>2
    <2>3. CASE k = "goal"
        <3>1. /\ rpc["goal"][g] = "publish" /\ rpc'["goal"] = [rpc["goal"] EXCEPT ![g] = "fail"]
              /\ keys'["goal"] = RemoveFirst(keys["goal"], g)
            BY <1>5, <2>1, <2>3
        <3>2. ASSUME ~gone PROVE Line'
            <4>1. Line
                BY <3>2 DEF LineMeets, Line
            <4>2. InLine([rpc["goal"] EXCEPT ![g] = "fail"], RemoveFirst(keys["goal"], g), replies["goal"],
                         requests["goal"], AtGoal, Goal, down)
                BY ONLY g \in Goals, TypeOK, LineTypes, <3>1, <4>1, LineLeft DEF Line
            <4> QED BY <1>1, <2>1, <3>1, <4>2 DEF Line
        <3> QED BY <1>4, <3>1, <3>2, RemovedNone DEF LineMeets
    <2> QED BY <2>2, <2>3
<1>10. CASE SetException(k, g)
    <2>1. Goto(k, g, "fail", "done") /\ UNCHANGED <<keys, requests>>
        BY <1>10 DEF SetException, topicVars
    <2>2. CASE k # "goal"
        BY <1>5, <1>6, <2>1, <2>2
    <2>3. CASE k = "goal"
        <3>1. rpc["goal"][g] = "fail" /\ rpc'["goal"] = [rpc["goal"] EXCEPT ![g] = "done"]
            BY <1>5, <2>1, <2>3
        <3>2. ASSUME ~gone PROVE Line'
            <4>1. Line
                BY <3>2 DEF LineMeets, Line
            <4>2. InLine([rpc["goal"] EXCEPT ![g] = "done"], keys["goal"], replies["goal"],
                         requests["goal"], AtGoal, Goal, down)
                BY ONLY g \in Goals, TypeOK, LineTypes, <3>1, <4>1, LineAside DEF Line
            <4> QED BY <1>1, <2>1, <3>1, <4>2 DEF Line
        <3> QED BY <1>4, <2>1, <3>2 DEF LineMeets
    <2> QED BY <2>2, <2>3
<1>11. CASE Cleanup(k, g) \/ Abandon(k, g)
    BY <1>6, <1>11 DEF Cleanup, Abandon, topicVars
<1> QED BY <1>7, <1>8, <1>9, <1>10, <1>11 DEF CallStep

LEMMA ClientKeepsLine ==
    ASSUME TypeOK, LineMeets, ClientStep \/ DestroyClient \/ CancelRegistered
    PROVE  LineMeets'
<1> USE Types, KindTypes, LineTypes
<1>1. UNCHANGED <<rpc, requests, serving, down, AtGoal, Goal>>
    BY ClientSide DEF ClientStep, TakeReply, TakeCancelReply, Resolve, DestroyClient,
           CancelRegistered, topicVars, serverVars, AtGoal, Goal
<1>2. ASSUME NEW k \in Ordered, TakeReply(k) PROVE LineMeets'
    <2>1. /\ UNCHANGED <<fut, gone>> /\ inHand = {} /\ replies[k] # <<>>
          /\ replies' = [replies EXCEPT ![k] = Tail(@)]
          /\ \/ keys[k] = <<>> /\ UNCHANGED <<keys, inHand>>
             \/ /\ keys[k] # <<>>
                /\ keys' = [keys EXCEPT ![k] = Tail(@)]
                /\ inHand' \subseteq {<<k, Head(keys[k]), Head(replies[k])>>}
        BY <1>2 DEF TakeReply
    <2>2. OwnGoalResponse'
        BY <2>1 DEF LineMeets, OwnGoalResponse
    <2>3. CASE k # "goal"
        <3>1. UNCHANGED <<keys["goal"], replies["goal"]>>
            BY <2>1, <2>3
        <3>2. \A p \in inHand' : p[1] # "goal"
            BY <2>1, <2>3
        <3> QED BY <1>1, <2>1, <2>2, <3>1, <3>2, LineFrame DEF LineMeets, Line
    <2>4. CASE k = "goal"
        <3>1. CASE gone
            BY <2>1, <2>2, <2>4, <3>1 DEF LineMeets
        <3>2. CASE ~gone
            <4>1. Line
                BY <3>2 DEF LineMeets, Line
            <4>2. /\ keys["goal"] # <<>> /\ Head(keys["goal"]) = Head(replies["goal"])
                  /\ InLine(rpc["goal"], Tail(keys["goal"]), Tail(replies["goal"]), requests["goal"],
                            AtGoal, Goal, down)
                <5>1. replies["goal"] # <<>>
                    BY <2>1, <2>4
                <5> QED BY ONLY TypeOK, LineTypes, <4>1, <5>1, LineAnswered DEF Line
            <4>3. keys'["goal"] = Tail(keys["goal"]) /\ replies'["goal"] = Tail(replies["goal"])
                BY <2>1, <2>4, <4>2
            <4>4. \A p \in inHand' : p[2] = p[3]
                BY <2>1, <2>4, <4>2
            <4>5. Line'
                BY <1>1, <4>2, <4>3 DEF Line
            <4> QED BY <2>1, <2>2, <3>2, <4>4, <4>5 DEF LineMeets, Line
        <3> QED BY <3>1, <3>2
    <2> QED BY <2>3, <2>4
<1>3. CASE TakeCancelReply
    <2>1. /\ UNCHANGED <<fut, keys, gone>>
          /\ replies' = [replies EXCEPT !["cancel"] = Tail(@)]
          /\ inHand' = {<<"cancel", g, Head(replies["cancel"])>> : g \in registered["cancel"]}
        BY <1>3 DEF TakeCancelReply
    <2>2. replies'["goal"] = replies["goal"] /\ \A p \in inHand' : p[1] # "goal"
        BY <2>1
    <2> QED BY <1>1, <2>1, <2>2, LineFrame DEF LineMeets, Line, OwnGoalResponse
<1>4. CASE Resolve
    <2>1. PICK p \in inHand : /\ fut' = Settled(fut, p[1], p[2], p[3])
                              /\ inHand' = inHand \ {p}
                              /\ UNCHANGED <<keys, gone, replies>>
        BY <1>4 DEF Resolve, topicVars
    <2>2. PICK k \in Kinds, g \in Goals, r \in Goals : p = <<k, g, r>>
        OBVIOUS
    <2>3. fut' = Settled(fut, k, g, r) /\ r \in Outcomes
        BY <2>1, <2>2 DEF Outcomes
    <2>4. k = "goal" => r = g
        BY <2>2 DEF LineMeets
    <2>5. OwnGoalResponse'
        BY <2>3, <2>4, OwnFrame DEF LineMeets
    <2> QED BY <1>1, <2>1, <2>5, LineFrame DEF LineMeets, Line
<1>5. CASE DestroyClient
    <2>1. UNCHANGED <<fut, inHand>> /\ gone' = TRUE /\ keys'["goal"] = <<>>
        BY <1>5 DEF DestroyClient
    <2> QED BY <2>1 DEF LineMeets, OwnGoalResponse
<1>6. CASE CancelRegistered
    <2>1. PICK p \in ending : /\ fut' = Settled(fut, p[1], p[2], "cancelled")
                              /\ UNCHANGED <<keys, gone, inHand, replies>>
        BY <1>6 DEF CancelRegistered, topicVars
    <2>2. PICK k \in Kinds, g \in Goals : p = <<k, g>>
        OBVIOUS
    <2>3. fut' = Settled(fut, k, g, "cancelled") /\ "cancelled" \in Outcomes /\ "cancelled" \notin Goals
        BY <2>1, <2>2, ActionAssumption DEF Outcomes
    <2>4. OwnGoalResponse'
        BY <2>3, OwnFrame DEF LineMeets
    <2> QED BY <1>1, <2>1, <2>4, LineFrame DEF LineMeets, Line
<1> QED BY <1>2, <1>3, <1>4, <1>5, <1>6 DEF ClientStep

\* The server's callbacks and jobs.
LEMMA ServerKeepsLine ==
    ASSUME TypeOK, LineMeets, InLineSoFar', ServerStep \/ DestroyServer \/ \E g \in Goals : JobStep(g)
    PROVE  LineMeets'
<1> USE Types, KindTypes, LineTypes
<1>1. UNCHANGED <<fut, inHand, gone, rpc, keys>>
    BY ServerSide DEF clientVars, callVars, replyVars
<1>2. ASSUME ~gone => Line' PROVE LineMeets'
    BY <1>1, <1>2 DEF LineMeets, Line, OwnGoalResponse
<1>3. ASSUME NEW k \in Kinds, NEW g \in Goals, NEW ACTION sent, NEW ACTION unsent,
             Send(k, g, sent, unsent), k # "goal"
      PROVE  replies'["goal"] = replies["goal"]
    BY <1>3, SendTypes
<1>4. ~AtGoal /\ ~AtGoal' => AtGoal' = AtGoal
    BY DEF AtGoal
<1>5. CASE UNCHANGED <<replies["goal"], requests["goal"], down, AtGoal>> /\ (AtGoal => Goal' = Goal)
    BY <1>1, <1>2, <1>5, LineFrame DEF LineMeets, Line
<1>6. ASSUME down, down', replies'["goal"] = replies["goal"] PROVE LineMeets'
    <2>1. ASSUME ~gone PROVE Line'
        <3>1. Line
            BY <2>1 DEF LineMeets, Line
        <3>2. \A waiting2, serves2, goal2 :
                  InLine(rpc["goal"], keys["goal"], replies["goal"], waiting2, serves2, goal2, TRUE)
            BY ONLY TypeOK, LineTypes, <3>1, LineDead DEF Line
        <3> QED BY <1>1, <1>6, <3>2 DEF Line
    <2> QED BY <1>2, <2>1
<1>7. CASE DestroyServer
    <2>1. down' = TRUE /\ replies' = replies
        BY <1>7 DEF DestroyServer, topicVars
    <2>2. ASSUME ~gone PROVE Line'
        <3>1. Line
            BY <2>2 DEF LineMeets, Line
        <3>2. \A waiting2, serves2, goal2 :
                  InLine(rpc["goal"], keys["goal"], replies["goal"], waiting2, serves2, goal2, TRUE)
            BY ONLY TypeOK, LineTypes, <3>1, LineDead DEF Line
        <3> QED BY <1>1, <2>1, <3>2 DEF Line
    <2> QED BY <1>2, <2>2
<1>8. ASSUME NEW k \in Kinds, TakeRequest(k) PROVE LineMeets'
    <2>1. /\ Doing("idle") /\ requests[k] # <<>> /\ UNCHANGED <<replies, down>>
          /\ requests' = [requests EXCEPT ![k] = Tail(@)]
          /\ serving' = IF down THEN Idle ELSE <<k, Head(requests[k])>>
        BY <1>8 DEF TakeRequest
    <2>2. ~AtGoal
        BY <2>1 DEF AtGoal, Doing
    <2>3. CASE down
        BY <1>6, <2>1, <2>3
    <2>4. CASE ~down /\ k # "goal"
        <3>1. ~AtGoal' /\ requests'["goal"] = requests["goal"]
            BY <2>1, <2>4 DEF AtGoal, Kinds
        <3> QED BY <1>4, <1>5, <2>1, <2>2, <3>1
    <2>5. CASE ~down /\ k = "goal"
        <3>1. /\ AtGoal' = TRUE /\ Goal' = Head(requests["goal"])
              /\ requests'["goal"] = Tail(requests["goal"]) /\ down' = FALSE
            BY <2>1, <2>5 DEF AtGoal, Goal
        <3>2. ASSUME ~gone PROVE Line'
            <4>1. InLine(rpc["goal"], keys["goal"], replies["goal"], requests["goal"], FALSE, Goal, FALSE)
                <5>1. AtGoal = FALSE /\ down = FALSE
                    BY <2>2, <2>5
                <5> QED BY <3>2, <5>1 DEF LineMeets
            <4>2. requests["goal"] # <<>>
                BY <2>1, <2>5
            <4>3. InLine(rpc["goal"], keys["goal"], replies["goal"], Tail(requests["goal"]), TRUE,
                         Head(requests["goal"]), FALSE)
                BY ONLY TypeOK, LineTypes, <4>1, <4>2, LineTaken
            <4> QED BY <1>1, <2>1, <3>1, <4>3 DEF Line
        <3> QED BY <1>2, <3>2
    <2> QED BY <2>3, <2>4, <2>5
<1>9. ASSUME NEW s \in {"goal", "accepted", "execute", "submit"},
             NEW t \in {"accepted", "execute", "submit", "reply"}, Doing(s),
             serving' = <<t, Goal>>, UNCHANGED <<topicVars, down>>
      PROVE  LineMeets'
    <2>1. AtGoal = TRUE /\ AtGoal' = TRUE /\ Goal' = Goal
        BY <1>9 DEF AtGoal, Doing, Goal
    <2> QED BY <1>5, <1>9, <2>1 DEF topicVars
<1>10. CASE Reject \/ MarkExecuting \/ Submit
    BY <1>9, <1>10 DEF Reject, MarkExecuting, Submit
<1>20. CASE MarkAccepted
    <2>1. Doing("accepted") /\ UNCHANGED <<topicVars, down>>
        BY <1>20 DEF MarkAccepted
    <2>2. serving' = <<"reply", Goal>> \/ serving' = <<"execute", Goal>>
        BY <1>20 DEF MarkAccepted
    <2> QED BY <1>9, <2>1, <2>2
<1>11. CASE Accept
    <2>1. Doing("goal") /\ UNCHANGED <<topicVars, down>>
        BY <1>11 DEF Accept
    <2>2. CASE down
        BY <1>6, <2>1, <2>2 DEF topicVars
    <2>3. CASE ~down
        BY <1>9, <1>11, <2>1, <2>3 DEF Accept
    <2> QED BY <2>2, <2>3
<1>12. CASE ReplyGoal
    <2>1. /\ Goal \in Goals /\ serving = <<"reply", Goal>> /\ serving' = Idle
          /\ UNCHANGED <<requests, down>> /\ Send("goal", Goal, TRUE, TRUE)
        BY <1>12, Serves DEF ReplyGoal
    <2>2. CASE down
        <3>1. replies'["goal"] = replies["goal"]
            BY <2>1, <2>2 DEF Send
        <3> QED BY <1>6, <2>1, <2>2, <3>1
    <2>3. CASE ~down
        <3>1. ASSUME ~gone PROVE Line'
            <4>5. lost' # lost \cup {<<"goal", Goal>>} \/ lost' = lost
                BY <2>1 DEF InLineSoFar
            <4>6. replies' = [replies EXCEPT !["goal"] = Append(@, Goal)]
                BY <2>1, <2>3, <3>1, <4>5 DEF Send, InLineSoFar
            <4>1. /\ AtGoal = TRUE /\ AtGoal' = FALSE /\ down' = FALSE
                  /\ replies'["goal"] = Append(replies["goal"], Goal)
                BY <2>1, <2>3, <4>6 DEF AtGoal, Idle
            <4>2. InLine(rpc["goal"], keys["goal"], replies["goal"], requests["goal"], TRUE, Goal, FALSE)
                <5>1. down = FALSE
                    BY <2>3
                <5> QED BY <3>1, <4>1, <5>1 DEF LineMeets
            <4>3. \A next : InLine(rpc["goal"], keys["goal"], Append(replies["goal"], Goal),
                                   requests["goal"], FALSE, next, FALSE)
                <5>1. Goal \in Goals
                    BY <2>1
                <5> QED BY ONLY TypeOK, LineTypes, <4>2, <5>1, LineReplied
            <4> QED BY <1>1, <2>1, <4>1, <4>3 DEF Line
        <3> QED BY <1>2, <3>1
    <2> QED BY <2>2, <2>3
<1>13. ASSUME NEW s \in {"result", "publish", "send", "clear", "cancel", "canceling", "replyCancel"},
              Doing(s),
              serving' = Idle \/ \E t \in {"publish", "send", "clear", "canceling", "replyCancel"} :
                                     serving' = <<t, Goal>>,
              UNCHANGED <<requests, down>>, replies'["goal"] = replies["goal"]
       PROVE  LineMeets'
    <2>1. ~AtGoal /\ ~AtGoal'
        BY <1>13 DEF AtGoal, Doing, Idle
    <2> QED BY <1>4, <1>5, <1>13, <2>1
<1>14. CASE RequestResult
    <2>1. Doing("result") /\ (serving' = Idle \/ serving' = <<"publish", Goal>>)
          /\ UNCHANGED <<topicVars, down>>
        BY <1>14 DEF RequestResult
    <2> QED BY <1>13, <2>1 DEF topicVars
<1>15. CASE TakeResultHere
    <2>1. Doing("publish") /\ UNCHANGED <<topicVars, down>> /\ Goal \in Goals
        BY <1>15, Serves DEF TakeResultHere
    <2>2. serving' = Idle \/ serving' = <<"send", Goal>>
        BY <1>15, <2>1, TakeResultTypes DEF TakeResultHere, Serve
    <2> QED BY <1>13, <2>1, <2>2 DEF topicVars
<1>16. CASE SendResultHere
    <2>1. /\ Doing("send") /\ Send("result", Goal, Serve("clear"), serving' = Idle)
          /\ UNCHANGED <<requests, down>>
        BY <1>16 DEF SendResultHere
    <2>2. Goal \in Goals /\ "result" \in Kinds
        BY <2>1, Serves
    <2>3. serving' = <<"clear", Goal>> \/ serving' = Idle
        BY ONLY TypeOK, <2>1, <2>2, SendTypes DEF Serve
    <2>4. replies'["goal"] = replies["goal"]
        BY <1>3, <2>1, <2>2
    <2> QED BY <1>13, <2>1, <2>3, <2>4
<1>17. CASE ClearStatusHere \/ LookUpHandle \/ MarkCanceling
    BY <1>13, <1>17 DEF ClearStatusHere, LookUpHandle, MarkCanceling, topicVars
<1>18. CASE ReplyCancel
    <2>1. Doing("replyCancel") /\ Send("cancel", Goal, TRUE, TRUE) /\ UNCHANGED <<requests, down>> /\ serving' = Idle
        BY <1>18 DEF ReplyCancel
    <2>2. replies'["goal"] = replies["goal"]
        BY <1>3, <2>1, Serves
    <2> QED BY <1>13, <2>1, <2>2
<1>19. ASSUME NEW g \in Goals, JobStep(g) PROVE LineMeets'
    <2>1. /\ UNCHANGED <<serving, down, requests>>
          /\ replies' = replies \/ Send("result", g, Job(g, "send", "clear"), Job(g, "send", "over"))
        BY <1>19 DEF JobStep, MarkHanded, SubmitHanded, StartJob, Complete, MarkDone,
               TakeResultInJob, SendResultInJob, ClearStatusInJob, topicVars
    <2>2. replies'["goal"] = replies["goal"]
        BY <1>3, <2>1
    <2>3. AtGoal' = AtGoal /\ Goal' = Goal
        BY <2>1 DEF AtGoal, Goal
    <2> QED BY <1>5, <2>1, <2>2, <2>3
<1> QED BY <1>7, <1>8, <1>10, <1>20, <1>11, <1>12, <1>14, <1>15, <1>16, <1>17, <1>18, <1>19 DEF ServerStep

\* The keys stay in line with the replies and the requests, and so a goal future
\* gets the response to its own goal (code: _goal_order of ActionClient, filled by
\* send_goal_async and read by _on_send_goal_response), if the program calls the
\* client from one thread and until the server fails to publish a goal reply.
\* Which replies could not be published is not forgotten.
LEMMA LostStays ==
    ASSUME TypeOK, Next
    PROVE  lost \subseteq lost' /\ (InLineSoFar' => InLineSoFar)
<1> SUFFICES lost \subseteq lost'
    BY DEF InLineSoFar
<1>1. "goal" \in Kinds /\ "result" \in Kinds /\ "cancel" \in Kinds
    BY KindTypes
<1>2. CASE ReplyGoal \/ ReplyCancel \/ SendResultHere
    <2>1. Goal \in Goals
        BY <1>2, Serves DEF ReplyGoal, ReplyCancel, SendResultHere
    <2>2. CASE ReplyGoal
        BY <1>1, <2>1, <2>2, SendTypes DEF ReplyGoal
    <2>3. CASE ReplyCancel
        BY <1>1, <2>1, <2>3, SendTypes DEF ReplyCancel
    <2>4. CASE SendResultHere
        BY <1>1, <2>1, <2>4, SendTypes DEF SendResultHere
    <2> QED BY <1>2, <2>2, <2>3, <2>4
<1>3. ASSUME NEW g \in Goals, SendResultInJob(g) PROVE lost \subseteq lost'
    BY <1>1, <1>3, SendTypes DEF SendResultInJob
<1>4. ASSUME NEW g \in Goals, JobStep(g) PROVE lost \subseteq lost'
    BY <1>3, <1>4 DEF JobStep, MarkHanded, SubmitHanded, StartJob, Complete, MarkDone,
           TakeResultInJob, ClearStatusInJob, topicVars
<1>5. CASE ServerStep \/ DestroyServer
    <2>1. CASE ~(ReplyGoal \/ ReplyCancel \/ SendResultHere)
        <3>1. lost' = lost
            BY <1>5, <2>1 DEF ServerStep, TakeRequest, Reject, Accept, MarkAccepted, MarkExecuting,
                   Submit, RequestResult, TakeResultHere, ClearStatusHere, LookUpHandle,
                   MarkCanceling, DestroyServer, topicVars
        <3> QED BY <3>1
    <2> QED BY <1>2, <2>1
<1>6. CASE \/ \E k \in Kinds, g \in Goals : Register(k, g) \/ CallStep(k, g) \/ Abandon(k, g)
           \/ ClientStep \/ DestroyClient \/ CancelRegistered
    <2>1. lost' = lost
        BY <1>6 DEF Register, CallStep, Publish, PublishFails, SetException, Cleanup, Abandon,
               ClientStep, TakeReply, TakeCancelReply, Resolve, DestroyClient, CancelRegistered,
               topicVars
    <2> QED BY <2>1
<1> QED BY <1>4, <1>5, <1>6 DEF Next

THEOREM LineHolds == ASSUME Serial PROVE Spec => []LineInv
<1>1. Init => LineInv
    <2> SUFFICES ASSUME Init PROVE LineInv
        OBVIOUS
    <2>1. /\ \A g \in Goals : rpc["goal"][g] = "new" /\ fut["goal"][g] = "none"
          /\ keys["goal"] = <<>> /\ replies["goal"] = <<>> /\ requests["goal"] = <<>>
          /\ inHand = {} /\ ~AtGoal
        BY KindTypes DEF Init, PerRequest, AtGoal
    <2>2. Line
        <3>1. InLine(rpc["goal"], <<>>, <<>>, <<>>, FALSE, Goal, down)
            BY <2>1 DEF InLine, One
        <3>2. AtGoal = FALSE
            BY <2>1
        <3> QED BY <2>1, <3>1, <3>2 DEF Line
    <2>3. "none" \notin Goals
        BY ActionAssumption
    <2> QED BY <2>1, <2>2, <2>3 DEF LineInv, LineMeets, Line, OwnGoalResponse
<1>2. TypeOK /\ LineInv /\ [Next]_vars => LineInv'
    <2> SUFFICES ASSUME TypeOK, LineInv, [Next]_vars PROVE LineInv'
        OBVIOUS
    <2>1. CASE UNCHANGED vars
        <3>1. UNCHANGED <<rpc, fut, keys, inHand, gone, requests, replies, lost, serving, down>>
            BY <2>1 DEF vars, clientVars, callVars, replyVars, topicVars, serverVars
        <3>2. AtGoal' = AtGoal /\ Goal' = Goal
            BY <3>1 DEF AtGoal, Goal
        <3> QED BY <3>1, <3>2 DEF LineInv, LineMeets, InLineSoFar, OwnGoalResponse
    <2>2. CASE Next
        <3>1. ASSUME InLineSoFar' PROVE LineMeets /\ InLineSoFar'
            BY <2>2, <3>1, LostStays DEF LineInv
        <3>2. ASSUME InLineSoFar' PROVE LineMeets'
            BY <2>2, <3>1, <3>2, CallKeepsLine, ClientKeepsLine, ServerKeepsLine DEF Next
        <3> QED BY <3>2 DEF LineInv
    <2> QED BY <2>1, <2>2
<1> QED BY <1>1, <1>2, TypeCorrect, PTL DEF Spec

\* Replies and requests stay in step: a goal future gets its own response as long
\* as the server could publish the goal replies (_publish_if_alive), no pending future is forgotten, and a result meets the request for it (code: the
\* tables of ActionClient and ActionServer).
THEOREM InStepHolds == ASSUME Serial PROVE Spec => []InStep
<1>1. LineInv /\ HeldInv /\ MeetInv => InStep
    BY DEF LineInv, LineMeets, HeldInv, MeetInv, InStep
<1> QED BY <1>1, LineHolds, HeldHolds, MeetHolds, PTL
=============================================================================
