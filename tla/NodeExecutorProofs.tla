------------------------- MODULE NodeExecutorProofs -------------------------
(* Theorems of NodeExecutor, for any number of workers, entities, groups    *)
(* and callbacks: its type invariant, that no callback is lost or           *)
(* duplicated, and, as long as destroy_node is not called, mutual exclusion *)
(* and the refinement of CallbackService; in which order callbacks begin.   *)
(* For a single worker: that no callback is stranded.                       *)
EXTENDS ArrivalOrder, SequenceTheorems, TLAPS

\* The type invariant: every variable of the node and its executor stays in
\* its domain, whatever the workers, entities, groups and bounds are.
THEOREM TypeCorrect == Spec => []TypeOK
<1> USE NodeAssumption
    DEF Calls, Arrived, TypeOK, EnqTypeOK, QueueTypeOK, EntityTypeOK,
        WorkerTypeOK, SharedTypeOK, WorkerPcs
<1>1. Init => TypeOK
  <2> SUFFICES ASSUME Init PROVE TypeOK
    OBVIOUS
  <2>1. EnqTypeOK
    BY DEF Init
  <2>2. QueueTypeOK /\ EntityTypeOK
    BY DEF Init
  <2>3. WorkerTypeOK
    BY DEF Init
  <2>4. SharedTypeOK
    BY DEF Init
  <2> QED BY <2>1, <2>2, <2>3, <2>4
<1>2. TypeOK /\ [Next]_vars => TypeOK'
  <2> SUFFICES ASSUME TypeOK, [Next]_vars PROVE TypeOK'
    OBVIOUS
  <2> USE DEF enqVars, dropVars, entityVars, workerVars, wakeVars, destroyVars,
              Goto
  <2>1. ASSUME NEW e \in Entities, Enqueue(e) PROVE TypeOK'
    <3> DEFINE new == arrived + 1
    <3>a. /\ new \in Calls /\ arrived \in Nat /\ arrived' = new
          /\ 1..arrived \subseteq 1..new /\ new \in 1..new
          /\ owner' = [owner EXCEPT ![new] = e]
      BY <2>1 DEF Enqueue
    <3>b. queue \in Seq(1..new) /\ destroyPend \in Seq(1..new)
      BY <3>a, SeqMonotonic
    <3>c. queue # <<>> => Head(queue) \in 1..arrived /\ Tail(queue) \in Seq(1..new)
      BY <3>b
    <3>d. Full => queue # <<>>
      BY DEF Full
    <3>1. EnqTypeOK'
      <4>1. arrived' \in 0..MaxCalls
        BY <3>a
      <4>2. /\ owner' \in [Calls -> Entities \cup {None}]
            /\ \A c \in Calls : c <= arrived' <=> owner'[c] \in Entities
        BY <3>a
      <4>3. \E v \in 1..new : victim' \in {victim, [victim EXCEPT ![new] = v]}
        BY <2>1, <3>a, <3>c, <3>d DEF Enqueue, Admit
      <4>4. \E p \in {"wake", "notify"} : enqPc' = [enqPc EXCEPT ![new] = p]
        BY <2>1 DEF Enqueue, Admit
      <4>5. victim' \in [Calls -> Arrived' \cup {None}]
        BY <3>a, <4>3
      <4>6. enqPc'[new] = "notify" => victim'[new] # None
        <5>1. \/ enqPc' = [enqPc EXCEPT ![new] = "wake"]
              \/ \E v \in 1..new : victim' = [victim EXCEPT ![new] = v]
          BY <2>1, <3>a, <3>c, <3>d DEF Enqueue, Admit
        <5>2. None \notin 1..new
          BY <3>a
        <5> QED BY <3>a, <5>1, <5>2
      <4>7. \A c \in Calls : enqPc'[c] = "notify" => victim'[c] # None
        BY <3>a, <4>3, <4>4, <4>6
      <4> QED BY <4>1, <4>2, <4>4, <4>5, <4>7
    <3>2. QueueTypeOK'
      <4>0. \/ queue' = queue /\ dropped' = dropped \cup {new}
            \/ queue' = Append(queue, new) /\ dropped' = dropped
            \/ /\ queue # <<>>
               /\ queue' = Append(Tail(queue), new)
               /\ dropped' = dropped \cup {Head(queue)}
        BY <2>1, <3>d DEF Enqueue, Admit
      <4>a. \A s \in Seq(1..new) : Append(s, new) \in Seq(1..new)
        BY <3>a, AppendProperties
      <4>1. queue' \in Seq(1..new)
        <5>1. CASE queue' = queue
          BY <3>b, <5>1
        <5>2. CASE queue' = Append(queue, new)
          BY <3>b, <4>a, <5>2
        <5>3. CASE queue # <<>> /\ queue' = Append(Tail(queue), new)
          BY <3>c, <4>a, <5>3
        <5> QED BY <4>0, <5>1, <5>2, <5>3
      <4>b. dropped \subseteq 1..new
        BY <3>a
      <4>2. dropped' \subseteq 1..new
        <5>1. CASE dropped' = dropped \cup {new}
          BY <3>a, <4>b, <5>1
        <5>2. CASE queue # <<>> /\ dropped' = dropped \cup {Head(queue)}
          BY <3>a, <3>c, <4>b, <5>2
        <5> QED BY <4>0, <4>b, <5>1, <5>2
      <4> QED BY <2>1, <3>a, <3>b, <4>1, <4>2 DEF Enqueue
    <3>3. WorkerTypeOK'
      <4>1. skipped \in [Workers -> Seq(1..new)]
        BY <3>a, SeqMonotonic
      <4> QED BY <2>1, <3>a, <4>1 DEF Enqueue
    <3>4. EntityTypeOK' /\ SharedTypeOK'
      BY <2>1 DEF Enqueue, Admit
    <3> QED BY <3>1, <3>2, <3>3, <3>4
  <2>2. ASSUME NEW c \in Calls, NotifyDropped(c) PROVE TypeOK'
    <3>1. EnqTypeOK'
      BY <2>2 DEF NotifyDropped
    <3>2. QueueTypeOK'
      BY <2>2 DEF NotifyDropped
    <3>3. EntityTypeOK' /\ WorkerTypeOK' /\ SharedTypeOK'
      BY <2>2 DEF NotifyDropped
    <3> QED BY <3>1, <3>2, <3>3
  <2>3. ASSUME NEW c \in Calls, Wake(c) PROVE TypeOK'
    <3>1. EnqTypeOK'
      BY <2>3 DEF Wake
    <3>2. SharedTypeOK'
      BY <2>3 DEF Wake
    <3>3. QueueTypeOK' /\ EntityTypeOK' /\ WorkerTypeOK'
      BY <2>3 DEF Wake
    <3> QED BY <3>1, <3>2, <3>3
  <2>4. ASSUME NEW w \in Workers, Top(w) PROVE TypeOK'
    <3>1. WorkerTypeOK'
      BY <2>4 DEF Top
    <3>2. EnqTypeOK' /\ QueueTypeOK' /\ EntityTypeOK' /\ SharedTypeOK'
      BY <2>4 DEF Top
    <3> QED BY <3>1, <3>2
  <2>5. ASSUME NEW w \in Workers, ReadGeneration(w) PROVE TypeOK'
    <3>1. WorkerTypeOK'
      BY <2>5 DEF ReadGeneration
    <3>2. SharedTypeOK'
      BY <2>5 DEF ReadGeneration
    <3>3. EnqTypeOK' /\ QueueTypeOK' /\ EntityTypeOK'
      BY <2>5 DEF ReadGeneration
    <3> QED BY <3>1, <3>2, <3>3
  <2>6. ASSUME NEW w \in Workers, Snapshot(w) PROVE TypeOK'
    <3>1. WorkerTypeOK'
      BY <2>6 DEF Snapshot
    <3>2. EnqTypeOK' /\ QueueTypeOK' /\ EntityTypeOK' /\ SharedTypeOK'
      BY <2>6 DEF Snapshot
    <3> QED BY <3>1, <3>2
  <2>7. ASSUME NEW w \in Workers, PopItem(w) PROVE TypeOK'
    <3>1. QueueTypeOK'
      BY <2>7 DEF PopItem
    <3>2. WorkerTypeOK'
      BY <2>7 DEF PopItem
    <3>3. EnqTypeOK' /\ EntityTypeOK' /\ SharedTypeOK'
      BY <2>7 DEF PopItem
    <3> QED BY <3>1, <3>2, <3>3
  <2>8. ASSUME NEW w \in Workers, ScanEnds(w) PROVE TypeOK'
    <3>1. WorkerTypeOK'
      BY <2>8 DEF ScanEnds
    <3>2. EnqTypeOK' /\ QueueTypeOK' /\ EntityTypeOK' /\ SharedTypeOK'
      BY <2>8 DEF ScanEnds
    <3> QED BY <3>1, <3>2
  <2>9. ASSUME NEW w \in Workers, BeginExecution(w) PROVE TypeOK'
    <3>a. GroupOfCall(hand[w]) \in Groups
      BY <2>9 DEF BeginExecution, GroupOfCall
    <3>b. \E p \in {"restore", "recheck"} : wpc' = [wpc EXCEPT ![w] = p]
      BY <2>9 DEF BeginExecution
    <3>c. \E g \in Groups : grp' \in {grp, [grp EXCEPT ![w] = g]}
      BY <2>9, <3>a DEF BeginExecution
    <3>d. wpc[w] = "begin" /\ UNCHANGED <<hand, skipped, left, arrived>>
      BY <2>9 DEF BeginExecution
    <3>1. WorkerTypeOK'
      <4>1. wpc' \in [Workers -> WorkerPcs]
        BY <3>b
      <4>2. grp' \in [Workers -> Groups \cup {None}]
        BY <3>c
      <4>3. \A v \in Workers :
               wpc'[v] \in {"begin", "recheck", "call", "running", "inert"}
                   => hand'[v] # None
        BY <3>b, <3>d
      <4> QED BY <3>d, <4>1, <4>2, <4>3
    <3>2. SharedTypeOK'
      BY <2>9 DEF BeginExecution
    <3>3. EnqTypeOK' /\ QueueTypeOK' /\ EntityTypeOK'
      BY <2>9 DEF BeginExecution, GroupOfCall, HasGroup
    <3> QED BY <3>1, <3>2, <3>3
  <2>10. ASSUME NEW w \in Workers, Recheck(w) PROVE TypeOK'
    <3>a. hand[w] \in Arrived /\ skipped[w] \in Seq(Arrived)
      BY <2>10 DEF Recheck
    <3>b. Append(skipped[w], hand[w]) \in Seq(Arrived)
      BY <3>a, AppendProperties
    <3>1. WorkerTypeOK'
      <4>1. CASE HasGroup(w)
        <5>1. wpc' \in [Workers -> WorkerPcs] /\ hand' \in [Workers -> Arrived \cup {None}]
          BY <2>10, <4>1 DEF Recheck
        <5>2. skipped' \in [Workers -> Seq(Arrived)]
          <6>1. skipped' = [skipped EXCEPT ![w] = Append(skipped[w], hand[w])]
            BY <2>10, <4>1 DEF Recheck
          <6>2. skipped \in [Workers -> Seq(Arrived)]
            OBVIOUS
          <6> HIDE DEF Arrived
          <6> QED BY <3>b, <6>1, <6>2
        <5>3. \A v \in Workers :
                 wpc'[v] \in {"begin", "recheck", "call", "running", "inert"}
                     => hand'[v] # None
          <6>1. /\ wpc' = [wpc EXCEPT ![w] = "pop"]
                /\ hand' = [hand EXCEPT ![w] = None]
            BY <2>10, <4>1 DEF Recheck
          <6> QED BY <6>1
        <5>4. UNCHANGED <<arrived, left, grp>>
          BY <2>10, <4>1 DEF Recheck
        <5> QED BY <5>1, <5>2, <5>3, <5>4
      <4>2. CASE ~HasGroup(w)
        BY <2>10, <4>2 DEF Recheck
      <4> QED BY <4>1, <4>2
    <3>2. EnqTypeOK' /\ QueueTypeOK' /\ EntityTypeOK' /\ SharedTypeOK'
      BY <2>10 DEF Recheck, HasGroup
    <3> QED BY <3>1, <3>2
  <2>11. ASSUME NEW w \in Workers, Restore(w) PROVE TypeOK'
    <3>1. QueueTypeOK'
      BY <2>11 DEF Restore
    <3>2. WorkerTypeOK'
      BY <2>11 DEF Restore
    <3>3. EnqTypeOK' /\ EntityTypeOK' /\ SharedTypeOK'
      BY <2>11 DEF Restore
    <3> QED BY <3>1, <3>2, <3>3
  <2>12. ASSUME NEW w \in Workers, CallUser(w) PROVE TypeOK'
    <3>1. WorkerTypeOK'
      BY <2>12 DEF CallUser
    <3>2. EnqTypeOK' /\ QueueTypeOK' /\ EntityTypeOK' /\ SharedTypeOK'
      BY <2>12 DEF CallUser
    <3> QED BY <3>1, <3>2
  <2>13. ASSUME NEW w \in Workers, EndExecution(w) PROVE TypeOK'
    <3>1. QueueTypeOK'
      BY <2>13 DEF EndExecution
    <3>2. WorkerTypeOK'
      BY <2>13 DEF EndExecution
    <3>3. SharedTypeOK'
      BY <2>13 DEF EndExecution
    <3>4. EnqTypeOK' /\ EntityTypeOK'
      BY <2>13 DEF EndExecution
    <3> QED BY <3>1, <3>2, <3>3, <3>4
  <2>14. ASSUME NEW w \in Workers, CheckStopped(w) PROVE TypeOK'
    <3>1. WorkerTypeOK'
      BY <2>14 DEF CheckStopped
    <3>2. EnqTypeOK' /\ QueueTypeOK' /\ EntityTypeOK' /\ SharedTypeOK'
      BY <2>14 DEF CheckStopped
    <3> QED BY <3>1, <3>2
  <2>15. ASSUME NEW w \in Workers, WakeUp(w) PROVE TypeOK'
    <3>1. WorkerTypeOK'
      BY <2>15 DEF WakeUp
    <3>2. EnqTypeOK' /\ QueueTypeOK' /\ EntityTypeOK' /\ SharedTypeOK'
      BY <2>15 DEF WakeUp
    <3> QED BY <3>1, <3>2
  <2>16. ASSUME NEW w \in Workers, PollTimeout(w) PROVE TypeOK'
    <3>1. WorkerTypeOK'
      BY <2>16 DEF PollTimeout
    <3>2. EnqTypeOK' /\ QueueTypeOK' /\ EntityTypeOK' /\ SharedTypeOK'
      BY <2>16 DEF PollTimeout
    <3> QED BY <3>1, <3>2
  <2>17. CASE Stop
    <3>1. SharedTypeOK'
      BY <2>17 DEF Stop
    <3>2. EnqTypeOK' /\ QueueTypeOK' /\ EntityTypeOK' /\ WorkerTypeOK'
      BY <2>17 DEF Stop
    <3> QED BY <3>1, <3>2
  <2>18. CASE Disconnect
    <3>1. SharedTypeOK'
      BY <2>18 DEF Disconnect
    <3>2. EnqTypeOK' /\ QueueTypeOK' /\ EntityTypeOK' /\ WorkerTypeOK'
      BY <2>18 DEF Disconnect
    <3> QED BY <3>1, <3>2
  <2>19. ASSUME NEW e \in Entities, CloseEntity(e) PROVE TypeOK'
    <3>1. EntityTypeOK'
      BY <2>19 DEF CloseEntity
    <3>2. EnqTypeOK' /\ QueueTypeOK' /\ WorkerTypeOK' /\ SharedTypeOK'
      BY <2>19 DEF CloseEntity
    <3> QED BY <3>1, <3>2
  <2>20. ASSUME NEW e \in Entities, UnregisterEntity(e) PROVE TypeOK'
    <3>1. EntityTypeOK'
      BY <2>20 DEF UnregisterEntity
    <3>2. EnqTypeOK' /\ QueueTypeOK' /\ WorkerTypeOK' /\ SharedTypeOK'
      BY <2>20 DEF UnregisterEntity
    <3> QED BY <3>1, <3>2
  <2>21. ASSUME NEW e \in Entities, DestroyUnregister(e) PROVE TypeOK'
    <3>1. EntityTypeOK'
      BY <2>21 DEF DestroyUnregister
    <3>2. EnqTypeOK' /\ QueueTypeOK' /\ WorkerTypeOK' /\ SharedTypeOK'
      BY <2>21 DEF DestroyUnregister
    <3> QED BY <3>1, <3>2
  <2>22. CASE DestroyNode
    <3>1. EntityTypeOK'
      BY <2>22 DEF DestroyNode
    <3>2. EnqTypeOK' /\ QueueTypeOK' /\ WorkerTypeOK' /\ SharedTypeOK'
      BY <2>22 DEF DestroyNode
    <3> QED BY <3>1, <3>2
  <2>23. CASE DestroyClose
    <3>1. EntityTypeOK'
      BY <2>23 DEF DestroyClose
    <3>2. EnqTypeOK' /\ QueueTypeOK' /\ WorkerTypeOK' /\ SharedTypeOK'
      BY <2>23 DEF DestroyClose
    <3> QED BY <3>1, <3>2
  <2>24. CASE DestroyClearQueue
    <3>1. QueueTypeOK'
      <4>1. Range2Set(queue) \subseteq 1..arrived
        BY ElementOfSeq DEF Range2Set
      <4>2. <<>> \in Seq(1..arrived)
        BY EmptySeq
      <4> QED BY <2>24, <4>1, <4>2 DEF DestroyClearQueue
    <3>2. EntityTypeOK'
      <4>1. Range2Set(queue) \subseteq 1..arrived
        BY ElementOfSeq DEF Range2Set
      <4>2. <<>> \in Seq(1..arrived)
        BY EmptySeq
      <4> QED BY <2>24, <4>1, <4>2 DEF DestroyClearQueue
    <3>3. EnqTypeOK' /\ WorkerTypeOK' /\ SharedTypeOK'
      <4>1. Range2Set(queue) \subseteq 1..arrived
        BY ElementOfSeq DEF Range2Set
      <4>2. <<>> \in Seq(1..arrived)
        BY EmptySeq
      <4> QED BY <2>24, <4>1, <4>2 DEF DestroyClearQueue
    <3> QED BY <3>1, <3>2, <3>3
  <2>25. CASE DestroyNotify
    <3>1. QueueTypeOK'
      <4>1. destroyPend # <<>>
        BY <2>25 DEF DestroyNotify
      <4>2. Head(destroyPend) \in 1..arrived /\ Tail(destroyPend) \in Seq(1..arrived)
        BY <4>1
      <4> QED BY <2>25, <4>2 DEF DestroyNotify
    <3>2. EnqTypeOK' /\ EntityTypeOK' /\ WorkerTypeOK' /\ SharedTypeOK'
      BY <2>25 DEF DestroyNotify
    <3> QED BY <3>1, <3>2
  <2>26. CASE DestroyAdvance
    <3>1. EntityTypeOK'
      BY <2>26 DEF DestroyAdvance
    <3>2. EnqTypeOK' /\ QueueTypeOK' /\ WorkerTypeOK' /\ SharedTypeOK'
      BY <2>26 DEF DestroyAdvance
    <3> QED BY <3>1, <3>2
  <2>27. CASE UNCHANGED vars
    BY <2>27 DEF vars
  <2> QED
    BY <2>1, <2>2, <2>3, <2>4, <2>5, <2>6, <2>7, <2>8, <2>9, <2>10, <2>11, <2>12, <2>13, <2>14, <2>15, <2>16, <2>17, <2>18, <2>19, <2>20, <2>21, <2>22, <2>23, <2>24, <2>25, <2>26, <2>27
    DEF Next, Producer, Worker, Destroyer
<1> QED
  BY <1>1, <1>2, PTL DEF Spec

\* The worker that has begun an exclusive group owns its flag, and only closed
\* entities run without their group, as long as destroy_node is not called.
THEOREM GroupHeld ==
    ASSUME ~MayDestroyNode
    PROVE  Spec => []GroupInv
<1> USE NodeAssumption DEF Calls, Arrived
<1>1. Init => GroupInv
  BY DEF Init, GroupInv
<1>2. TypeOK /\ GroupInv /\ [Next]_vars => GroupInv'
  <2> SUFFICES ASSUME TypeOK, GroupInv, [Next]_vars PROVE GroupInv'
    OBVIOUS
  <2> USE DEF enqVars, dropVars, entityVars, workerVars, wakeVars, destroyVars,
              Goto, GroupInv, GroupOfCall, TypeOK, EnqTypeOK, WorkerTypeOK,
              EntityTypeOK, SharedTypeOK, WorkerPcs
  <2>1. ASSUME NEW e \in Entities, Enqueue(e) PROVE GroupInv'
    BY <2>1 DEF Enqueue
  <2>2. ASSUME NEW c \in Calls, Producer(c) PROVE GroupInv'
    BY <2>2 DEF Producer, NotifyDropped, Wake
  <2>3. ASSUME NEW w \in Workers, Top(w) \/ ReadGeneration(w) \/ Snapshot(w)
        PROVE  GroupInv'
    <3>1. CASE Top(w)
      BY <3>1 DEF Top
    <3>2. CASE ReadGeneration(w)
      BY <3>2 DEF ReadGeneration
    <3>3. CASE Snapshot(w)
      BY <3>3 DEF Snapshot
    <3> QED BY <2>3, <3>1, <3>2, <3>3
  <2>4. ASSUME NEW w \in Workers, PopItem(w) PROVE GroupInv'
    BY <2>4 DEF PopItem
  <2>5. ASSUME NEW w \in Workers, ScanEnds(w) PROVE GroupInv'
    BY <2>5 DEF ScanEnds
  <2>6. ASSUME NEW w \in Workers, BeginExecution(w) PROVE GroupInv'
    <3> DEFINE g == GroupOf[owner[hand[w]]]
    <3>a. /\ wpc[w] = "begin" /\ hand[w] # None /\ grp[w] = None
          /\ UNCHANGED <<owner, hand, registered, closed, destroyPc, destroyCur>>
      BY <2>6 DEF BeginExecution
    <3>b. g \in Groups
      BY <3>a
    <3>1. CASE owner[hand[w]] \notin registered
      BY <2>6, <3>a, <3>1 DEF BeginExecution, HasGroup
    <3>2. CASE owner[hand[w]] \in registered /\ g \notin executing
      <4>1. /\ wpc' = [wpc EXCEPT ![w] = "restore"]
            /\ grp' = [grp EXCEPT ![w] = g]
            /\ executing' = executing \cup ({g} \cap Exclusive)
        BY <2>6, <3>2 DEF BeginExecution, HasGroup
      <4>2. \A v \in Workers \ {w} : grp'[v] = g => g \notin Exclusive
        BY <3>2, <4>1
      <4> QED BY <3>a, <3>b, <4>1, <4>2
    <3>3. CASE owner[hand[w]] \in registered /\ g \in executing
      BY <2>6, <3>a, <3>3 DEF BeginExecution, HasGroup
    <3> QED BY <3>1, <3>2, <3>3
  <2>7. ASSUME NEW w \in Workers, Recheck(w) PROVE GroupInv'
    <3>1. CASE HasGroup(w)
      <4>1. /\ wpc' = [wpc EXCEPT ![w] = "pop"]
            /\ hand' = [hand EXCEPT ![w] = None]
            /\ grp[w] = None
            /\ UNCHANGED <<owner, grp, executing, registered, closed,
                           destroyPc, destroyCur>>
        BY <2>7, <3>1 DEF Recheck
      <4> QED BY <4>1
    <3>2. CASE ~HasGroup(w)
      BY <2>7, <3>2 DEF Recheck, HasGroup
    <3> QED BY <3>1, <3>2
  <2>8. ASSUME NEW w \in Workers, Restore(w) PROVE GroupInv'
    BY <2>8 DEF Restore
  <2>9. ASSUME NEW w \in Workers, CallUser(w) PROVE GroupInv'
    BY <2>9 DEF CallUser
  <2>10. ASSUME NEW w \in Workers, EndExecution(w) PROVE GroupInv'
    BY <2>10 DEF EndExecution
  <2>11. ASSUME NEW w \in Workers, CheckStopped(w) \/ WakeUp(w) \/ PollTimeout(w)
         PROVE  GroupInv'
    <3>1. CASE CheckStopped(w)
      BY <3>1 DEF CheckStopped
    <3>2. CASE WakeUp(w)
      BY <3>2 DEF WakeUp
    <3>3. CASE PollTimeout(w)
      BY <3>3 DEF PollTimeout
    <3> QED BY <2>11, <3>1, <3>2, <3>3
  <2>12. CASE Stop \/ Disconnect
    BY <2>12 DEF Stop, Disconnect
  <2>13. ASSUME NEW e \in Entities, CloseEntity(e) \/ UnregisterEntity(e)
         PROVE  GroupInv'
    <3>1. CASE CloseEntity(e)
      BY <3>1 DEF CloseEntity
    <3>2. CASE UnregisterEntity(e)
      BY <3>2 DEF UnregisterEntity
    <3> QED BY <2>13, <3>1, <3>2
  <2>14. CASE DestroyNode \/ Destroyer
    BY <2>14 DEF DestroyNode, Destroyer, DestroyUnregister, DestroyClose,
                 DestroyClearQueue, DestroyNotify, DestroyAdvance
  <2>15. CASE UNCHANGED vars
    BY <2>15 DEF vars
  <2> QED
    BY <2>1, <2>2, <2>3, <2>4, <2>5, <2>6, <2>7, <2>8, <2>9, <2>10, <2>11,
       <2>12, <2>13, <2>14, <2>15
    DEF Next, Worker
<1> QED
  BY TypeCorrect, <1>1, <1>2, PTL DEF Spec

\* What the group invariant says of two workers in the same state.
LEMMA GroupExcludes == TypeOK /\ GroupInv => MutualExclusion
BY NodeAssumption DEF Calls, Arrived, TypeOK, EnqTypeOK, WorkerTypeOK, GroupInv,
   MutualExclusion, SameExclusiveGroup, GroupOfCall

\* A MutuallyExclusiveCallbackGroup never has two callbacks inside user code,
\* for any executor and any entities destroyed one by one, as long as
\* destroy_node is not called while the executor runs.
THEOREM ExclusionHolds ==
    ASSUME ~MayDestroyNode
    PROVE  Spec => []MutualExclusion
BY TypeCorrect, GroupHeld, GroupExcludes, PTL

-----------------------------------------------------------------------------
(* Sequences without repetitions, as sets.                                   *)

\* A sequence over S holds elements of S.
LEMMA ElementsTyped ==
    ASSUME NEW S, NEW s \in Seq(S)
    PROVE  Range2Set(s) \subseteq S
BY ElementOfSeq DEF Range2Set

\* What is in a sequence after append.
LEMMA AppendElements ==
    ASSUME NEW S, NEW s \in Seq(S), NEW x \in S
    PROVE  /\ Range2Set(Append(s, x)) = Range2Set(s) \cup {x}
           /\ Once(s) /\ x \notin Range2Set(s) => Once(Append(s, x))
<1>1. /\ Len(Append(s, x)) = Len(s) + 1
      /\ \A i \in 1..Len(s) : Append(s, x)[i] = s[i]
      /\ Append(s, x)[Len(s) + 1] = x
      /\ Len(s) \in Nat
  BY AppendProperties
<1>2. \A i \in 1..Len(s) + 1 : i \in 1..Len(s) \/ i = Len(s) + 1
  BY <1>1
<1>3. Range2Set(Append(s, x)) = Range2Set(s) \cup {x}
  BY <1>1, <1>2 DEF Range2Set
<1>4. ASSUME Once(s), x \notin Range2Set(s) PROVE Once(Append(s, x))
  BY <1>1, <1>2, <1>4 DEF Range2Set, Once
<1> QED BY <1>3, <1>4

\* What is in a sequence after popleft.
LEMMA TailElements ==
    ASSUME NEW S, NEW s \in Seq(S), s # <<>>, Once(s)
    PROVE  /\ Head(s) \in S /\ Head(s) \in Range2Set(s)
           /\ Range2Set(Tail(s)) = Range2Set(s) \ {Head(s)}
           /\ Once(Tail(s))
<1>1. /\ Len(s) \in Nat /\ Len(s) > 0
      /\ Head(s) = s[1] /\ Head(s) \in S
      /\ Len(Tail(s)) = Len(s) - 1
      /\ \A i \in 1..Len(Tail(s)) : Tail(s)[i] = s[i + 1]
  BY HeadTailProperties
<1>2. Range2Set(Tail(s)) = {s[i] : i \in 2..Len(s)}
  <2>1. ASSUME NEW y \in Range2Set(Tail(s)) PROVE y \in {s[i] : i \in 2..Len(s)}
    BY <1>1, <2>1 DEF Range2Set
  <2>2. ASSUME NEW i \in 2..Len(s) PROVE s[i] \in Range2Set(Tail(s))
    <3>1. i - 1 \in 1..Len(Tail(s)) /\ Tail(s)[i - 1] = s[i]
      BY <1>1
    <3> QED BY <3>1 DEF Range2Set
  <2> QED BY <2>1, <2>2
<1>3. Range2Set(s) = {s[i] : i \in 2..Len(s)} \cup {s[1]}
  BY <1>1 DEF Range2Set
<1>4. s[1] \notin {s[i] : i \in 2..Len(s)}
  BY <1>1 DEF Once
<1>5. Once(Tail(s))
  BY <1>1 DEF Once
<1> QED BY <1>1, <1>2, <1>3, <1>4, <1>5

\* What is in a sequence after extendleft.
LEMMA ConcatElements ==
    ASSUME NEW S, NEW s \in Seq(S), NEW t \in Seq(S)
    PROVE  /\ Range2Set(s \o t) = Range2Set(s) \cup Range2Set(t)
           /\ Once(s) /\ Once(t) /\ Range2Set(s) \cap Range2Set(t) = {} => Once(s \o t)
<1>1. /\ Len(s) \in Nat /\ Len(t) \in Nat
      /\ Len(s \o t) = Len(s) + Len(t)
      /\ \A i \in 1..Len(s) : (s \o t)[i] = s[i]
      /\ \A i \in Len(s) + 1..Len(s) + Len(t) : (s \o t)[i] = t[i - Len(s)]
  BY ConcatProperties
<1>2. \A i \in 1..Len(s) + Len(t) :
         i \in 1..Len(s) \/ (i \in Len(s) + 1..Len(s) + Len(t) /\ i - Len(s) \in 1..Len(t))
  BY <1>1
<1>3. Range2Set(s \o t) = Range2Set(s) \cup Range2Set(t)
  <2>1. Range2Set(s \o t) \subseteq Range2Set(s) \cup Range2Set(t)
    BY <1>1, <1>2 DEF Range2Set
  <2>2. Range2Set(s) \subseteq Range2Set(s \o t)
    BY <1>1, <1>2 DEF Range2Set
  <2>3. ASSUME NEW i \in 1..Len(t) PROVE t[i] \in Range2Set(s \o t)
    <3>1. i + Len(s) \in Len(s) + 1..Len(s) + Len(t) /\ (s \o t)[i + Len(s)] = t[i]
      BY <1>1
    <3> QED BY <1>1, <3>1 DEF Range2Set
  <2> QED BY <2>1, <2>2, <2>3 DEF Range2Set
<1>4. ASSUME Once(s), Once(t), Range2Set(s) \cap Range2Set(t) = {},
             NEW i \in 1..Len(s \o t), NEW j \in 1..Len(s \o t), (s \o t)[i] = (s \o t)[j]
      PROVE  i = j
  <2>1. \A k \in 1..Len(s), l \in 1..Len(t) : s[k] # t[l]
    BY <1>4 DEF Range2Set
  <2>2. CASE i \in 1..Len(s) /\ j \in 1..Len(s)
    BY <1>1, <1>4, <2>2 DEF Once
  <2>3. CASE i \notin 1..Len(s) /\ j \notin 1..Len(s)
    <3>1. i - Len(s) \in 1..Len(t) /\ j - Len(s) \in 1..Len(t) /\ t[i - Len(s)] = t[j - Len(s)]
      BY <1>1, <1>2, <1>4, <2>3
    <3>2. i - Len(s) = j - Len(s)
      BY <1>4, <3>1 DEF Once
    <3> QED BY <1>1, <3>2
  <2>4. CASE i \in 1..Len(s) /\ j \notin 1..Len(s)
    BY <1>1, <1>2, <1>4, <2>1, <2>4
  <2>5. CASE i \notin 1..Len(s) /\ j \in 1..Len(s)
    BY <1>1, <1>2, <1>4, <2>1, <2>5
  <2> QED BY <2>2, <2>3, <2>4, <2>5
<1> QED BY <1>3, <1>4 DEF Once

-----------------------------------------------------------------------------

\* A worker's step that moves no callback keeps every one in its place.
LEMMA PlacesStay ==
    ASSUME PlaceInv, UNCHANGED <<arrived, queue, dropped, finished, hand, skipped>>,
           \A w \in Workers : \/ wpc'[w] = wpc[w]
                              \/ hand[w] = None
                              \/ wpc'[w] \in {"begin", "recheck", "restore", "call",
                                              "running", "inert"}
    PROVE  PlaceInv'
BY DEF PlaceInv, HoldingInv, Placed, Holds, Gone, Arrived

\* No callback is ever lost or duplicated: each that has arrived is in exactly
\* one place, whatever the workers, the drops and destroy_node do at once.
THEOREM NothingLost == Spec => []PlaceInv
<1> USE NodeAssumption DEF Calls
<1>1. Init => PlaceInv
  BY DEF Arrived, Init, PlaceInv, HoldingInv, Placed, Holds, Gone, Once, Range2Set
<1>2. TypeOK /\ PlaceInv /\ [Next]_vars => PlaceInv'
  <2> SUFFICES ASSUME TypeOK, PlaceInv, [Next]_vars PROVE PlaceInv'
    OBVIOUS
  <2> USE DEF enqVars, dropVars, entityVars, workerVars, wakeVars, destroyVars, Goto
  <2>a. /\ queue \in Seq(Arrived) /\ arrived \in 0..MaxCalls
        /\ wpc \in [Workers -> WorkerPcs]
        /\ hand \in [Workers -> Arrived \cup {None}]
        /\ skipped \in [Workers -> Seq(Arrived)]
        /\ finished \subseteq Arrived /\ dropped \subseteq Arrived
        /\ None \notin Arrived
    BY DEF Arrived, TypeOK, EnqTypeOK, QueueTypeOK, WorkerTypeOK
  <2>b. /\ Range2Set(queue) \subseteq Arrived
        /\ \A w \in Workers : Range2Set(skipped[w]) \subseteq Arrived /\ Holds(w) \subseteq Arrived
    <3>1. Range2Set(queue) \subseteq Arrived
      BY <2>a, ElementsTyped
    <3>2. \A w \in Workers : Range2Set(skipped[w]) \subseteq Arrived
      BY <2>a, ElementsTyped
    <3> QED BY <2>a, <3>1, <3>2 DEF Holds
  <2>c. Range2Set(<<>>) = {} /\ Once(<<>>)
    BY DEF Range2Set, Once
  <2>1. ASSUME NEW e \in Entities, Enqueue(e) PROVE PlaceInv'
    <3> DEFINE new == arrived + 1
    <3>1. /\ new \notin Arrived /\ Arrived' = Arrived \cup {new}
          /\ UNCHANGED <<finished, hand, skipped, wpc>>
      BY <2>1, <2>a DEF Enqueue, Arrived
    <3>2. queue \in Seq(Arrived')
      BY <2>1, <2>a, SeqMonotonic DEF Enqueue, Arrived
    <3>3. HoldingInv' /\ \A w \in Workers : Holds(w)' = Holds(w)
      BY <3>1 DEF PlaceInv, HoldingInv, Holds
    <3> HIDE DEF new
    <3>4. CASE queue' = Append(queue, new) /\ dropped' = dropped
      <4>1. Range2Set(queue') = Range2Set(queue) \cup {new} /\ Once(queue')
        BY <2>b, <3>1, <3>2, <3>4, AppendElements DEF PlaceInv
      <4> QED BY <2>a, <2>b, <3>1, <3>3, <3>4, <4>1 DEF PlaceInv, Placed, Gone
    <3>5. CASE queue' = queue /\ dropped' = dropped \cup {new}
      BY <2>a, <2>b, <3>1, <3>3, <3>5 DEF PlaceInv, Placed, Gone
    <3>6. CASE /\ queue # <<>>
               /\ queue' = Append(Tail(queue), new)
               /\ dropped' = dropped \cup {Head(queue)}
      <4>1. /\ Tail(queue) \in Seq(Arrived') /\ Head(queue) \in Range2Set(queue)
            /\ Range2Set(Tail(queue)) = Range2Set(queue) \ {Head(queue)}
            /\ Once(Tail(queue))
        BY <3>2, <3>6, TailElements, HeadTailProperties DEF PlaceInv
      <4>2. /\ Range2Set(queue') = (Range2Set(queue) \ {Head(queue)}) \cup {new}
            /\ Once(queue')
        <5>1. new \in Arrived' /\ new \notin Range2Set(Tail(queue))
          BY <2>b, <3>1, <4>1
        <5>2. /\ Range2Set(Append(Tail(queue), new)) = Range2Set(Tail(queue)) \cup {new}
              /\ Once(Append(Tail(queue), new))
          <6> DEFINE rest == Tail(queue)
          <6>1. rest \in Seq(Arrived') /\ new \notin Range2Set(rest) /\ Once(rest)
            BY <4>1, <5>1
          <6> HIDE DEF rest
          <6>2. /\ Range2Set(Append(rest, new)) = Range2Set(rest) \cup {new}
                /\ Once(Append(rest, new))
            BY <5>1, <6>1, AppendElements
          <6> QED BY <6>2 DEF rest
        <5> QED BY <3>6, <4>1, <5>2
      <4>3. Gone' = Gone \cup {Head(queue)} /\ Head(queue) \in Arrived
        BY <2>b, <3>1, <3>6, <4>1 DEF Gone
      <4>4. finished' \cap dropped' = {}
        BY <3>1, <3>6, <4>1 DEF PlaceInv, Placed, Gone
      <4>5. \A w \in Workers : new \notin Holds(w) /\ Head(queue) \notin Holds(w)
        BY <2>b, <3>1, <4>1 DEF PlaceInv, Placed
      <4>6. new \notin Gone
        BY <2>a, <3>1 DEF Gone
      <4> QED BY <3>1, <3>3, <4>1, <4>2, <4>3, <4>4, <4>5, <4>6 DEF PlaceInv, Placed
    <3>7. Full => queue # <<>>
      BY <2>a DEF Full
    <3> QED BY <2>1, <3>4, <3>5, <3>6, <3>7 DEF Enqueue, Admit, new
  <2>2. ASSUME NEW c \in Calls, Producer(c) PROVE PlaceInv'
    BY <2>2, PlacesStay DEF Producer, NotifyDropped, Wake
  <2>3. ASSUME NEW w \in Workers,
               \/ Top(w) \/ ReadGeneration(w) \/ Snapshot(w) \/ ScanEnds(w)
               \/ CheckStopped(w) \/ WakeUp(w) \/ PollTimeout(w)
        PROVE  PlaceInv'
    <3>1. /\ UNCHANGED <<arrived, queue, dropped, finished, hand, skipped>>
          /\ \E p \in WorkerPcs : wpc' = [wpc EXCEPT ![w] = p]
          /\ wpc[w] \in {"top", "gen", "len", "pop", "check", "wait"}
      BY <2>3 DEF Top, ReadGeneration, Snapshot, ScanEnds, CheckStopped, WakeUp, PollTimeout,
                  WorkerPcs
    <3>2. hand[w] = None
      BY <3>1 DEF PlaceInv, HoldingInv
    <3> QED BY <2>a, <3>1, <3>2, PlacesStay
  <2>4. ASSUME NEW w \in Workers, BeginExecution(w) \/ CallUser(w) PROVE PlaceInv'
    BY <2>4, <2>a, PlacesStay DEF BeginExecution, CallUser
  <2>5. ASSUME NEW w \in Workers, PopItem(w) PROVE PlaceInv'
    <3>1. /\ queue # <<>> /\ queue' = Tail(queue) /\ wpc[w] = "pop"
          /\ hand' = [hand EXCEPT ![w] = Head(queue)] /\ wpc' = [wpc EXCEPT ![w] = "begin"]
          /\ UNCHANGED <<arrived, dropped, finished, skipped>>
      BY <2>5 DEF PopItem
    <3>2. /\ Head(queue) \in Range2Set(queue) /\ Head(queue) \in Arrived
          /\ Range2Set(queue') = Range2Set(queue) \ {Head(queue)}
          /\ Once(queue')
      BY <2>a, <3>1, TailElements DEF PlaceInv
    <3>3. /\ Holds(w)' = Holds(w) \cup {Head(queue)}
          /\ \A v \in Workers \ {w} : Holds(v)' = Holds(v)
      BY <2>a, <3>1, <3>2 DEF PlaceInv, HoldingInv, Holds
    <3>4. HoldingInv'
      BY <2>a, <3>1, <3>2 DEF PlaceInv, HoldingInv, Placed, Holds
    <3>5. Placed'
      BY <2>b, <3>1, <3>2, <3>3 DEF PlaceInv, Placed, Gone, Arrived
    <3> QED BY <3>2, <3>4, <3>5 DEF PlaceInv
  <2>6. ASSUME NEW w \in Workers, Recheck(w) PROVE PlaceInv'
    <3>1. CASE HasGroup(w)
      <4>1. /\ skipped' = [skipped EXCEPT ![w] = Append(skipped[w], hand[w])]
            /\ hand' = [hand EXCEPT ![w] = None] /\ wpc' = [wpc EXCEPT ![w] = "pop"]
            /\ UNCHANGED <<arrived, queue, dropped, finished>>
            /\ hand[w] \in Arrived
        BY <2>6, <3>1, <2>a DEF Recheck, TypeOK, WorkerTypeOK
      <4>2. /\ Range2Set(skipped'[w]) = Range2Set(skipped[w]) \cup {hand[w]}
            /\ Once(skipped'[w])
        BY <2>a, <4>1, AppendElements DEF PlaceInv, HoldingInv
      <4>3. \A v \in Workers : Holds(v)' = Holds(v)
        BY <2>a, <4>1, <4>2 DEF Holds
      <4>4. HoldingInv'
        BY <2>a, <2>b, <4>1, <4>2 DEF PlaceInv, HoldingInv
      <4>5. Placed'
        BY <4>1, <4>3 DEF PlaceInv, Placed, Gone, Arrived
      <4> QED BY <4>1, <4>4, <4>5 DEF PlaceInv
    <3>2. CASE ~HasGroup(w)
      BY <2>6, <2>a, <3>2, PlacesStay DEF Recheck
    <3> QED BY <3>1, <3>2
  <2>7. ASSUME NEW w \in Workers, Restore(w) PROVE PlaceInv'
    <3>1. /\ queue' = skipped[w] \o queue /\ skipped' = [skipped EXCEPT ![w] = <<>>]
          /\ wpc' = [wpc EXCEPT ![w] = IF hand[w] = None THEN "check" ELSE "call"]
          /\ UNCHANGED <<arrived, dropped, finished, hand>>
      BY <2>7 DEF Restore
    <3>2. Range2Set(skipped[w]) \subseteq Holds(w)
      BY DEF Holds
    <3>3. Range2Set(queue') = Range2Set(skipped[w]) \cup Range2Set(queue) /\ Once(queue')
      BY <2>a, <3>1, <3>2, ConcatElements DEF PlaceInv, HoldingInv, Placed
    <3>4. /\ Holds(w)' = Holds(w) \ Range2Set(skipped[w])
          /\ \A v \in Workers \ {w} : Holds(v)' = Holds(v)
      BY <2>a, <2>c, <3>1 DEF PlaceInv, HoldingInv, Holds
    <3>5. HoldingInv'
      BY <2>a, <2>c, <3>1 DEF PlaceInv, HoldingInv
    <3>6. Placed'
      BY <2>b, <3>1, <3>2, <3>3, <3>4 DEF PlaceInv, Placed, Gone, Arrived
    <3> QED BY <3>3, <3>5, <3>6 DEF PlaceInv
  <2>8. ASSUME NEW w \in Workers, EndExecution(w) PROVE PlaceInv'
    <3>1. /\ finished' = finished \cup {hand[w]} /\ hand' = [hand EXCEPT ![w] = None]
          /\ wpc' = [wpc EXCEPT ![w] = "top"]
          /\ UNCHANGED <<arrived, queue, dropped, skipped>>
          /\ hand[w] \in Arrived
      BY <2>8, <2>a DEF EndExecution, TypeOK, WorkerTypeOK
    <3>2. /\ hand[w] \in Holds(w) /\ Holds(w)' = Holds(w) \ {hand[w]}
          /\ \A v \in Workers \ {w} : Holds(v)' = Holds(v)
      BY <2>a, <3>1 DEF PlaceInv, HoldingInv, Holds
    <3>3. HoldingInv'
      BY <2>a, <2>b, <3>1 DEF PlaceInv, HoldingInv
    <3>4. Placed'
      BY <2>b, <3>1, <3>2 DEF PlaceInv, Placed, Gone, Arrived
    <3> QED BY <3>1, <3>3, <3>4 DEF PlaceInv
  <2>9. CASE Stop \/ Disconnect
    BY <2>9, PlacesStay DEF Stop, Disconnect
  <2>10. ASSUME NEW e \in Entities, CloseEntity(e) \/ UnregisterEntity(e) PROVE PlaceInv'
    BY <2>10, PlacesStay DEF CloseEntity, UnregisterEntity
  <2>11. CASE DestroyClearQueue
    <3>1. /\ queue' = <<>> /\ dropped' = dropped \cup Range2Set(queue)
          /\ UNCHANGED <<arrived, finished, hand, skipped, wpc>>
      BY <2>11 DEF DestroyClearQueue
    <3>2. HoldingInv' /\ \A w \in Workers : Holds(w)' = Holds(w)
      BY <3>1 DEF PlaceInv, HoldingInv, Holds
    <3> QED BY <2>c, <3>1, <3>2 DEF PlaceInv, Placed, Gone, Arrived
  <2>12. CASE \/ DestroyNode \/ \E e \in Entities : DestroyUnregister(e)
              \/ DestroyClose \/ DestroyNotify \/ DestroyAdvance
    BY <2>12, PlacesStay
    DEF DestroyNode, DestroyUnregister, DestroyClose, DestroyNotify, DestroyAdvance
  <2>13. CASE UNCHANGED vars
    BY <2>13, PlacesStay DEF vars
  <2> QED
    BY <2>1, <2>2, <2>3, <2>4, <2>5, <2>6, <2>7, <2>8, <2>9, <2>10, <2>11, <2>12, <2>13
    DEF Next, Worker, Destroyer
<1> QED
  BY TypeCorrect, <1>1, <1>2, PTL DEF Spec

-----------------------------------------------------------------------------
(* The refinement of CallbackService.                                        *)

\* A step in which no worker enters or leaves a running callback.
LEMMA RunningStays ==
    ASSUME \A w \in Workers : \/ wpc'[w] = wpc[w] /\ hand'[w] = hand[w]
                              \/ wpc[w] # "running" /\ wpc'[w] # "running"
    PROVE  Running' = Running
BY DEF Running

\* The callback a worker is about to run, or to throw away, waits.
LEMMA HeldWaits ==
    ASSUME TypeOK, PlaceInv, NEW w \in Workers, hand[w] # None, wpc[w] # "running"
    PROVE  /\ hand[w] \in Arrived /\ hand[w] \in Calls
           /\ hand[w] \notin Gone /\ hand[w] \notin Running
<1>1. hand[w] \in Holds(w) /\ hand[w] \in Arrived
  BY DEF Holds, TypeOK, WorkerTypeOK
<1>2. ASSUME NEW v \in Workers, wpc[v] = "running" PROVE hand[v] # hand[w]
  <2>1. v # w /\ hand[v] # None
    BY <1>2 DEF TypeOK, WorkerTypeOK
  <2>2. hand[v] \in Holds(v)
    BY <2>1 DEF Holds
  <2> QED BY <1>1, <2>1, <2>2 DEF PlaceInv, Placed
<1>3. Arrived \subseteq Calls
  BY NodeAssumption DEF Arrived, Calls, TypeOK, EnqTypeOK
<1> QED BY <1>1, <1>2, <1>3 DEF PlaceInv, Placed, Running

\* The queued callbacks wait too.
LEMMA QueuedWaits ==
    ASSUME TypeOK, PlaceInv, NEW c \in Range2Set(queue)
    PROVE  c \in Arrived /\ c \notin Gone /\ c \notin Running
<1>1. c \in Arrived /\ c \notin Gone
  BY ElementsTyped DEF TypeOK, QueueTypeOK, PlaceInv, Placed
<1>2. ASSUME NEW v \in Workers, wpc[v] = "running" PROVE hand[v] # c
  <2>1. hand[v] \in Holds(v)
    BY <1>2 DEF Holds, TypeOK, WorkerTypeOK
  <2> QED BY <2>1 DEF PlaceInv, Placed
<1> QED BY <1>1, <1>2 DEF Running

\* The node and its workers implement CallbackService as long as destroy_node
\* is not called: each callback runs at most once, never after it was dropped,
\* and an exclusive group admits one at a time.
THEOREM ServiceImplemented ==
    ASSUME ~MayDestroyNode
    PROVE  Spec => ImplementsService
<1> USE NodeAssumption
<1> DEFINE waiting == Arrived \ (Started \cup dropped)
<1>1. Init => Service!Init
  <2> SUFFICES ASSUME Init PROVE Service!Init
    OBVIOUS
  <2>1. Arrived = {} /\ Running = {}
    BY DEF Init, Arrived, Running
  <2> QED BY <2>1 DEF Init, Service!Init
<1>2. TypeOK /\ PlaceInv /\ GroupInv /\ MutualExclusion' /\ [Next]_vars
         => [Service!Next]_(Service!vars)
  <2> SUFFICES ASSUME TypeOK, PlaceInv, GroupInv, MutualExclusion', [Next]_vars
               PROVE  [Service!Next]_(Service!vars)
    OBVIOUS
  <2> USE DEF enqVars, dropVars, entityVars, workerVars, wakeVars, destroyVars, Goto
  <2>a. ASSUME UNCHANGED <<arrived, owner, finished, dropped>>, Running' = Running
        PROVE  UNCHANGED Service!vars
    BY <2>a DEF Service!vars, Arrived, Started
  <2>b. /\ wpc \in [Workers -> WorkerPcs]
        /\ hand \in [Workers -> Arrived \cup {None}]
    BY DEF TypeOK, WorkerTypeOK
  <2>1. ASSUME NEW e \in Entities, Enqueue(e) PROVE Service!Next
    <3> DEFINE new == arrived + 1
    <3>1. /\ new \in Calls /\ new \notin Arrived /\ Arrived' = Arrived \cup {new}
          /\ owner' = [owner EXCEPT ![new] = e] /\ owner[new] = None
          /\ UNCHANGED <<finished, hand, wpc>>
      BY <2>1 DEF Enqueue, Arrived, Calls, TypeOK, EnqTypeOK
    <3>2. Running' = Running /\ Started' = Started
      BY <3>1, RunningStays DEF Started
    <3>3. new \notin Started /\ new \notin dropped
      <4>1. Running \subseteq Arrived
        BY <2>b DEF Running, TypeOK, WorkerTypeOK
      <4> QED BY <3>1, <4>1 DEF Started, TypeOK, QueueTypeOK
    <3>4. \E D \in SUBSET (waiting \cup {new}) : dropped' = dropped \cup D
      <4>1. CASE dropped' = dropped
        <5>1. {} \in SUBSET (waiting \cup {new}) /\ dropped' = dropped \cup {}
          BY <4>1
        <5> QED BY <5>1
      <4>2. CASE dropped' = dropped \cup {new}
        BY <4>2
      <4>3. CASE queue # <<>> /\ dropped' = dropped \cup {Head(queue)}
        <5>1. Head(queue) \in Range2Set(queue)
          BY <4>3, TailElements DEF TypeOK, QueueTypeOK, PlaceInv
        <5>2. Head(queue) \in waiting
          BY <5>1, QueuedWaits DEF Started, Gone
        <5> QED BY <4>3, <5>2
      <4>4. Full => queue # <<>>
        BY DEF Full, TypeOK, QueueTypeOK
      <4> QED BY <2>1, <4>1, <4>2, <4>3, <4>4 DEF Enqueue, Admit
    <3>5. PICK D \in SUBSET (waiting \cup {new}) : dropped' = dropped \cup D
      BY <3>4
    <3> HIDE DEF new
    <3>6. waiting' = (waiting \cup {new}) \ D
      BY <3>1, <3>2, <3>3, <3>5
    <3>7. Service!Submit(new, e, D)
      BY <3>1, <3>2, <3>5, <3>6 DEF Service!Submit
    <3> QED BY <3>1, <3>7 DEF Service!Next
  <2>2. ASSUME NEW c \in Calls, Producer(c) PROVE UNCHANGED Service!vars
    BY <2>2, <2>a, RunningStays DEF Producer, NotifyDropped, Wake
  <2>3. ASSUME NEW w \in Workers,
               \/ Top(w) \/ ReadGeneration(w) \/ Snapshot(w) \/ PopItem(w) \/ ScanEnds(w)
               \/ BeginExecution(w) \/ Recheck(w) \/ Restore(w)
               \/ CheckStopped(w) \/ WakeUp(w) \/ PollTimeout(w)
        PROVE  UNCHANGED Service!vars
    <3>1. /\ UNCHANGED <<arrived, owner, finished, dropped>>
          /\ \E p \in WorkerPcs \ {"running"} : wpc' = [wpc EXCEPT ![w] = p]
          /\ \E c : hand' \in {hand, [hand EXCEPT ![w] = c]}
          /\ wpc[w] # "running"
      BY <2>3
      DEF Top, ReadGeneration, Snapshot, PopItem, ScanEnds, BeginExecution, Recheck, Restore,
          CheckStopped, WakeUp, PollTimeout, WorkerPcs
    <3>2. Running' = Running
      BY <2>b, <3>1, RunningStays
    <3> QED BY <2>a, <3>1, <3>2
  <2>4. ASSUME NEW w \in Workers, CallUser(w) PROVE Service!Next \/ UNCHANGED Service!vars
    <3>1. /\ UNCHANGED <<arrived, owner, finished, dropped, hand>>
          /\ wpc[w] = "call" /\ hand[w] # None
          /\ wpc' = [wpc EXCEPT ![w] = IF owner[hand[w]] \in closed THEN "inert" ELSE "running"]
      BY <2>4 DEF CallUser, TypeOK, WorkerTypeOK
    <3>2. CASE owner[hand[w]] \in closed
      BY <2>a, <2>b, <3>1, <3>2, RunningStays
    <3>3. CASE owner[hand[w]] \notin closed
      <4>1. wpc' = [wpc EXCEPT ![w] = "running"]
        BY <3>1, <3>3
      <4>2. hand[w] \in Calls /\ hand[w] \in waiting
        BY <3>1, HeldWaits DEF Started, Gone
      <4>3. Running' = Running \cup {hand[w]}
        BY <2>b, <3>1, <4>1 DEF Running
      <4>4. waiting' = waiting \ {hand[w]}
        BY <3>1, <4>3 DEF Started, Arrived
      <4>5. ASSUME NEW d \in Running PROVE ~Service!Excludes(hand[w], d)
        <5>1. PICK v \in Workers : wpc[v] = "running" /\ d = hand[v]
          BY DEF Running
        <5>2. v # w /\ wpc'[v] = "running" /\ wpc'[w] = "running"
          BY <2>b, <3>1, <4>1, <5>1
        <5>3. ~SameExclusiveGroup(hand[w], hand[v])
          BY <3>1, <5>2 DEF MutualExclusion, SameExclusiveGroup, GroupOfCall
        <5> QED BY <5>1, <5>3 DEF Service!Excludes, SameExclusiveGroup, GroupOfCall
      <4>6. Service!Start(hand[w])
        BY <3>1, <4>2, <4>3, <4>4, <4>5 DEF Service!Start
      <4> QED BY <4>2, <4>6 DEF Service!Next
    <3> QED BY <3>2, <3>3
  <2>5. ASSUME NEW w \in Workers, EndExecution(w) PROVE Service!Next
    <3>1. /\ UNCHANGED <<arrived, owner, dropped>> /\ hand[w] # None
          /\ finished' = finished \cup {hand[w]} /\ hand' = [hand EXCEPT ![w] = None]
          /\ wpc' = [wpc EXCEPT ![w] = "top"]
          /\ wpc[w] \in {"running", "inert"}
      BY <2>5 DEF EndExecution, TypeOK, WorkerTypeOK
    <3>2. CASE wpc[w] = "running"
      <4>1. hand[w] \in Running /\ hand[w] \in Calls
        BY <2>b, <3>1, <3>2 DEF Running, Arrived, Calls, TypeOK, EnqTypeOK
      <4>2. \A v \in Workers \ {w} : hand[v] # hand[w]
        BY <3>1 DEF PlaceInv, Placed, Holds
      <4>3. Running' = Running \ {hand[w]}
        BY <2>b, <3>1, <4>2 DEF Running
      <4>4. waiting' = waiting
        BY <3>1, <4>1, <4>3 DEF Started, Arrived
      <4>5. Service!Finish(hand[w])
        BY <3>1, <4>1, <4>3, <4>4 DEF Service!Finish
      <4> QED BY <4>1, <4>5 DEF Service!Next
    <3>3. CASE wpc[w] = "inert"
      <4>1. Running' = Running
        BY <2>b, <3>1, <3>3, RunningStays
      <4>2. hand[w] \in Calls /\ hand[w] \in waiting
        BY <3>1, <3>3, HeldWaits DEF Started, Gone
      <4>3. waiting' = waiting \ {hand[w]}
        BY <3>1, <4>1 DEF Started, Arrived
      <4>4. Service!Skip(hand[w])
        BY <3>1, <4>1, <4>2, <4>3 DEF Service!Skip
      <4> QED BY <4>2, <4>4 DEF Service!Next
    <3> QED BY <3>1, <3>2, <3>3
  <2>6. CASE Stop \/ Disconnect \/ \E e \in Entities : CloseEntity(e) \/ UnregisterEntity(e)
    BY <2>6, <2>a, RunningStays DEF Stop, Disconnect, CloseEntity, UnregisterEntity
  <2>7. ~(DestroyNode \/ Destroyer)
    BY DEF GroupInv, DestroyNode, Destroyer, DestroyUnregister, DestroyClose,
           DestroyClearQueue, DestroyNotify, DestroyAdvance
  <2>8. CASE UNCHANGED vars
    BY <2>8, <2>a, RunningStays DEF vars
  <2> QED
    BY <2>1, <2>2, <2>3, <2>4, <2>5, <2>6, <2>7, <2>8 DEF Next, Worker
<1> QED
  BY TypeCorrect, NothingLost, GroupHeld, ExclusionHolds, <1>1, <1>2, PTL
  DEF Spec, ImplementsService, Service!Spec

-----------------------------------------------------------------------------
(* In which order exclusive callbacks begin.                                 *)

\* The place of a callback is kept when the head of the queue leaves, when one
\* is appended, and when others are put back in front.
LEMMA TailKeepsPlaces ==
    ASSUME NEW S, NEW s \in Seq(S), s # <<>>, NEW i \in 1..Len(Tail(s))
    PROVE  i + 1 \in 1..Len(s) /\ Tail(s)[i] = s[i + 1] /\ Head(s) = s[1]
BY HeadTailProperties

\* A step that takes nothing off the queue keeps the order.
LEMMA OrderKept ==
    ASSUME TypeOK, OrderInv, passed \subseteq passed',
           UNCHANGED <<arrived, owner, finished>>, dropped \subseteq dropped',
           Running \subseteq Running', Off' \subseteq Off,
           \A c, d \in Arrived : Behind(c, d) /\ d \notin Off => Behind(c, d)'
    PROVE  OrderInv'
<1> SUFFICES ASSUME NEW c \in Arrived', NEW d \in Arrived',
                    c < d, SameExclusiveGroup(c, d)',
                    c \notin (Started \cup dropped)', <<c, d>> \notin passed'
             PROVE  d \notin Off' /\ d \notin finished' /\ Behind(c, d)'
  BY DEF OrderInv, SameExclusiveGroup, GroupOfCall, Behind
<1>1. c \in Arrived /\ d \in Arrived /\ SameExclusiveGroup(c, d)
  BY DEF Arrived, SameExclusiveGroup, GroupOfCall
<1>2. c \notin Started \cup dropped /\ <<c, d>> \notin passed
  BY DEF Started
<1>3. d \notin Off /\ d \notin finished /\ Behind(c, d)
  BY <1>1, <1>2 DEF OrderInv
<1> QED BY <1>1, <1>3

\* Beside the history the behaviours are those of NodeExecutor.
LEMMA OrderIsSpec == OrderSpec => Spec
<1>1. OrderInit => Init
  BY DEF OrderInit
<1>2. [OrderNext]_orderVars => [Next]_vars
  BY DEF OrderNext, orderVars
<1> QED BY <1>1, <1>2, PTL DEF OrderSpec, Spec

\* Where the callbacks stand, for any number of workers, drops and teardowns.
THEOREM OrderHeld == OrderSpec => []OrderInv
<1> USE NodeAssumption DEF Calls
<1>1. OrderInit => OrderInv
  BY DEF OrderInit, Init, OrderInv, Arrived
<1>2. TypeOK /\ PlaceInv /\ OrderInv /\ [OrderNext]_orderVars => OrderInv'
  <2> SUFFICES ASSUME TypeOK, PlaceInv, OrderInv, [OrderNext]_orderVars PROVE OrderInv'
    OBVIOUS
  <2> USE DEF enqVars, dropVars, entityVars, workerVars, wakeVars, destroyVars, Goto
  <2>a. /\ queue \in Seq(Arrived) /\ arrived \in 0..MaxCalls
        /\ wpc \in [Workers -> WorkerPcs]
        /\ hand \in [Workers -> Arrived \cup {None}]
        /\ skipped \in [Workers -> Seq(Arrived)]
        /\ finished \subseteq Arrived
        /\ None \notin Arrived /\ Arrived \subseteq Nat
        /\ Range2Set(queue) \subseteq Arrived
        /\ \A w \in Workers : Range2Set(skipped[w]) \subseteq Arrived /\ Holds(w) \subseteq Arrived
    <3>1. /\ queue \in Seq(Arrived) /\ arrived \in 0..MaxCalls /\ Arrived \subseteq Nat
          /\ skipped \in [Workers -> Seq(Arrived)] /\ hand \in [Workers -> Arrived \cup {None}]
      BY DEF Arrived, TypeOK, EnqTypeOK, QueueTypeOK, WorkerTypeOK
    <3>2. Range2Set(queue) \subseteq Arrived
      BY <3>1, ElementsTyped
    <3>3. \A w \in Workers : Range2Set(skipped[w]) \subseteq Arrived
      BY <3>1, ElementsTyped
    <3> QED BY <3>1, <3>2, <3>3 DEF Arrived, Holds, TypeOK, QueueTypeOK, WorkerTypeOK
  <2>b. /\ passed \subseteq passed'
        /\ \/ Next /\ passed' = passed \cup Overtaking
           \/ UNCHANGED vars
    BY DEF OrderNext, orderVars
  \* A step that leaves the callbacks where they are.
  <2>c. ASSUME UNCHANGED <<arrived, owner, queue, finished, hand, skipped>>,
               dropped \subseteq dropped', Running \subseteq Running'
        PROVE  OrderInv'
    <3>1. Off' = Off
      BY <2>c DEF Off, Holds
    <3>2. \A c, d \in Arrived : Behind(c, d) => Behind(c, d)'
      BY <2>c DEF Behind
    <3> QED BY <2>b, <2>c, <3>1, <3>2, OrderKept
  <2>d. ASSUME \A w \in Workers : \/ wpc'[w] = wpc[w]
                                  \/ wpc[w] # "running",
               UNCHANGED hand
        PROVE  Running \subseteq Running'
    BY <2>d DEF Running
  <2>1. ASSUME NEW e \in Entities, Enqueue(e) PROVE OrderInv'
    <3> DEFINE new == arrived + 1
    <3>1. /\ new \in Calls /\ new \notin Arrived /\ Arrived' = Arrived \cup {new}
          /\ \A c \in Arrived : c < new /\ owner'[c] = owner[c]
          /\ UNCHANGED <<finished, hand, skipped, wpc>> /\ dropped \subseteq dropped'
      BY <2>1, <2>a DEF Enqueue, Admit, Arrived, TypeOK, EnqTypeOK
    <3>2. Off' = Off /\ Off \subseteq Arrived /\ Running' = Running
      BY <3>1, <2>a DEF Off, Holds, Running
    <3>3. queue \in Seq(Arrived') /\ \A i \in 1..Len(queue) : queue[i] # new
      <4>1. queue \in Seq(Arrived')
        BY <2>a, <3>1, SeqMonotonic
      <4>2. \A i \in 1..Len(queue) : queue[i] \in Arrived
        BY <2>a, ElementOfSeq
      <4> QED BY <3>1, <4>1, <4>2
    <3>4. \/ queue' = queue
          \/ queue' = Append(queue, new)
          \/ queue # <<>> /\ queue' = Append(Tail(queue), new)
      <4>1. Full => queue # <<>>
        BY <2>a DEF Full
      <4> QED BY <2>1, <4>1 DEF Enqueue, Admit
    <3> HIDE DEF new
    \* New elements come last, the others keep their order.
    <3>5. \E k \in {0, 1} :
             \A i \in 1..Len(queue') :
                \/ i + k \in 1..Len(queue) /\ queue'[i] = queue[i + k]
                \/ i = Len(queue') /\ queue'[i] = new
      <4>1. CASE queue' = queue
        BY <2>a, <4>1, LenProperties
      <4>2. CASE queue' = Append(queue, new)
        <5>1. /\ Len(queue') = Len(queue) + 1 /\ Len(queue) \in Nat
              /\ \A i \in 1..Len(queue) : queue'[i] = queue[i]
              /\ queue'[Len(queue) + 1] = new
          BY <3>1, <3>3, <4>2, AppendProperties
        <5>2. \A i \in 1..Len(queue') : i \in 1..Len(queue) \/ i = Len(queue')
          BY <5>1
        <5> QED BY <5>1, <5>2
      <4>3. CASE queue # <<>> /\ queue' = Append(Tail(queue), new)
        <5>0. Tail(queue) \in Seq(Arrived')
          BY <3>3, <4>3
        <5>1. /\ Len(queue') = Len(Tail(queue)) + 1 /\ Len(Tail(queue)) \in Nat
              /\ \A i \in 1..Len(Tail(queue)) : queue'[i] = Tail(queue)[i]
              /\ queue'[Len(Tail(queue)) + 1] = new
          BY <3>1, <4>3, <5>0, AppendProperties
        <5>2. \A i \in 1..Len(queue') : i \in 1..Len(Tail(queue)) \/ i = Len(queue')
          BY <5>1
        <5>3. \A i \in 1..Len(Tail(queue)) :
                 i + 1 \in 1..Len(queue) /\ Tail(queue)[i] = queue[i + 1]
          BY <2>a, <4>3, TailKeepsPlaces
        <5> QED BY <5>1, <5>2, <5>3
      <4> QED BY <3>4, <4>1, <4>2, <4>3
    <3>6. SUFFICES ASSUME NEW c \in Arrived', NEW d \in Arrived',
                          c < d, SameExclusiveGroup(c, d)',
                          c \notin (Started \cup dropped)', <<c, d>> \notin passed'
                   PROVE  d \notin Off' /\ d \notin finished' /\ Behind(c, d)'
      BY DEF OrderInv, SameExclusiveGroup, GroupOfCall, Behind
    <3>7. c \in Arrived
      <4>1. new \in Nat /\ \A x \in Arrived : x \in Nat /\ x < new
        BY <2>a, <3>1
      <4>2. c # new
        BY <3>1, <3>6, <4>1
      <4> QED BY <3>1, <3>6, <4>2
    <3>8. d \in Arrived => d \notin Off /\ d \notin finished /\ Behind(c, d)
      <4>1. c \notin Started \cup dropped /\ <<c, d>> \notin passed
        BY <2>b, <3>1, <3>2, <3>6 DEF Started
      <4>2. d \in Arrived => SameExclusiveGroup(c, d)
        BY <3>1, <3>6, <3>7 DEF SameExclusiveGroup, GroupOfCall
      <4> QED BY <3>6, <3>7, <4>1, <4>2 DEF OrderInv
    <3>9. d \notin Off' /\ d \notin finished'
      BY <2>a, <3>1, <3>2, <3>6, <3>8
    <3>10. ASSUME NEW i \in 1..Len(queue'), NEW j \in 1..Len(queue'),
                  queue'[i] = c, queue'[j] = d
           PROVE  i < j
      <4>1. c # new
        BY <3>1, <3>7
      <4>2. PICK k \in {0, 1} :
               \A l \in 1..Len(queue') :
                  \/ l + k \in 1..Len(queue) /\ queue'[l] = queue[l + k]
                  \/ l = Len(queue') /\ queue'[l] = new
        BY <3>5
      <4>3. i + k \in 1..Len(queue) /\ queue[i + k] = c
        BY <3>10, <4>1, <4>2
      <4>4. CASE d \in Arrived
        <5>1. j + k \in 1..Len(queue) /\ queue[j + k] = d
          BY <3>1, <3>10, <4>2, <4>4
        <5>2. i + k < j + k
          BY <3>8, <4>3, <4>4, <5>1 DEF Behind
        <5> QED BY <5>2
      <4>5. CASE d = new
        <5>1. j = Len(queue')
          BY <3>3, <3>10, <4>2, <4>5
        <5>2. i # j
          BY <3>10, <4>1, <4>5
        <5> QED BY <5>1, <5>2
      <4> QED BY <3>1, <3>6, <4>4, <4>5
    <3> QED BY <3>9, <3>10 DEF Behind
  <2>2. ASSUME NEW c \in Calls, Producer(c) PROVE OrderInv'
    <3>1. UNCHANGED <<arrived, owner, queue, finished, hand, skipped, wpc, dropped>>
      BY <2>2 DEF Producer, NotifyDropped, Wake
    <3> QED BY <3>1, <2>c, <2>d
  <2>3. ASSUME NEW w \in Workers,
               \/ Top(w) \/ ReadGeneration(w) \/ Snapshot(w) \/ ScanEnds(w)
               \/ BeginExecution(w) \/ CallUser(w)
               \/ CheckStopped(w) \/ WakeUp(w) \/ PollTimeout(w)
        PROVE  OrderInv'
    <3>1. /\ UNCHANGED <<arrived, owner, queue, finished, hand, skipped, dropped>>
          /\ wpc[w] # "running" /\ \E p \in WorkerPcs : wpc' = [wpc EXCEPT ![w] = p]
      BY <2>3, <2>a
      DEF Top, ReadGeneration, Snapshot, ScanEnds, BeginExecution, CallUser,
          CheckStopped, WakeUp, PollTimeout, WorkerPcs
    <3>2. \A v \in Workers : wpc'[v] = wpc[v] \/ wpc[v] # "running"
      BY <2>a, <3>1
    <3> QED BY <3>1, <3>2, <2>c, <2>d
  <2>4. ASSUME NEW w \in Workers, PopItem(w) PROVE OrderInv'
    <3> DEFINE top == Head(queue)
    <3>1. /\ UNCHANGED <<arrived, owner, finished, dropped, skipped>>
          /\ queue # <<>> /\ queue' = Tail(queue) /\ wpc[w] = "pop"
          /\ hand[w] = None /\ hand' = [hand EXCEPT ![w] = top] /\ top \in Arrived
          /\ wpc' = [wpc EXCEPT ![w] = "begin"]
      BY <2>4, <2>a DEF PopItem, PlaceInv, HoldingInv
    <3>2. Off' = Off \cup {top}
      BY <2>a, <3>1 DEF Off, Holds
    <3>3. Running' = Running
      BY <2>a, <3>1 DEF Running
    <3>4. passed' = passed \cup Overtaking /\ top \in Taken
      <4>1. passed' = passed \cup Overtaking
        <5>1. queue' # queue
          BY <2>a, <3>1, HeadTailProperties
        <5> QED BY <2>b, <5>1 DEF vars
      <4>2. top \in Taken
        BY <2>a, <3>1 DEF Taken
      <4> QED BY <4>1, <4>2
    <3>5. SUFFICES ASSUME NEW c \in Arrived, NEW d \in Arrived,
                          c < d, SameExclusiveGroup(c, d),
                          c \notin Started \cup dropped, <<c, d>> \notin passed'
                   PROVE  d \notin Off' /\ d \notin finished /\ Behind(c, d)'
      BY <3>1, <3>3 DEF OrderInv, Arrived, SameExclusiveGroup, GroupOfCall, Started
    <3>6. d \notin Off /\ d \notin finished /\ Behind(c, d)
      BY <3>4, <3>5 DEF OrderInv
    <3>7. c \notin Off => c \in Range2Set(queue)
      BY <3>5 DEF PlaceInv, Placed, Gone, Started, Off
    <3>8. d # top
      <4>1. SUFFICES ASSUME d = top PROVE FALSE
        OBVIOUS
      <4>2. CASE c \in Off
        <5>1. <<c, d>> \in Overtaking
          BY <3>4, <3>5, <4>1, <4>2 DEF Overtaking
        <5> QED BY <3>4, <3>5, <5>1
      <4>3. CASE c \notin Off
        <5>1. PICK i \in 1..Len(queue) : queue[i] = c
          BY <3>7, <4>3 DEF Range2Set
        <5>2. 1 \in 1..Len(queue) /\ queue[1] = d
          BY <2>a, <3>1, <4>1, HeadTailProperties
        <5>3. i < 1
          BY <3>6, <5>1, <5>2 DEF Behind
        <5> QED BY <5>1, <5>3
      <4> QED BY <4>2, <4>3
    <3>9. ASSUME NEW i \in 1..Len(queue'), NEW j \in 1..Len(queue'),
                 queue'[i] = c, queue'[j] = d
          PROVE  i < j
      <4>1. /\ i + 1 \in 1..Len(queue) /\ queue[i + 1] = c
            /\ j + 1 \in 1..Len(queue) /\ queue[j + 1] = d
        BY <2>a, <3>1, <3>9, TailKeepsPlaces
      <4>2. i + 1 < j + 1
        BY <3>6, <4>1 DEF Behind
      <4> QED BY <4>2
    <3> QED BY <3>2, <3>6, <3>8, <3>9 DEF Behind
  <2>5. ASSUME NEW w \in Workers, Recheck(w) PROVE OrderInv'
    <3>1. /\ UNCHANGED <<arrived, owner, queue, finished, dropped>>
          /\ wpc[w] = "recheck" /\ \E p \in WorkerPcs : wpc' = [wpc EXCEPT ![w] = p]
      BY <2>5 DEF Recheck, WorkerPcs
    <3>2. \/ UNCHANGED <<hand, skipped>>
          \/ /\ hand' = [hand EXCEPT ![w] = None]
             /\ skipped' = [skipped EXCEPT ![w] = Append(@, hand[w])]
      BY <2>5 DEF Recheck
    <3>3. Off' \subseteq Off
      <4>1. hand[w] \in Arrived
        BY <2>a, <3>1 DEF TypeOK, WorkerTypeOK
      <4>2. Range2Set(Append(skipped[w], hand[w])) = Range2Set(skipped[w]) \cup {hand[w]}
        BY <2>a, <4>1, AppendElements
      <4>3. \A v \in Workers : Holds(v)' \subseteq Holds(v)
        BY <2>a, <3>2, <4>1, <4>2 DEF Holds
      <4> QED BY <4>3 DEF Off
    <3>4. Running \subseteq Running'
      <4>1. \A v \in Workers : wpc[v] = "running" => wpc'[v] = "running" /\ hand'[v] = hand[v]
        BY <2>a, <3>1, <3>2
      <4> QED BY <4>1 DEF Running
    <3>5. \A c, d \in Arrived : Behind(c, d) => Behind(c, d)'
      BY <3>1 DEF Behind
    <3> QED BY <2>b, <3>1, <3>3, <3>4, <3>5, OrderKept
  <2>6. ASSUME NEW w \in Workers, Restore(w) PROVE OrderInv'
    <3>1. /\ UNCHANGED <<arrived, owner, hand, finished, dropped>>
          /\ wpc[w] = "restore" /\ \E p \in WorkerPcs : wpc' = [wpc EXCEPT ![w] = p]
          /\ queue' = skipped[w] \o queue /\ skipped' = [skipped EXCEPT ![w] = <<>>]
      BY <2>6 DEF Restore, WorkerPcs
    <3>2. Off' \subseteq Off
      <4>1. Range2Set(<<>>) = {}
        BY DEF Range2Set
      <4>2. \A v \in Workers : Holds(v)' \subseteq Holds(v)
        BY <2>a, <3>1, <4>1 DEF Holds
      <4> QED BY <4>2 DEF Off
    <3>3. \A v \in Workers : wpc'[v] = wpc[v] \/ wpc[v] # "running"
      BY <2>a, <3>1
    <3>4. ASSUME NEW c \in Arrived, NEW d \in Arrived, Behind(c, d), d \notin Off,
                 NEW i \in 1..Len(queue'), NEW j \in 1..Len(queue'),
                 queue'[i] = c, queue'[j] = d
          PROVE  i < j
      <4> DEFINE s == skipped[w]
      <4>1. /\ Len(s) \in Nat /\ Len(queue) \in Nat /\ Len(queue') = Len(s) + Len(queue)
            /\ \A k \in 1..Len(s) : queue'[k] = s[k]
            /\ \A k \in Len(s) + 1..Len(s) + Len(queue) : queue'[k] = queue[k - Len(s)]
        BY <2>a, <3>1, ConcatProperties
      <4>2. \A k \in 1..Len(s) : s[k] \in Off
        BY DEF Off, Holds, Range2Set
      <4> HIDE DEF s
      <4>3. j \notin 1..Len(s)
        BY <3>4, <4>1, <4>2
      <4>4. j - Len(s) \in 1..Len(queue) /\ queue[j - Len(s)] = d
        BY <3>4, <4>1, <4>3
      <4>5. CASE i \in 1..Len(s)
        BY <4>1, <4>3, <4>4, <4>5
      <4>6. CASE i \notin 1..Len(s)
        <5>1. i - Len(s) \in 1..Len(queue) /\ queue[i - Len(s)] = c
          BY <3>4, <4>1, <4>6
        <5>2. i - Len(s) < j - Len(s)
          BY <3>4, <4>4, <5>1 DEF Behind
        <5> QED BY <4>1, <5>2
      <4> QED BY <4>5, <4>6
    <3>5. \A c, d \in Arrived : Behind(c, d) /\ d \notin Off => Behind(c, d)'
      BY <3>4 DEF Behind
    <3>6. Running \subseteq Running'
      BY <3>1, <3>3, <2>d
    <3> QED BY <2>b, <3>1, <3>2, <3>5, <3>6, OrderKept
  <2>7. ASSUME NEW w \in Workers, EndExecution(w) PROVE OrderInv'
    <3>1. /\ UNCHANGED <<arrived, owner, queue, dropped, skipped>>
          /\ wpc[w] \in {"running", "inert"} /\ wpc' = [wpc EXCEPT ![w] = "top"]
          /\ hand' = [hand EXCEPT ![w] = None] /\ finished' = finished \cup {hand[w]}
      BY <2>7 DEF EndExecution
    <3>2. hand[w] \in Off /\ Off' \subseteq Off
      <4>1. hand[w] \in Holds(w)
        BY <2>a, <3>1 DEF Holds, TypeOK, WorkerTypeOK
      <4>2. \A v \in Workers : Holds(v)' \subseteq Holds(v)
        BY <2>a, <3>1 DEF Holds
      <4> QED BY <4>1, <4>2 DEF Off
    <3>3. Started \subseteq Started'
      <4>1. \A v \in Workers : wpc[v] = "running" =>
               v = w \/ (wpc'[v] = "running" /\ hand'[v] = hand[v])
        BY <2>a, <3>1
      <4> QED BY <3>1, <4>1 DEF Started, Running
    <3>4. SUFFICES ASSUME NEW c \in Arrived, NEW d \in Arrived,
                          c < d, SameExclusiveGroup(c, d),
                          c \notin Started \cup dropped, <<c, d>> \notin passed
                   PROVE  d \notin Off' /\ d \notin finished' /\ Behind(c, d)'
      BY <2>b, <3>1, <3>3 DEF OrderInv, Arrived, SameExclusiveGroup, GroupOfCall
    <3>5. d \notin Off /\ d \notin finished /\ Behind(c, d)
      BY <3>4 DEF OrderInv
    <3> QED BY <3>1, <3>2, <3>5 DEF Behind
  <2>8. ASSUME Stop \/ Disconnect \/ DestroyNode PROVE OrderInv'
    <3>1. UNCHANGED <<arrived, owner, queue, finished, hand, skipped, wpc, dropped>>
      BY <2>8 DEF Stop, Disconnect, DestroyNode
    <3> QED BY <3>1, <2>c, <2>d
  <2>9. ASSUME NEW e \in Entities, CloseEntity(e) \/ UnregisterEntity(e) PROVE OrderInv'
    <3>1. UNCHANGED <<arrived, owner, queue, finished, hand, skipped, wpc, dropped>>
      BY <2>9 DEF CloseEntity, UnregisterEntity
    <3> QED BY <3>1, <2>c, <2>d
  <2>10. ASSUME Destroyer PROVE OrderInv'
    <3>1. CASE DestroyClearQueue
      <4>1. /\ UNCHANGED <<arrived, owner, finished, hand, skipped, wpc>>
            /\ dropped \subseteq dropped' /\ queue' = <<>>
        BY <3>1 DEF DestroyClearQueue
      <4>2. Off' = Off
        BY <4>1 DEF Off, Holds
      <4>3. \A c, d \in Arrived : Behind(c, d)'
        BY <4>1 DEF Behind
      <4> QED BY <2>b, <2>d, <4>1, <4>2, <4>3, OrderKept
    <3>2. CASE ~DestroyClearQueue
      <4>1. UNCHANGED <<arrived, owner, queue, finished, hand, skipped, wpc, dropped>>
        BY <2>10, <3>2
        DEF Destroyer, DestroyUnregister, DestroyClose, DestroyNotify, DestroyAdvance
      <4> QED BY <4>1, <2>c, <2>d
    <3> QED BY <3>1, <3>2
  <2>11. ASSUME UNCHANGED vars PROVE OrderInv'
    BY <2>11, <2>c, <2>d DEF vars
  <2> QED
    BY <2>b, <2>1, <2>2, <2>3, <2>4, <2>5, <2>6, <2>7, <2>8, <2>9, <2>10, <2>11
    DEF Next, Worker
<1> QED
  BY TypeCorrect, NothingLost, OrderIsSpec, <1>1, <1>2, PTL DEF OrderSpec

\* However many workers there are, a callback of an exclusive group is
\* overtaken only by one that was taken while a scan had it off the queue.
THEOREM OvertakenAsideHolds == OrderSpec => []OvertakenAside
<1>1. TypeOK /\ OrderInv => OvertakenAside
  <2> SUFFICES ASSUME TypeOK, OrderInv, NEW c \in Arrived, NEW d \in Arrived,
                      c < d, SameExclusiveGroup(c, d), d \in Started,
                      c \notin Started \cup dropped, <<c, d>> \notin passed
               PROVE  FALSE
    BY DEF OvertakenAside
  <2>1. d \notin Off /\ d \notin finished
    BY DEF OrderInv
  <2>2. PICK w \in Workers : d = hand[w] /\ wpc[w] = "running"
    BY <2>1 DEF Started, Running
  <2>3. d \in Holds(w)
    BY <2>2 DEF Holds, TypeOK, WorkerTypeOK
  <2> QED BY <2>1, <2>3 DEF Off
<1> QED BY TypeCorrect, OrderHeld, OrderIsSpec, <1>1, PTL

-----------------------------------------------------------------------------
(* A single executor thread.                                                 *)

\* Order after append.
LEMMA SortedAppend ==
    ASSUME NEW s \in Seq(Nat), NEW x \in Nat, Sorted(s), \A y \in Range2Set(s) : y < x
    PROVE  Sorted(Append(s, x))
<1>1. /\ Len(Append(s, x)) = Len(s) + 1
      /\ \A i \in 1..Len(s) : Append(s, x)[i] = s[i]
      /\ Append(s, x)[Len(s) + 1] = x
      /\ Len(s) \in Nat
  BY AppendProperties
<1>2. \A i \in 1..Len(s) : s[i] < x
  BY DEF Range2Set
<1>3. \A i \in 1..Len(s) + 1 : i \in 1..Len(s) \/ i = Len(s) + 1
  BY <1>1
<1> QED BY <1>1, <1>2, <1>3 DEF Sorted

\* Order after popleft.
LEMMA SortedTail ==
    ASSUME NEW s \in Seq(Nat), s # <<>>, Sorted(s)
    PROVE  Sorted(Tail(s)) /\ \A y \in Range2Set(Tail(s)) : Head(s) < y
<1>1. /\ Len(s) \in Nat /\ Len(s) > 0
      /\ Head(s) = s[1]
      /\ Len(Tail(s)) = Len(s) - 1
      /\ \A i \in 1..Len(Tail(s)) : Tail(s)[i] = s[i + 1]
  BY HeadTailProperties
<1>2. Sorted(Tail(s))
  BY <1>1 DEF Sorted
<1>3. \A i \in 1..Len(Tail(s)) : s[1] < Tail(s)[i]
  BY <1>1 DEF Sorted
<1> QED BY <1>1, <1>2, <1>3 DEF Range2Set

\* A step that moves no callback and marks no group keeps the order.
LEMMA OrderStays ==
    ASSUME SoloOrder, UNCHANGED <<queue, skipped, executing, grp, hand, finished>>,
           \A w \in Workers : /\ wpc'[w] # "recheck"
                              /\ grp[w] # None
                                    => wpc'[w] \in {"restore", "call", "running", "inert"}
    PROVE  SoloOrder'
BY DEF SoloOrder

\* One thread never holds a callback aside: it takes them as they came.
THEOREM SoloKeepsOrder ==
    ASSUME NEW only, Workers = {only}
    PROVE  Spec => []SoloOrder
<1> USE NodeAssumption DEF Calls
<1>1. Init => SoloOrder
  BY DEF Init, SoloOrder, Sorted, Range2Set
<1>2. TypeOK /\ PlaceInv /\ SoloOrder /\ [Next]_vars => SoloOrder'
  <2> SUFFICES ASSUME TypeOK, PlaceInv, SoloOrder, [Next]_vars PROVE SoloOrder'
    OBVIOUS
  <2> USE DEF enqVars, dropVars, entityVars, workerVars, wakeVars, destroyVars, Goto
  <2>a. /\ queue \in Seq(Arrived) /\ queue \in Seq(Nat) /\ arrived \in 0..MaxCalls
        /\ wpc \in [Workers -> WorkerPcs]
        /\ hand \in [Workers -> Arrived \cup {None}]
        /\ skipped \in [Workers -> Seq(Arrived)]
        /\ grp \in [Workers -> Groups \cup {None}]
        /\ finished \subseteq Arrived /\ executing \subseteq Exclusive
        /\ None \notin Arrived /\ Arrived \subseteq Nat
        /\ Range2Set(queue) \subseteq Arrived
    <3>1. queue \in Seq(Arrived) /\ arrived \in 0..MaxCalls /\ Arrived \subseteq Nat
      BY DEF Arrived, TypeOK, EnqTypeOK, QueueTypeOK
    <3>2. queue \in Seq(Nat) /\ Range2Set(queue) \subseteq Arrived
      BY <3>1, SeqMonotonic, ElementsTyped
    <3> QED
      BY <3>1, <3>2
      DEF Arrived, TypeOK, EnqTypeOK, QueueTypeOK, WorkerTypeOK, SharedTypeOK
  <2>1. ASSUME NEW e \in Entities, Enqueue(e) PROVE SoloOrder'
    <3> DEFINE new == arrived + 1
    <3>1. /\ new \in Nat /\ \A c \in Arrived : c < new
          /\ UNCHANGED <<finished, hand, skipped, wpc, grp, executing>>
      BY <2>1, <2>a DEF Enqueue, Arrived
    <3> HIDE DEF new
    <3>2. /\ Sorted(queue') 
          /\ \A c \in Range2Set(queue') : c \in Range2Set(queue) \/ c = new
      <4>1. CASE queue' = Append(queue, new)
        <5>1. Range2Set(queue') = Range2Set(queue) \cup {new}
          BY <2>a, <3>1, <4>1, AppendElements
        <5>2. Sorted(queue')
          BY <2>a, <3>1, <4>1, SortedAppend DEF SoloOrder
        <5> QED BY <5>1, <5>2
      <4>2. CASE queue # <<>> /\ queue' = Append(Tail(queue), new)
        <5> DEFINE rest == Tail(queue)
        <5>1. rest \in Seq(Nat) /\ Sorted(rest) /\ Range2Set(rest) \subseteq Range2Set(queue)
          BY <2>a, <4>2, TailElements, SortedTail, HeadTailProperties DEF PlaceInv, SoloOrder
        <5>2. queue' = Append(rest, new)
          BY <4>2
        <5> HIDE DEF rest
        <5>3. \A c \in Range2Set(rest) : c < new
          BY <2>a, <3>1, <5>1
        <5>4. Range2Set(queue') = Range2Set(rest) \cup {new}
          BY <3>1, <5>1, <5>2, AppendElements
        <5>5. Sorted(queue')
          BY <3>1, <5>1, <5>2, <5>3, SortedAppend
        <5> QED BY <5>1, <5>4, <5>5
      <4>3. CASE queue' = queue
        BY <4>3 DEF SoloOrder
      <4>4. Full => queue # <<>>
        BY <2>a DEF Full
      <4> QED BY <2>1, <4>1, <4>2, <4>3, <4>4 DEF Enqueue, Admit, new
    <3>3. ASSUME NEW x \in Arrived, \A c \in Range2Set(queue) : x < c
          PROVE  \A c \in Range2Set(queue') : x < c
      BY <3>1, <3>2, <3>3
    <3>4. hand[only] # None => \A c \in Range2Set(queue') : hand[only] < c
      BY <2>a, <3>3 DEF SoloOrder
    <3>5. \A f \in finished : \A c \in Range2Set(queue') : f < c
      BY <2>a, <3>3 DEF SoloOrder
    <3> QED BY <3>1, <3>2, <3>4, <3>5 DEF SoloOrder
  <2>2. ASSUME NEW c \in Calls, Producer(c) PROVE SoloOrder'
    BY <2>2, OrderStays DEF Producer, NotifyDropped, Wake, SoloOrder
  <2>3. ASSUME NEW w \in Workers,
               \/ Top(w) \/ ReadGeneration(w) \/ Snapshot(w) \/ ScanEnds(w)
               \/ CallUser(w) \/ CheckStopped(w) \/ WakeUp(w) \/ PollTimeout(w)
        PROVE  SoloOrder'
    <3>1. /\ UNCHANGED <<queue, skipped, executing, grp, hand, finished>>
          /\ \E p \in WorkerPcs \ {"recheck"} :
                 /\ wpc' = [wpc EXCEPT ![w] = p]
                 /\ wpc[w] = "call" => p \in {"running", "inert"}
          /\ wpc[w] \in {"top", "gen", "len", "pop", "call", "check", "wait"}
      BY <2>3
      DEF Top, ReadGeneration, Snapshot, ScanEnds, CallUser, CheckStopped, WakeUp, PollTimeout,
          WorkerPcs
    <3> QED BY <2>a, <3>1, OrderStays DEF SoloOrder
  <2>4. ASSUME NEW w \in Workers, PopItem(w) PROVE SoloOrder'
    <3>1. /\ queue # <<>> /\ queue' = Tail(queue) /\ wpc[w] = "pop"
          /\ hand' = [hand EXCEPT ![w] = Head(queue)] /\ wpc' = [wpc EXCEPT ![w] = "begin"]
          /\ UNCHANGED <<finished, skipped, grp, executing>>
      BY <2>4 DEF PopItem
    <3>2. /\ Head(queue) \in Range2Set(queue) /\ Sorted(queue')
          /\ Range2Set(queue') = Range2Set(queue) \ {Head(queue)}
          /\ \A c \in Range2Set(queue') : Head(queue) < c
      BY <2>a, <3>1, TailElements, SortedTail DEF PlaceInv, SoloOrder
    <3> QED BY <2>a, <3>1, <3>2 DEF SoloOrder
  <2>5. ASSUME NEW w \in Workers, BeginExecution(w) PROVE SoloOrder'
    <3> DEFINE g == GroupOfCall(hand[w])
    <3>1. /\ wpc[w] = "begin" /\ UNCHANGED <<queue, skipped, hand, finished>>
          /\ hand[w] # None /\ g \in Groups
      <4>1. wpc[w] = "begin" /\ UNCHANGED <<queue, skipped, hand, finished>>
        BY <2>5 DEF BeginExecution
      <4>2. hand[w] \in Arrived /\ hand[w] \in Calls
        BY <4>1 DEF Arrived, TypeOK, EnqTypeOK, WorkerTypeOK
      <4>3. owner[hand[w]] \in Entities
        BY <4>2 DEF Arrived, TypeOK, EnqTypeOK
      <4> QED BY <4>1, <4>2, <4>3 DEF GroupOfCall, TypeOK, WorkerTypeOK
    <3>2. executing = {}
      <4>1. grp[w] = None /\ executing \subseteq {grp[w]}
        BY <3>1 DEF SoloOrder
      <4> QED BY <2>a, <4>1
    <3>3. /\ wpc' = [wpc EXCEPT ![w] = "restore"]
          /\ \/ UNCHANGED <<grp, executing>>
             \/ grp' = [grp EXCEPT ![w] = g] /\ executing' = executing \cup ({g} \cap Exclusive)
      BY <2>5, <3>2 DEF BeginExecution
    <3> HIDE DEF g
    <3>4. executing' \subseteq {grp'[w]}
      BY <2>a, <3>1, <3>2, <3>3
    <3>5. wpc' = [wpc EXCEPT ![w] = "restore"] /\ Workers = {w}
      BY <3>3
    <3> QED BY <2>a, <3>1, <3>4, <3>5 DEF SoloOrder
  <2>6. ASSUME NEW w \in Workers, Recheck(w) PROVE SoloOrder'
    BY <2>6 DEF Recheck, SoloOrder
  <2>7. ASSUME NEW w \in Workers, Restore(w) PROVE SoloOrder'
    <3>1. /\ queue' = <<>> \o queue /\ skipped' = [skipped EXCEPT ![w] = <<>>]
          /\ wpc' = [wpc EXCEPT ![w] = IF hand[w] = None THEN "check" ELSE "call"]
          /\ UNCHANGED <<executing, grp, hand, finished>>
      BY <2>7 DEF Restore, SoloOrder
    <3>2. queue' = queue
      BY <2>a, <3>1
    <3>3. hand[w] = None => grp[w] = None
      BY DEF SoloOrder
    <3> QED BY <2>a, <3>1, <3>2, <3>3 DEF SoloOrder
  <2>8. ASSUME NEW w \in Workers, EndExecution(w) PROVE SoloOrder'
    <3>1. /\ finished' = finished \cup {hand[w]} /\ hand' = [hand EXCEPT ![w] = None]
          /\ wpc' = [wpc EXCEPT ![w] = "top"] /\ grp' = [grp EXCEPT ![w] = None]
          /\ executing' = executing \ {grp[w]}
          /\ UNCHANGED <<queue, skipped>> /\ hand[w] # None
      BY <2>8 DEF EndExecution, TypeOK, WorkerTypeOK
    <3> QED BY <2>a, <3>1 DEF SoloOrder
  <2>9. CASE Stop \/ Disconnect
    BY <2>9, OrderStays DEF Stop, Disconnect, SoloOrder
  <2>10. ASSUME NEW e \in Entities, CloseEntity(e) \/ UnregisterEntity(e) PROVE SoloOrder'
    BY <2>10, OrderStays DEF CloseEntity, UnregisterEntity, SoloOrder
  <2>11. CASE DestroyClearQueue
    <3>1. queue' = <<>> /\ UNCHANGED <<finished, hand, skipped, wpc, grp, executing>>
      BY <2>11 DEF DestroyClearQueue
    <3> QED BY <3>1 DEF SoloOrder, Sorted, Range2Set
  <2>12. CASE \/ DestroyNode \/ \E e \in Entities : DestroyUnregister(e)
              \/ DestroyClose \/ DestroyNotify \/ DestroyAdvance
    BY <2>12, OrderStays
    DEF DestroyNode, DestroyUnregister, DestroyClose, DestroyNotify, DestroyAdvance, SoloOrder
  <2>13. CASE UNCHANGED vars
    BY <2>13, OrderStays DEF vars, SoloOrder
  <2> QED
    BY <2>1, <2>2, <2>3, <2>4, <2>5, <2>6, <2>7, <2>8, <2>9, <2>10, <2>11, <2>12, <2>13
    DEF Next, Worker, Destroyer
<1> QED
  BY TypeCorrect, NothingLost, <1>1, <1>2, PTL DEF Spec

\* Removing the oldest of a sequence loses that one only.
LEMMA TailCovers ==
    ASSUME NEW S, NEW s \in Seq(S), s # <<>>
    PROVE  Range2Set(s) \subseteq Range2Set(Tail(s)) \cup {Head(s)}
<1>1. /\ Len(s) \in Nat /\ Len(s) > 0
      /\ Head(s) = s[1]
      /\ Len(Tail(s)) = Len(s) - 1
      /\ \A i \in 1..Len(Tail(s)) : Tail(s)[i] = s[i + 1]
  BY HeadTailProperties
<1>2. ASSUME NEW i \in 1..Len(s), i # 1 PROVE s[i] \in Range2Set(Tail(s))
  <2>1. i - 1 \in 1..Len(Tail(s)) /\ Tail(s)[i - 1] = s[i]
    BY <1>1, <1>2
  <2> QED BY <2>1 DEF Range2Set
<1> QED BY <1>1, <1>2 DEF Range2Set

\* One thread goes to sleep only when nothing is queued that it has not been,
\* or is not about to be, woken for.
THEOREM SoloHearsWakes ==
    ASSUME NEW only, Workers = {only}
    PROVE  Spec => []SoloWake
<1> USE NodeAssumption
<1>1. Init => SoloWake
  BY DEF Init, SoloWake
<1>2. TypeOK /\ PlaceInv /\ SoloOrder /\ SoloWake /\ [Next]_vars => SoloWake'
  <2> SUFFICES ASSUME TypeOK, PlaceInv, SoloOrder, SoloWake, [Next]_vars PROVE SoloWake'
    OBVIOUS
  <2> USE DEF enqVars, dropVars, entityVars, workerVars, wakeVars, destroyVars, Goto
  <2>a. /\ queue \in Seq(Arrived) /\ Len(queue) \in Nat
        /\ wpc \in [Workers -> WorkerPcs]
        /\ hand \in [Workers -> Arrived \cup {None}] /\ None \notin Arrived
        /\ left \in [Workers -> Nat]
        /\ enqPc \in [Calls -> {"new", "notify", "wake", "done"}]
        /\ victim \in [Calls -> Arrived \cup {None}]
    BY DEF Arrived, Calls, TypeOK, EnqTypeOK, QueueTypeOK, WorkerTypeOK
  <2>b. ASSUME Len(queue') <= Len(queue), attached' => attached,
               UNCHANGED <<arrived, enqPc, victim, woken, wpc, hand, left>>,
               Len(queue') \in Nat
        PROVE  SoloWake'
    BY <2>a, <2>b DEF SoloWake, WillWake, Arrived
  <2>1. ASSUME NEW e \in Entities, Enqueue(e) PROVE SoloWake'
    <3>1. PICK new \in Calls : new = arrived + 1
      BY <2>1 DEF Enqueue, Calls, TypeOK, EnqTypeOK
    <3>2. /\ new \notin Arrived /\ Arrived' = Arrived \cup {new}
          /\ UNCHANGED <<hand, wpc, left, woken, attached>>
      BY <2>1, <3>1 DEF Enqueue, Arrived, Calls, TypeOK, EnqTypeOK
    <3>3. \E p \in {"wake", "notify"} : enqPc' = [enqPc EXCEPT ![new] = p]
      BY <2>1, <3>1 DEF Enqueue, Admit
    <3>4. \A c \in Calls : enqPc'[c] # "new" => c \in Arrived'
      BY <2>a, <3>2, <3>3 DEF SoloWake
    <3>5. CASE queue' = queue /\ victim' = [victim EXCEPT ![new] = new]
      <4>1. \A c \in Calls : WillWake(c) => c # new
        BY <3>2 DEF SoloWake, WillWake
      <4>2. \A c \in Calls : WillWake(c) => WillWake(c)'
        BY <2>a, <3>3, <3>5, <4>1 DEF WillWake
      <4> QED BY <3>2, <3>4, <3>5, <4>2 DEF SoloWake
    <3>6. CASE WillWake(new)'
      BY <3>2, <3>4, <3>6 DEF SoloWake
    <3>7. CASE enqPc' = [enqPc EXCEPT ![new] = "wake"]
      BY <2>a, <3>6, <3>7 DEF WillWake
    <3>8. CASE queue # <<>> /\ victim' = [victim EXCEPT ![new] = Head(queue)]
      <4>1. Head(queue) \in Arrived
        BY <2>a, <3>8, HeadTailProperties
      <4> QED BY <2>a, <3>2, <3>3, <3>6, <3>8, <4>1 DEF WillWake
    <3>9. Full => queue # <<>>
      BY <2>a DEF Full, NodeAssumption
    <3> QED BY <2>1, <3>1, <3>5, <3>7, <3>8, <3>9 DEF Enqueue, Admit
  <2>2. ASSUME NEW c \in Calls, NotifyDropped(c) PROVE SoloWake'
    <3>1. /\ UNCHANGED <<arrived, queue, hand, wpc, left, woken, attached>>
          /\ enqPc[c] = "notify"
          /\ enqPc' = [enqPc EXCEPT ![c] = IF victim[c] = c THEN "done" ELSE "wake"]
          /\ victim' = [victim EXCEPT ![c] = None]
      BY <2>2 DEF NotifyDropped
    <3>2. \A d \in Calls : WillWake(d) => WillWake(d)'
      BY <2>a, <3>1 DEF WillWake
    <3>3. \A d \in Calls : enqPc'[d] # "new" => enqPc[d] # "new"
      BY <2>a, <3>1
    <3> QED BY <3>1, <3>2, <3>3 DEF SoloWake, Arrived
  <2>3. ASSUME NEW c \in Calls, Wake(c) PROVE SoloWake'
    <3>1. /\ UNCHANGED <<arrived, queue, hand, wpc, left, attached>>
          /\ attached => woken' = Workers
          /\ enqPc[c] = "wake" /\ enqPc' = [enqPc EXCEPT ![c] = "done"]
      BY <2>3 DEF Wake
    <3>2. \A d \in Calls : enqPc'[d] # "new" => enqPc[d] # "new"
      BY <2>a, <3>1
    <3> QED BY <3>1, <3>2 DEF SoloWake, Arrived
  <2>4. ASSUME NEW w \in Workers, Top(w) \/ ReadGeneration(w) \/ WakeUp(w) \/ PollTimeout(w)
        PROVE  SoloWake'
    <3>1. /\ \E p \in {"exit", "gen", "len", "top"} : wpc' = [wpc EXCEPT ![w] = p]
          /\ UNCHANGED <<arrived, enqPc>>
      BY <2>4 DEF Top, ReadGeneration, WakeUp, PollTimeout
    <3> QED BY <2>a, <3>1 DEF SoloWake, Arrived
  <2>5. ASSUME NEW w \in Workers, Snapshot(w) PROVE SoloWake'
    <3>1. /\ wpc' = [wpc EXCEPT ![w] = "pop"] /\ left' = [left EXCEPT ![w] = Len(queue)]
          /\ UNCHANGED <<queue, arrived, enqPc>>
      BY <2>5 DEF Snapshot
    <3> QED BY <2>a, <3>1 DEF SoloWake, Arrived
  <2>6. ASSUME NEW w \in Workers, PopItem(w) PROVE SoloWake'
    <3>1. wpc' = [wpc EXCEPT ![w] = "begin"] /\ UNCHANGED <<arrived, enqPc>>
      BY <2>6 DEF PopItem
    <3> QED BY <2>a, <3>1 DEF SoloWake, Arrived
  <2>7. ASSUME NEW w \in Workers, ScanEnds(w) PROVE SoloWake'
    <3>1. /\ left[w] = 0 \/ queue = <<>>
          /\ wpc[w] = "pop" /\ wpc' = [wpc EXCEPT ![w] = "restore"]
          /\ left' = [left EXCEPT ![w] = 0]
          /\ UNCHANGED <<arrived, queue, hand, woken, attached, enqPc, victim>>
      BY <2>7 DEF ScanEnds
    <3>2. CASE queue = <<>>
      BY <2>a, <3>1, <3>2 DEF SoloWake, Arrived
    <3>3. CASE left[w] = 0
      BY <2>a, <3>1, <3>3 DEF SoloWake, WillWake, Arrived
    <3> QED BY <3>1, <3>2, <3>3
  <2>8. ASSUME NEW w \in Workers, BeginExecution(w) \/ CallUser(w) \/ EndExecution(w)
        PROVE  SoloWake'
    <3>1. CASE BeginExecution(w)
      <4>1. hand[w] # None /\ hand' = hand
        BY <3>1 DEF BeginExecution, TypeOK, WorkerTypeOK
      <4>2. \E p \in {"restore", "recheck"} : wpc' = [wpc EXCEPT ![w] = p]
        BY <3>1 DEF BeginExecution
      <4>3. UNCHANGED <<arrived, enqPc>>
        BY <3>1 DEF BeginExecution
      <4> QED BY <2>a, <4>1, <4>2, <4>3 DEF SoloWake, Arrived
    <3>2. CASE CallUser(w)
      <4>1. /\ \E p \in {"running", "inert"} : wpc' = [wpc EXCEPT ![w] = p]
            /\ UNCHANGED <<arrived, enqPc>>
        BY <3>2 DEF CallUser
      <4> QED BY <2>a, <4>1 DEF SoloWake, Arrived
    <3>3. CASE EndExecution(w)
      <4>1. wpc' = [wpc EXCEPT ![w] = "top"] /\ UNCHANGED <<arrived, enqPc>>
        BY <3>3 DEF EndExecution
      <4> QED BY <2>a, <4>1 DEF SoloWake, Arrived
    <3> QED BY <2>8, <3>1, <3>2, <3>3
  <2>9. ASSUME NEW w \in Workers, Recheck(w) PROVE SoloWake'
    BY <2>9 DEF Recheck, SoloOrder
  <2>10. ASSUME NEW w \in Workers, Restore(w) PROVE SoloWake'
    <3>1. /\ queue' = <<>> \o queue /\ left' = [left EXCEPT ![w] = 0]
          /\ wpc[w] = "restore"
          /\ wpc' = [wpc EXCEPT ![w] = IF hand[w] = None THEN "check" ELSE "call"]
          /\ UNCHANGED <<arrived, hand, woken, attached, enqPc, victim>>
      BY <2>10 DEF Restore, SoloOrder
    <3>2. queue' = queue
      BY <2>a, <3>1
    <3>3. CASE hand[w] = None
      BY <2>a, <3>1, <3>2, <3>3 DEF SoloWake, WillWake, Arrived
    <3>4. CASE hand[w] # None
      BY <2>a, <3>1, <3>4 DEF SoloWake, Arrived
    <3> QED BY <3>3, <3>4
  <2>11. ASSUME NEW w \in Workers, CheckStopped(w) PROVE SoloWake'
    <3>1. /\ wpc[w] = "check"
          /\ \E p \in {"top", "wait"} : wpc' = [wpc EXCEPT ![w] = p]
          /\ UNCHANGED <<arrived, queue, left, hand, woken, attached, enqPc, victim>>
      BY <2>11 DEF CheckStopped
    <3> QED BY <2>a, <3>1 DEF SoloWake, WillWake, Arrived
  <2>12. CASE Stop \/ Disconnect
    <3>1. CASE Stop
      BY <3>1, <2>a, <2>b DEF Stop
    <3>2. CASE Disconnect
      BY <3>2 DEF Disconnect, SoloWake, Arrived
    <3> QED BY <2>12, <3>1, <3>2
  <2>13. ASSUME NEW e \in Entities, CloseEntity(e) \/ UnregisterEntity(e) PROVE SoloWake'
    BY <2>13, <2>a, <2>b DEF CloseEntity, UnregisterEntity
  <2>14. CASE DestroyClearQueue
    BY <2>14, <2>a, <2>b DEF DestroyClearQueue
  <2>15. CASE \/ DestroyNode \/ \E e \in Entities : DestroyUnregister(e)
              \/ DestroyClose \/ DestroyNotify \/ DestroyAdvance
    BY <2>15, <2>a, <2>b
    DEF DestroyNode, DestroyUnregister, DestroyClose, DestroyNotify, DestroyAdvance
  <2>16. CASE UNCHANGED vars
    BY <2>16, <2>a, <2>b DEF vars
  <2> QED
    BY <2>1, <2>2, <2>3, <2>4, <2>5, <2>6, <2>7, <2>8, <2>9, <2>10, <2>11, <2>12, <2>13,
       <2>14, <2>15, <2>16
    DEF Next, Producer, Worker, Destroyer
<1> QED
  BY TypeCorrect, NothingLost, SoloKeepsOrder, <1>1, <1>2, PTL DEF Spec

\* Every dropped callback is reported to its owner, or about to be.
THEOREM SoloReports ==
    ASSUME NEW only, Workers = {only}
    PROVE  Spec => []Reported
<1> USE NodeAssumption
<1>1. Init => Reported
  BY DEF Init, Reported
<1>2. TypeOK /\ SoloOrder /\ SoloWake /\ Reported /\ [Next]_vars => Reported'
  <2> SUFFICES ASSUME TypeOK, SoloOrder, SoloWake, Reported, [Next]_vars PROVE Reported'
    OBVIOUS
  <2> USE DEF enqVars, dropVars, entityVars, workerVars, wakeVars, destroyVars, Goto
  <2>a. /\ queue \in Seq(Arrived) /\ destroyPend \in Seq(Arrived)
        /\ enqPc \in [Calls -> {"new", "notify", "wake", "done"}]
        /\ victim \in [Calls -> Arrived \cup {None}]
    BY DEF TypeOK, EnqTypeOK, QueueTypeOK
  <2>b. ASSUME UNCHANGED <<queue, dropped, notified, enqPc, victim, destroyPc, destroyPend>>
        PROVE  Reported'
    BY <2>b DEF Reported
  <2>1. ASSUME NEW e \in Entities, Enqueue(e) PROVE Reported'
    <3>1. PICK new \in Calls : new = arrived + 1
      BY <2>1 DEF Enqueue, Calls, TypeOK, EnqTypeOK
    <3>2. /\ enqPc[new] = "new" /\ UNCHANGED <<notified, destroyPc, destroyPend>>
          /\ destroyPc # "none" => queue' = queue
      <4>1. new \notin Arrived
        BY <3>1 DEF Arrived, TypeOK, EnqTypeOK
      <4> QED BY <2>1, <4>1 DEF Enqueue, Admit, Destroyed, SoloWake
    <3>3. CASE /\ dropped' = dropped /\ victim' = victim
               /\ enqPc' = [enqPc EXCEPT ![new] = "wake"]
      BY <2>a, <3>2, <3>3 DEF Reported
    <3>4. ASSUME NEW x, dropped' = dropped \cup {x}, victim' = [victim EXCEPT ![new] = x],
                 enqPc' = [enqPc EXCEPT ![new] = "notify"]
          PROVE  Reported'
      <4>1. enqPc'[new] = "notify" /\ victim'[new] = x
        BY <2>a, <3>4
      <4>2. \A d \in Calls : enqPc[d] = "notify" => enqPc'[d] = "notify" /\ victim'[d] = victim[d]
        BY <2>a, <3>2, <3>4
      <4> QED BY <3>2, <3>4, <4>1, <4>2 DEF Reported
    <3> QED BY <2>1, <3>1, <3>3, <3>4 DEF Enqueue, Admit
  <2>2. ASSUME NEW c \in Calls, NotifyDropped(c) PROVE Reported'
    <3>1. /\ UNCHANGED <<queue, dropped, destroyPc, destroyPend>>
          /\ notified' = notified \cup {victim[c]}
          /\ \E p \in {"done", "wake"} : enqPc' = [enqPc EXCEPT ![c] = p]
          /\ victim' = [victim EXCEPT ![c] = None]
      BY <2>2 DEF NotifyDropped
    <3> QED BY <2>a, <3>1 DEF Reported
  <2>3. ASSUME NEW c \in Calls, Wake(c) PROVE Reported'
    <3>1. /\ UNCHANGED <<queue, dropped, notified, victim, destroyPc, destroyPend>>
          /\ enqPc[c] = "wake" /\ enqPc' = [enqPc EXCEPT ![c] = "done"]
      BY <2>3 DEF Wake
    <3> QED BY <2>a, <3>1 DEF Reported
  <2>4. ASSUME NEW w \in Workers, Worker(w), ~PopItem(w), ~Restore(w) PROVE Reported'
    BY <2>4, <2>b
    DEF Worker, Top, ReadGeneration, Snapshot, ScanEnds, BeginExecution, Recheck, CallUser,
        EndExecution, CheckStopped, WakeUp, PollTimeout
  <2>5. ASSUME NEW w \in Workers, PopItem(w) PROVE Reported'
    <3>1. queue # <<>> /\ UNCHANGED <<dropped, notified, enqPc, victim, destroyPc, destroyPend>>
      BY <2>5 DEF PopItem
    <3> QED BY <3>1 DEF Reported
  <2>6. ASSUME NEW w \in Workers, Restore(w) PROVE Reported'
    <3>1. queue' = queue
      BY <2>6, <2>a DEF Restore, SoloOrder
    <3> QED BY <2>6, <2>b, <3>1 DEF Restore
  <2>7. CASE Stop \/ Disconnect
    BY <2>7, <2>b DEF Stop, Disconnect
  <2>8. ASSUME NEW e \in Entities, CloseEntity(e) \/ UnregisterEntity(e) PROVE Reported'
    BY <2>8, <2>b DEF CloseEntity, UnregisterEntity
  <2>9. CASE DestroyClearQueue
    <3>1. /\ destroyPc = "early" /\ destroyPc' = "notify" /\ queue' = <<>>
          /\ dropped' = dropped \cup Range2Set(queue) /\ destroyPend' = queue
          /\ UNCHANGED <<notified, enqPc, victim>>
      BY <2>9 DEF DestroyClearQueue
    <3>2. destroyPend = <<>>
      BY <3>1 DEF Reported
    <3>3. Range2Set(destroyPend) = {}
      BY <3>2 DEF Range2Set
    <3> QED BY <3>1, <3>3 DEF Reported
  <2>10. CASE DestroyNotify
    <3>1. /\ destroyPc = "notify" /\ destroyPend # <<>>
          /\ notified' = notified \cup {Head(destroyPend)}
          /\ destroyPend' = Tail(destroyPend)
          /\ UNCHANGED <<queue, dropped, enqPc, victim, destroyPc>>
      BY <2>10 DEF DestroyNotify
    <3>2. Range2Set(destroyPend) \subseteq Range2Set(destroyPend') \cup {Head(destroyPend)}
      BY <2>a, <3>1, TailCovers
    <3> QED BY <3>1, <3>2 DEF Reported
  <2>11. CASE DestroyNode \/ DestroyClose \/ \E e \in Entities : DestroyUnregister(e)
    <3>1. /\ UNCHANGED <<queue, dropped, notified, enqPc, victim, destroyPend>>
          /\ destroyPc' = destroyPc \/ (destroyPc = "none" /\ destroyPc' = "early")
      BY <2>11 DEF DestroyNode, DestroyUnregister, DestroyClose
    <3> QED BY <3>1 DEF Reported
  <2>12. CASE DestroyAdvance
    <3>1. /\ UNCHANGED <<queue, dropped, notified, enqPc, victim, destroyPend>>
          /\ destroyPend = <<>> /\ destroyPc \in {"notify", "late"}
      BY <2>12 DEF DestroyAdvance
    <3> QED BY <3>1 DEF Reported
  <2>13. CASE UNCHANGED vars
    BY <2>13, <2>b DEF vars
  <2> QED
    BY <2>1, <2>2, <2>3, <2>4, <2>5, <2>6, <2>7, <2>8, <2>9, <2>10, <2>11, <2>12, <2>13
    DEF Next, Producer, Destroyer
<1> QED
  BY TypeCorrect, SoloKeepsOrder, SoloHearsWakes, <1>1, <1>2, PTL DEF Spec

\* With one executor thread no callback is stranded: the thread never sleeps
\* over a queued one, and what destroy_node leaves behind has been reported.
THEOREM SoloStrandsNothing ==
    ASSUME NEW only, Workers = {only}
    PROVE  Spec => []NoStrandedCallback
<1>1. TypeOK /\ PlaceInv /\ SoloWake => NoLostWakeUp
  <2> SUFFICES ASSUME TypeOK, PlaceInv, SoloWake, attached, ProducersIdle, Asleep(only)
               PROVE  Len(queue) = 0
    BY DEF NoLostWakeUp
  <2>1. hand[only] = None /\ wpc[only] = "wait" /\ only \notin woken
    BY DEF Asleep, PlaceInv, HoldingInv
  <2>2. \A c \in Calls : ~WillWake(c)
    BY DEF ProducersIdle, WillWake
  <2>3. left[only] = 0 /\ Len(queue) <= left[only]
    BY <2>1, <2>2 DEF SoloWake
  <2>4. Len(queue) \in Nat
    BY DEF TypeOK, QueueTypeOK
  <2> QED BY <2>3, <2>4
<1>2. TypeOK /\ PlaceInv /\ SoloOrder /\ Reported => DestroyReleasesAll
  <2> SUFFICES ASSUME TypeOK, PlaceInv, SoloOrder, Reported,
                      destroyPc = "done", ProducersIdle, wpc[only] = "exit",
                      NEW c \in Arrived
               PROVE  c \in finished \cup notified
    BY DEF DestroyReleasesAll
  <2>1. hand[only] = None /\ skipped[only] = <<>> /\ queue = <<>> /\ destroyPend = <<>>
    BY DEF PlaceInv, HoldingInv, SoloOrder, Reported
  <2>2. Range2Set(skipped[only]) = {} /\ Range2Set(queue) = {} /\ Range2Set(destroyPend) = {}
    BY <2>1 DEF Range2Set
  <2>3. c \in finished \cup dropped
    BY <2>1, <2>2 DEF PlaceInv, Placed, Holds, Gone
  <2>4. \A d \in Calls : enqPc[d] # "notify"
    BY DEF ProducersIdle
  <2> QED BY <2>2, <2>3, <2>4 DEF Reported
<1> QED
  BY TypeCorrect, NothingLost, SoloKeepsOrder, SoloHearsWakes, SoloReports, <1>1, <1>2, PTL
  DEF NoStrandedCallback
=============================================================================
