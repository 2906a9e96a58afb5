------------------------ MODULE ExecutorTasksProofs ------------------------
(* Theorems of ExecutorTasks, for any number of tasks, workers and calls of *)
(* shutdown(): a task runs at most once, one that was refused never, and    *)
(* the outcome of its future is final.                                      *)
EXTENDS ExecutorTasks, SequenceTheorems, TLAPS

\* The type invariant of the task queue, the workers and shutdown().
THEOREM TypeCorrect == Spec => []TypeOK
<1> USE TasksAssumption DEF TypeOK
<1>1. Init => TypeOK
  <2> SUFFICES ASSUME Init PROVE TypeOK
    OBVIOUS
  <2> USE DEF Init
  <2>1. taskPc \in [Tasks -> {"new", "lock", "queued", "refused"}]
    OBVIOUS
  <2>2. /\ fut \in [Tasks -> {"pending", "result", "exception", "cancelled"}]
        /\ taskQueue \in Seq(Tasks) /\ runs \in [Tasks -> Nat]
    OBVIOUS
  <2>3. /\ wpc \in [Workers -> {"top", "pop", "task", "begin", "running", "scan",
                                "wait", "exit"}]
        /\ hand \in [Workers -> Tasks \cup {None}]
        /\ \A w \in Workers : wpc[w] \in {"task", "begin", "running"} <=> hand[w] # None
    OBVIOUS
  <2>4. /\ stopPc \in [Stoppers -> {"idle", "drain", "cancel", "done"}]
        /\ drained \in [Stoppers -> SUBSET Tasks]
    OBVIOUS
  <2> QED BY <2>1, <2>2, <2>3, <2>4
<1>2. TypeOK /\ [Next]_vars => TypeOK'
  <2> SUFFICES ASSUME TypeOK, [Next]_vars PROVE TypeOK'
    OBVIOUS
  <2> USE DEF taskVars, workerVars, stopVars, Goto, Settle
  <2>1. ASSUME NEW t \in Tasks, CreateTask(t) PROVE TypeOK'
    <3>1. CASE stopped
      BY <2>1, <3>1 DEF CreateTask, Refuse
    <3>2. CASE ~stopped
      BY <2>1, <3>2 DEF CreateTask
    <3> QED BY <3>1, <3>2
  <2>2. ASSUME NEW t \in Tasks, AppendTask(t) PROVE TypeOK'
    <3>1. Append(taskQueue, t) \in Seq(Tasks)
      BY AppendProperties
    <3> QED BY <2>2, <3>1 DEF AppendTask, Refuse
  <2>3. ASSUME NEW t \in Tasks, CancelFuture(t) PROVE TypeOK'
    BY <2>3 DEF CancelFuture
  <2>4. ASSUME NEW w \in Workers, Top(w) \/ PopNothing(w) PROVE TypeOK'
    BY <2>4 DEF Top, PopNothing
  <2>5. ASSUME NEW w \in Workers, PopTask(w) PROVE TypeOK'
    <3>1. Head(taskQueue) \in Tasks /\ Tail(taskQueue) \in Seq(Tasks)
      BY <2>5 DEF PopTask
    <3> QED BY <2>5, <3>1 DEF PopTask
  <2>6. ASSUME NEW w \in Workers, CheckCancelled(w) PROVE TypeOK'
    BY <2>6 DEF CheckCancelled
  <2>7. ASSUME NEW w \in Workers, Invoke(w) PROVE TypeOK'
    BY <2>7 DEF Invoke
  <2>8. ASSUME NEW w \in Workers, Return(w) PROVE TypeOK'
    BY <2>8 DEF Return
  <2>9. ASSUME NEW w \in Workers, FindCallback(w) \/ FindNothing(w) PROVE TypeOK'
    BY <2>9 DEF FindCallback, FindNothing
  <2>10. ASSUME NEW w \in Workers, EndWait(w) \/ Expire(w) PROVE TypeOK'
    <3>1. CASE EndWait(w)
      BY <3>1 DEF EndWait
    <3>2. CASE Expire(w)
      BY <3>2 DEF Expire
    <3> QED BY <2>10, <3>1, <3>2
  <2>11. ASSUME NEW s \in Stoppers, Shutdown(s) \/ ShutdownReturns(s) PROVE TypeOK'
    BY <2>11 DEF Shutdown, ShutdownReturns
  <2>12. ASSUME NEW s \in Stoppers, Drain(s) PROVE TypeOK'
    <3>1. ElementsOf(taskQueue) \in SUBSET Tasks
      BY ElementOfSeq DEF ElementsOf
    <3>2. <<>> \in Seq(Tasks)
      OBVIOUS
    <3> QED BY <2>12, <3>1, <3>2 DEF Drain
  <2>13. ASSUME NEW s \in Stoppers, NEW t \in Tasks, CancelDrained(s, t) PROVE TypeOK'
    BY <2>13 DEF CancelDrained
  <2>14. CASE LoseContext
    BY <2>14 DEF LoseContext
  <2>15. CASE UNCHANGED vars
    BY <2>15 DEF vars
  <2> QED
    BY <2>1, <2>2, <2>3, <2>4, <2>5, <2>6, <2>7, <2>8, <2>9, <2>10, <2>11,
       <2>12, <2>13, <2>14, <2>15
    DEF Next, Worker, Stopper
<1> QED
  BY <1>1, <1>2, PTL DEF Spec

\* What a queue without duplicates holds once its head is gone, or once a task
\* that was not in it is at its end.
LEMMA QueueElements ==
    ASSUME NEW q \in Seq(Tasks), NoRepeats(q)
    PROVE  /\ q # <<>> =>
                /\ Head(q) \in ElementsOf(q)
                /\ ElementsOf(Tail(q)) = ElementsOf(q) \ {Head(q)}
                /\ NoRepeats(Tail(q))
           /\ \A t \in Tasks :
                /\ ElementsOf(Append(q, t)) = ElementsOf(q) \cup {t}
                /\ t \notin ElementsOf(q) => NoRepeats(Append(q, t))
<1>1. ASSUME q # <<>>
      PROVE  /\ Head(q) \in ElementsOf(q)
             /\ ElementsOf(Tail(q)) = ElementsOf(q) \ {Head(q)}
             /\ NoRepeats(Tail(q))
  <2>1. /\ Len(q) \in Nat \ {0} /\ Len(Tail(q)) = Len(q) - 1 /\ Head(q) = q[1]
        /\ \A i \in 1..Len(Tail(q)) : Tail(q)[i] = q[i + 1]
    BY <1>1
  <2>2. \A t \in ElementsOf(q) \ {Head(q)} : t \in ElementsOf(Tail(q))
    <3> SUFFICES ASSUME NEW i \in 1..Len(q), q[i] # q[1]
                 PROVE  q[i] \in ElementsOf(Tail(q))
      BY <2>1 DEF ElementsOf
    <3>1. i - 1 \in 1..Len(Tail(q)) /\ Tail(q)[i - 1] = q[i]
      BY <2>1
    <3> QED BY <3>1 DEF ElementsOf
  <2>3. \A t \in ElementsOf(Tail(q)) : t \in ElementsOf(q) \ {Head(q)}
    <3> SUFFICES ASSUME NEW i \in 1..Len(Tail(q))
                 PROVE  Tail(q)[i] \in ElementsOf(q) \ {Head(q)}
      BY DEF ElementsOf
    <3>1. i + 1 \in 1..Len(q) /\ i + 1 # 1 /\ 1 \in 1..Len(q) /\ Tail(q)[i] = q[i + 1]
      BY <2>1
    <3> QED BY <2>1, <3>1 DEF ElementsOf, NoRepeats
  <2>4. NoRepeats(Tail(q))
    BY <2>1 DEF NoRepeats
  <2>5. Head(q) \in ElementsOf(q)
    BY <2>1 DEF ElementsOf
  <2> QED BY <2>2, <2>3, <2>4, <2>5
<1>2. ASSUME NEW t \in Tasks
      PROVE  /\ ElementsOf(Append(q, t)) = ElementsOf(q) \cup {t}
             /\ t \notin ElementsOf(q) => NoRepeats(Append(q, t))
  <2>1. /\ Len(q) \in Nat /\ Len(Append(q, t)) = Len(q) + 1
        /\ Append(q, t)[Len(q) + 1] = t
        /\ \A i \in 1..Len(q) : Append(q, t)[i] = q[i]
    OBVIOUS
  <2> QED BY <2>1 DEF ElementsOf, NoRepeats
<1> QED BY <1>1, <1>2

\* A queued task is in one place: the inductive invariant behind the theorems
\* below.
LEMMA OnePlaceHolds == Spec => []OnePlace
<1> USE TasksAssumption
<1>1. Init => OnePlace
  BY DEF Init, OnePlace, QueueOnce, HandOnce, DrainedOnce, RunsCounted, ElementsOf,
         NoRepeats
<1>2. TypeOK /\ OnePlace /\ [Next]_vars => OnePlace'
  <2> SUFFICES ASSUME TypeOK, OnePlace, [Next]_vars PROVE OnePlace'
    OBVIOUS
  <2> USE DEF TypeOK, OnePlace, taskVars, workerVars, stopVars, Goto, Settle
  <2>1. ASSUME UNCHANGED taskQueue, QueueOnce,
               \A t \in ElementsOf(taskQueue) :
                   /\ taskPc'[t] = "queued" /\ runs'[t] = 0
                   /\ \A w \in Workers : hand'[w] # t
                   /\ \A s \in Stoppers : t \notin drained'[s]
        PROVE  QueueOnce'
    <3>1. ElementsOf(taskQueue)' = ElementsOf(taskQueue)
      BY <2>1 DEF ElementsOf
    <3>2. NoRepeats(taskQueue)'
      BY <2>1 DEF QueueOnce, NoRepeats
    <3> QED BY <2>1, <3>1, <3>2 DEF QueueOnce
  <2>2. ASSUME NEW t \in Tasks, CreateTask(t) \/ CancelFuture(t) PROVE OnePlace'
    <3>1. /\ UNCHANGED <<taskQueue, runs, wpc, hand, drained>>
          /\ \A u \in Tasks : taskPc[u] = "queued" <=> taskPc'[u] = "queued"
          /\ \A u \in Tasks : fut'[u] \in {"result", "exception"} => fut'[u] = fut[u]
          /\ \A u \in Tasks : taskPc'[u] \in {"new", "lock"}
                               => taskPc[u] \in {"new", "lock"} /\ fut'[u] = fut[u]
      BY <2>2 DEF CreateTask, CancelFuture, Refuse
    <3>2. \A u \in ElementsOf(taskQueue) : u \in Tasks
      BY ElementOfSeq DEF ElementsOf
    <3>3. QueueOnce'
      BY <2>1, <3>1, <3>2 DEF QueueOnce
    <3>4. HandOnce'
      BY <3>1 DEF HandOnce
    <3>5. DrainedOnce' /\ RunsCounted'
      BY <3>1 DEF DrainedOnce, RunsCounted
    <3> QED BY <3>3, <3>4, <3>5
  <2>3. ASSUME NEW t \in Tasks, AppendTask(t) PROVE OnePlace'
    <3>1. CASE stopped
      <4>1. /\ UNCHANGED <<taskQueue, runs, wpc, hand, drained>>
            /\ \A u \in Tasks : taskPc[u] = "queued" <=> taskPc'[u] = "queued"
            /\ \A u \in Tasks : fut'[u] \in {"result", "exception"} => fut'[u] = fut[u]
            /\ \A u \in Tasks : taskPc'[u] \in {"new", "lock"}
                                 => taskPc[u] \in {"new", "lock"} /\ fut'[u] = fut[u]
        BY <2>3, <3>1 DEF AppendTask, Refuse
      <4>2. \A u \in ElementsOf(taskQueue) : u \in Tasks
        BY ElementOfSeq DEF ElementsOf
      <4>3. QueueOnce'
        BY <2>1, <4>1, <4>2 DEF QueueOnce
      <4>4. HandOnce'
        BY <4>1 DEF HandOnce
      <4>5. DrainedOnce' /\ RunsCounted'
        BY <4>1 DEF DrainedOnce, RunsCounted
      <4> QED BY <4>3, <4>4, <4>5
    <3>2. CASE ~stopped
      <4>1. /\ taskPc[t] = "lock" /\ taskQueue' = Append(taskQueue, t)
            /\ taskPc' = [taskPc EXCEPT ![t] = "queued"]
            /\ UNCHANGED <<fut, runs, wpc, hand, drained>>
        BY <2>3, <3>2 DEF AppendTask
      <4>2. /\ t \notin ElementsOf(taskQueue) /\ runs[t] = 0
            /\ \A w \in Workers : hand[w] # t
            /\ \A s \in Stoppers : t \notin drained[s]
        BY <4>1 DEF QueueOnce, HandOnce, DrainedOnce, RunsCounted
      <4>3. /\ ElementsOf(taskQueue') = ElementsOf(taskQueue) \cup {t}
            /\ NoRepeats(taskQueue')
        BY <4>1, <4>2, QueueElements DEF QueueOnce
      <4>4. \A u \in ElementsOf(taskQueue) : u \in Tasks
        BY ElementOfSeq DEF ElementsOf
      <4>5. QueueOnce'
        BY <4>1, <4>2, <4>3, <4>4 DEF QueueOnce
      <4>6. HandOnce'
        BY <4>1, <4>2 DEF HandOnce
      <4>7. DrainedOnce' /\ RunsCounted'
        BY <4>1, <4>2 DEF DrainedOnce, RunsCounted
      <4> QED BY <4>5, <4>6, <4>7
    <3> QED BY <3>1, <3>2
  <2>4. ASSUME NEW w \in Workers, PopTask(w) PROVE OnePlace'
    <3> DEFINE t == Head(taskQueue)
    <3>1. /\ t \in ElementsOf(taskQueue) /\ t \in Tasks
          /\ ElementsOf(taskQueue') = ElementsOf(taskQueue) \ {t}
          /\ NoRepeats(taskQueue')
      BY <2>4, QueueElements DEF PopTask, QueueOnce
    <3>2. /\ hand' = [hand EXCEPT ![w] = t] /\ wpc' = [wpc EXCEPT ![w] = "task"]
          /\ UNCHANGED <<taskPc, fut, runs, drained>>
      BY <2>4 DEF PopTask
    <3>3. /\ taskPc[t] = "queued" /\ runs[t] = 0
          /\ \A v \in Workers : hand[v] # t
          /\ \A s \in Stoppers : t \notin drained[s]
      BY <3>1 DEF QueueOnce
    <3> HIDE DEF t
    <3>4. QueueOnce'
      BY <3>1, <3>2 DEF QueueOnce
    <3>5. HandOnce'
      BY <3>2, <3>3 DEF HandOnce
    <3>6. DrainedOnce' /\ RunsCounted'
      BY <3>2, <3>3 DEF DrainedOnce, RunsCounted
    <3> QED BY <3>4, <3>5, <3>6
  <2>5. ASSUME NEW w \in Workers, CheckCancelled(w) PROVE OnePlace'
    <3>1. /\ UNCHANGED <<taskPc, fut, taskQueue, runs, drained>>
          /\ wpc[w] = "task"
          /\ \/ /\ wpc' = [wpc EXCEPT ![w] = "begin"] /\ hand' = hand
             \/ /\ wpc' = [wpc EXCEPT ![w] = "top"]
                /\ hand' = [hand EXCEPT ![w] = None]
      BY <2>5 DEF CheckCancelled
    <3>2. \A v \in Workers : hand'[v] \in {hand[v], None}
      BY <3>1
    <3>3. \A u \in ElementsOf(taskQueue) : u \in Tasks
      BY ElementOfSeq DEF ElementsOf
    <3>4. QueueOnce'
      BY <2>1, <3>1, <3>2, <3>3 DEF QueueOnce
    <3>5. HandOnce'
      BY <3>1 DEF HandOnce
    <3>6. DrainedOnce' /\ RunsCounted'
      BY <3>1, <3>2 DEF DrainedOnce, RunsCounted
    <3> QED BY <3>4, <3>5, <3>6
  <2>6. ASSUME NEW w \in Workers, Invoke(w) PROVE OnePlace'
    <3>1. /\ UNCHANGED <<taskPc, fut, taskQueue, hand, drained>>
          /\ wpc[w] = "begin" /\ wpc' = [wpc EXCEPT ![w] = "running"]
          /\ runs' = [runs EXCEPT ![hand[w]] = @ + 1]
          /\ hand[w] \in Tasks
      BY <2>6 DEF Invoke
    <3>2. runs[hand[w]] = 0 /\ taskPc[hand[w]] = "queued"
      BY <3>1 DEF HandOnce
    <3>3. \A u \in Tasks : u # hand[w] => runs'[u] = runs[u]
      BY <3>1
    <3>4. runs'[hand[w]] = 1
      BY <3>1, <3>2
    <3>5. \A u \in ElementsOf(taskQueue) : u \in Tasks
      BY ElementOfSeq DEF ElementsOf
    <3>6. QueueOnce'
      BY <2>1, <3>1, <3>3, <3>5 DEF QueueOnce
    <3>7. HandOnce'
      BY <3>1, <3>3, <3>4 DEF HandOnce
    <3>8. DrainedOnce'
      BY <3>1, <3>3 DEF DrainedOnce
    <3>9. RunsCounted'
      BY <3>1, <3>2, <3>3, <3>4 DEF RunsCounted
    <3> QED BY <3>6, <3>7, <3>8, <3>9
  <2>7. ASSUME NEW w \in Workers, Return(w) PROVE OnePlace'
    <3>1. /\ UNCHANGED <<taskPc, taskQueue, runs, drained>>
          /\ wpc[w] = "running" /\ wpc' = [wpc EXCEPT ![w] = "top"]
          /\ hand' = [hand EXCEPT ![w] = None] /\ hand[w] \in Tasks
          /\ \A u \in Tasks : u # hand[w] => fut'[u] = fut[u]
      BY <2>7 DEF Return
    <3>2. runs[hand[w]] = 1 /\ taskPc[hand[w]] = "queued"
      BY <3>1 DEF HandOnce
    <3>3. \A u \in ElementsOf(taskQueue) : u \in Tasks
      BY ElementOfSeq DEF ElementsOf
    <3>4. QueueOnce'
      BY <2>1, <3>1, <3>3 DEF QueueOnce
    <3>5. HandOnce'
      BY <3>1 DEF HandOnce
    <3>6. DrainedOnce'
      BY <3>1 DEF DrainedOnce
    <3>7. RunsCounted'
      BY <3>1, <3>2 DEF RunsCounted
    <3> QED BY <3>4, <3>5, <3>6, <3>7
  <2>8. ASSUME NEW w \in Workers,
               \/ Top(w) \/ PopNothing(w) \/ FindCallback(w) \/ FindNothing(w)
               \/ EndWait(w) \/ Expire(w)
        PROVE  OnePlace'
    <3>1. /\ UNCHANGED <<taskPc, fut, taskQueue, runs, hand, drained>>
          /\ \A v \in Workers : wpc'[v] \in {"task", "begin", "running"}
                                   => wpc'[v] = wpc[v]
      BY <2>8 DEF Top, PopNothing, FindCallback, FindNothing, EndWait, Expire
    <3>2. QueueOnce'
      BY <2>1, <3>1 DEF QueueOnce
    <3>3. HandOnce'
      BY <3>1 DEF HandOnce
    <3>4. DrainedOnce' /\ RunsCounted'
      BY <3>1 DEF DrainedOnce, RunsCounted
    <3> QED BY <3>2, <3>3, <3>4
  <2>9. ASSUME NEW s \in Stoppers, Drain(s) PROVE OnePlace'
    <3>1. /\ drained' = [drained EXCEPT ![s] = ElementsOf(taskQueue)]
          /\ taskQueue' = <<>> /\ UNCHANGED <<taskPc, fut, runs, wpc, hand>>
      BY <2>9 DEF Drain
    <3>2. QueueOnce'
      BY <3>1 DEF QueueOnce, ElementsOf, NoRepeats
    <3>3. DrainedOnce'
      BY <3>1 DEF DrainedOnce, QueueOnce
    <3>4. HandOnce' /\ RunsCounted'
      BY <3>1 DEF HandOnce, RunsCounted
    <3> QED BY <3>2, <3>3, <3>4
  <2>10. ASSUME NEW s \in Stoppers, NEW t \in Tasks, CancelDrained(s, t) PROVE OnePlace'
    <3>1. /\ UNCHANGED <<taskPc, taskQueue, runs, wpc, hand, drained>>
          /\ \A u \in Tasks : fut'[u] \in {"result", "exception"} => fut'[u] = fut[u]
          /\ \A u \in Tasks : u # t => fut'[u] = fut[u]
          /\ t \in drained[s]
      BY <2>10 DEF CancelDrained
    <3>2. QueueOnce'
      BY <2>1, <3>1 DEF QueueOnce
    <3>3. HandOnce' /\ DrainedOnce'
      BY <3>1 DEF HandOnce, DrainedOnce
    <3>4. RunsCounted'
      BY <3>1 DEF RunsCounted, DrainedOnce
    <3> QED BY <3>2, <3>3, <3>4
  <2>11. CASE \/ \E s \in Stoppers : Shutdown(s) \/ ShutdownReturns(s)
              \/ LoseContext \/ UNCHANGED vars
    <3>1. UNCHANGED <<taskPc, fut, taskQueue, runs, wpc, hand, drained>>
      BY <2>11 DEF Shutdown, ShutdownReturns, LoseContext, vars
    <3>2. QueueOnce'
      BY <2>1, <3>1 DEF QueueOnce
    <3>3. HandOnce' /\ DrainedOnce' /\ RunsCounted'
      BY <3>1 DEF HandOnce, DrainedOnce, RunsCounted
    <3> QED BY <3>2, <3>3
  <2> QED
    BY <2>2, <2>3, <2>4, <2>5, <2>6, <2>7, <2>8, <2>9, <2>10, <2>11
    DEF Next, Worker, Stopper
<1> QED
  BY TypeCorrect, <1>1, <1>2, PTL DEF Spec

\* However many workers pop tasks while shutdown() drains the queue, no task is
\* invoked twice, or once it was withdrawn, and a future has an outcome of its
\* callback only if it ran.
THEOREM OnceHolds == Spec => []RunsOnce
<1>1. OnePlace => RunsOnce
  <2> SUFFICES ASSUME OnePlace, NEW t \in Tasks
               PROVE  /\ runs[t] <= IF Withdrawn(t) THEN 0 ELSE 1
                      /\ fut[t] \in {"result", "exception"} => runs[t] = 1
    BY DEF RunsOnce
  <2>1. runs[t] = 0 \/ runs[t] = 1
    BY DEF OnePlace, RunsCounted
  <2>2. Withdrawn(t) => runs[t] = 0
    BY DEF OnePlace, RunsCounted, DrainedOnce, Withdrawn
  <2> QED BY <2>1, <2>2 DEF OnePlace, RunsCounted
<1> QED
  BY OnePlaceHolds, <1>1, PTL

\* The outcome of a task's future is final.
THEOREM OutcomeFinal == Spec => OutcomeStays
<1>1. TypeOK /\ OnePlace /\ [Next]_vars
        => [\A t \in Tasks : fut[t] # "pending" => fut'[t] = fut[t]]_vars
  <2> SUFFICES ASSUME TypeOK, OnePlace, [Next]_vars, NEW t \in Tasks, fut[t] # "pending"
               PROVE  fut'[t] = fut[t]
    OBVIOUS
  <2> USE TasksAssumption DEF TypeOK, taskVars, Settle
  <2>1. ASSUME NEW u \in Tasks, CreateTask(u) PROVE fut'[t] = fut[t]
    BY <2>1 DEF CreateTask, Refuse, OnePlace, RunsCounted
  <2>2. ASSUME NEW u \in Tasks, AppendTask(u) \/ CancelFuture(u) PROVE fut'[t] = fut[t]
    BY <2>2 DEF AppendTask, CancelFuture, Refuse, OnePlace, RunsCounted
  <2>3. ASSUME NEW w \in Workers, Worker(w) \/ Expire(w) PROVE fut'[t] = fut[t]
    BY <2>3 DEF Worker, Top, PopTask, PopNothing, CheckCancelled, Invoke, Return,
                FindCallback, FindNothing, EndWait, Expire
  <2>4. ASSUME NEW s \in Stoppers, Shutdown(s) \/ Stopper(s) PROVE fut'[t] = fut[t]
    BY <2>4 DEF Shutdown, Stopper, Drain, CancelDrained, ShutdownReturns
  <2> QED BY <2>1, <2>2, <2>3, <2>4 DEF Next, LoseContext, vars
<1> QED
  BY TypeCorrect, OnePlaceHolds, <1>1, PTL DEF Spec, OutcomeStays
=============================================================================
