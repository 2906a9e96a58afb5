--------------------------- MODULE ExecutorTasks ---------------------------
(***************************************************************************)
(* Executor.create_task and its queue (lwrclpy/executors.py): threads that *)
(* create tasks, worker threads that pop and execute them between two      *)
(* looks at the nodes, calls of shutdown() that drain the queue, and the   *)
(* context going down.  What a task's Future promises is module Future;    *)
(* here it is its outcome.  The wake event only shortens a wait, which may *)
(* end at any time here; module NodeExecutor has it.                       *)
(***************************************************************************)
EXTENDS Naturals, Sequences

CONSTANTS Tasks,          \* calls of create_task
          Workers,        \* threads in _worker or spin
          Patient,        \* those that call spin_once() without a timeout
          Stoppers,       \* calls of shutdown()
          SpinThread,     \* the one at the end of MultiThreadedExecutor.spin
          MayLoseContext, \* the context may be shut down meanwhile
          None            \* no task

ASSUME TasksAssumption ==
    /\ Patient \subseteq Workers
    /\ SpinThread \subseteq Stoppers
    /\ MayLoseContext \in BOOLEAN
    /\ None \notin Tasks

VARIABLES
    taskPc,    \* taskPc[t]: where the call of create_task is
    fut,       \* fut[t]: the outcome of its Future
    taskQueue, \* Executor._task_queue
    runs,      \* runs[t]: how often the task's callback was invoked
    wpc,       \* wpc[w]: where worker w is
    hand,      \* hand[w]: the task it has popped
    expired,   \* workers whose time for looking at the nodes is over
    stopPc,    \* stopPc[s]: where the call of shutdown is
    drained,   \* drained[s]: tasks it has taken off the queue
    stopped,   \* Executor._stopped
    okay       \* ok(): the context is up

taskVars   == <<taskPc, fut, taskQueue, runs>>
workerVars == <<wpc, hand, expired>>
stopVars   == <<stopPc, drained, stopped, okay>>
vars == <<taskVars, workerVars, stopVars>>

ElementsOf(s) == {s[i] : i \in 1..Len(s)}
Leaving == stopped \/ ~okay

Init ==
    /\ taskPc = [t \in Tasks |-> "new"]
    /\ fut = [t \in Tasks |-> "pending"]
    /\ taskQueue = <<>>
    /\ runs = [t \in Tasks |-> 0]
    /\ wpc = [w \in Workers |-> "top"]
    /\ hand = [w \in Workers |-> None]
    /\ expired = {}
    /\ stopPc = [s \in Stoppers |-> "idle"]
    /\ drained = [s \in Stoppers |-> {}]
    /\ stopped = FALSE
    /\ okay = TRUE

-----------------------------------------------------------------------------
(* create_task, and the program cancelling the future it got                *)

Refuse(t) ==
    /\ taskPc' = [taskPc EXCEPT ![t] = "refused"]
    /\ fut' = [fut EXCEPT ![t] = "cancelled"]
    /\ taskQueue' = taskQueue

\* The first look at _stopped, outside the queue's lock.
CreateTask(t) ==
    /\ taskPc[t] = "new"
    /\ \/ stopped /\ Refuse(t)
       \/ /\ ~stopped
          /\ taskPc' = [taskPc EXCEPT ![t] = "lock"]
          /\ UNCHANGED <<fut, taskQueue>>
    /\ UNCHANGED <<runs, workerVars, stopVars>>

\* (faulty: no second look at _stopped under the lock)
AppendBlindly(t) ==
    /\ taskPc[t] = "lock"
    /\ taskPc' = [taskPc EXCEPT ![t] = "queued"]
    /\ taskQueue' = Append(taskQueue, t)
    /\ UNCHANGED <<fut, runs, workerVars, stopVars>>

\* The queue's lock: look at _stopped again, then append.
AppendTask(t) ==
    /\ taskPc[t] = "lock"
    /\ \/ stopped /\ Refuse(t)
       \/ /\ ~stopped
          /\ taskPc' = [taskPc EXCEPT ![t] = "queued"]
          /\ taskQueue' = Append(taskQueue, t)
          /\ fut' = fut
    /\ UNCHANGED <<runs, workerVars, stopVars>>

Settle(t, outcome) ==
    fut' = [fut EXCEPT ![t] = IF @ = "pending" THEN outcome ELSE @]

CancelFuture(t) ==
    /\ taskPc[t] = "queued" /\ fut[t] = "pending"
    /\ Settle(t, "cancelled")
    /\ UNCHANGED <<taskPc, taskQueue, runs, workerVars, stopVars>>

-----------------------------------------------------------------------------
(* Workers                                                                  *)

Goto(w, from, to) ==
    /\ wpc[w] = from
    /\ wpc' = [wpc EXCEPT ![w] = to]

\* while ok() and not self._is_stopped()
Top(w) ==
    /\ Goto(w, "top", IF Leaving THEN "exit" ELSE "pop")
    /\ expired' = expired \ {w}
    /\ UNCHANGED <<taskVars, hand, stopVars>>

\* (faulty: the head is read and not removed)
PeekTask(w) ==
    /\ taskQueue # <<>>
    /\ Goto(w, "pop", "task")
    /\ hand' = [hand EXCEPT ![w] = Head(taskQueue)]
    /\ UNCHANGED <<taskVars, expired, stopVars>>

\* _pop_executor_task
PopTask(w) ==
    /\ taskQueue # <<>>
    /\ Goto(w, "pop", "task")
    /\ hand' = [hand EXCEPT ![w] = Head(taskQueue)]
    /\ taskQueue' = Tail(taskQueue)
    /\ UNCHANGED <<taskPc, fut, runs, expired, stopVars>>

PopNothing(w) ==
    /\ taskQueue = <<>>
    /\ Goto(w, "pop", IF Leaving THEN "top" ELSE "scan")
    /\ UNCHANGED <<taskVars, hand, expired, stopVars>>

\* _execute_callback: the task of a cancelled future is passed over.
CheckCancelled(w) ==
    /\ wpc[w] = "task"
    /\ LET cancelled == fut[hand[w]] = "cancelled"
       IN /\ Goto(w, "task", IF cancelled THEN "top" ELSE "begin")
          /\ hand' = [hand EXCEPT ![w] = IF cancelled THEN None ELSE @]
    /\ UNCHANGED <<taskVars, expired, stopVars>>

\* _invoke_callback; the future may be cancelled since it was looked at.
Invoke(w) ==
    /\ Goto(w, "begin", "running")
    /\ runs' = [runs EXCEPT ![hand[w]] = @ + 1]
    /\ UNCHANGED <<taskPc, fut, taskQueue, hand, expired, stopVars>>

\* The callback returns or raises; a future done by then keeps its outcome.
Return(w) ==
    /\ Goto(w, "running", "top")
    /\ \E outcome \in {"result", "exception"} : Settle(hand[w], outcome)
    /\ hand' = [hand EXCEPT ![w] = None]
    /\ UNCHANGED <<taskPc, taskQueue, runs, expired, stopVars>>

\* _pop_any_callback: a callback of a node is found and executed,
FindCallback(w) ==
    /\ Goto(w, "scan", "top")
    /\ UNCHANGED <<taskVars, hand, expired, stopVars>>

\* or none is: leave when stopped or out of time, otherwise wait,
FindNothing(w) ==
    /\ Goto(w, "scan", IF Leaving \/ w \in expired THEN "top" ELSE "wait")
    /\ UNCHANGED <<taskVars, hand, expired, stopVars>>

\* until a wake or the cap of 50 ms, and look at the nodes again.
EndWait(w) ==
    /\ Goto(w, "wait", "scan")
    /\ UNCHANGED <<taskVars, hand, expired, stopVars>>

\* timeout_sec passes (10 ms in spin, 50 ms in _worker).
Expire(w) ==
    /\ w \notin Patient \cup expired
    /\ wpc[w] \in {"scan", "wait"}
    /\ expired' = expired \cup {w}
    /\ UNCHANGED <<taskVars, wpc, hand, stopVars>>

-----------------------------------------------------------------------------
(* shutdown()                                                               *)

\* MultiThreadedExecutor.spin calls it when it sees the executor stopped or
\* the context down; the program may call it at any time.
Shutdown(s) ==
    /\ stopPc[s] = "idle"
    /\ s \in SpinThread => Leaving
    /\ stopped' = TRUE
    /\ stopPc' = [stopPc EXCEPT ![s] = "drain"]
    /\ UNCHANGED <<taskVars, workerVars, drained, okay>>

Drain(s) ==
    /\ stopPc[s] = "drain"
    /\ drained' = [drained EXCEPT ![s] = ElementsOf(taskQueue)]
    /\ taskQueue' = <<>>
    /\ stopPc' = [stopPc EXCEPT ![s] = "cancel"]
    /\ UNCHANGED <<taskPc, fut, runs, workerVars, stopped, okay>>

\* if not future.done(): future.cancel()
CancelDrained(s, t) ==
    /\ stopPc[s] = "cancel"
    /\ t \in drained[s] /\ fut[t] = "pending"
    /\ Settle(t, "cancelled")
    /\ UNCHANGED <<taskPc, taskQueue, runs, workerVars, stopVars>>

ShutdownReturns(s) ==
    /\ stopPc[s] = "cancel"
    /\ \A t \in drained[s] : fut[t] # "pending"
    /\ stopPc' = [stopPc EXCEPT ![s] = "done"]
    /\ UNCHANGED <<taskVars, workerVars, drained, stopped, okay>>

LoseContext ==
    /\ MayLoseContext /\ okay
    /\ okay' = FALSE
    /\ UNCHANGED <<taskVars, workerVars, stopPc, drained, stopped>>

-----------------------------------------------------------------------------

Worker(w) ==
    \/ Top(w) \/ PopTask(w) \/ PopNothing(w)
    \/ CheckCancelled(w) \/ Invoke(w) \/ Return(w)
    \/ FindCallback(w) \/ FindNothing(w) \/ EndWait(w)

Stopper(s) ==
    Drain(s) \/ (\E t \in Tasks : CancelDrained(s, t)) \/ ShutdownReturns(s)

Next ==
    \/ \E t \in Tasks : CreateTask(t) \/ AppendTask(t) \/ CancelFuture(t)
    \/ \E w \in Workers : Worker(w) \/ Expire(w)
    \/ \E s \in Stoppers : Shutdown(s) \/ Stopper(s)
    \/ LoseContext

Spec == Init /\ [][Next]_vars

\* Threads go on (task callbacks return), time passes, and the spin thread
\* notices that it has to leave; the program need not stop or cancel anything.
Fairness ==
    /\ \A t \in Tasks : WF_vars(AppendTask(t))
    /\ \A w \in Workers : WF_vars(Worker(w)) /\ WF_vars(Expire(w))
    /\ \A s \in Stoppers : WF_vars(Stopper(s))
    /\ \A s \in SpinThread : WF_vars(Shutdown(s))

FairSpec == Spec /\ Fairness

-----------------------------------------------------------------------------
(* Properties                                                               *)

\* Every variable stays in its domain; a worker past the pop holds a task.
TypeOK ==
    /\ taskPc \in [Tasks -> {"new", "lock", "queued", "refused"}]
    /\ fut \in [Tasks -> {"pending", "result", "exception", "cancelled"}]
    /\ taskQueue \in Seq(Tasks)
    /\ runs \in [Tasks -> Nat]
    /\ wpc \in [Workers -> {"top", "pop", "task", "begin", "running", "scan",
                            "wait", "exit"}]
    /\ hand \in [Workers -> Tasks \cup {None}]
    /\ \A w \in Workers : wpc[w] \in {"task", "begin", "running"} <=> hand[w] # None
    /\ expired \subseteq Workers
    /\ stopPc \in [Stoppers -> {"idle", "drain", "cancel", "done"}]
    /\ drained \in [Stoppers -> SUBSET Tasks]
    /\ stopped \in BOOLEAN
    /\ okay \in BOOLEAN

\* The future was cancelled by create_task or by a shutdown() that drained the
\* queue.
Withdrawn(t) == taskPc[t] = "refused" \/ \E s \in Stoppers : t \in drained[s]

\* A task is invoked at most once, and never when it was withdrawn, though
\* workers pop tasks while the queue is being drained; its future has an outcome
\* of its callback only if it was invoked.
RunsOnce ==
    \A t \in Tasks :
        /\ runs[t] <= IF Withdrawn(t) THEN 0 ELSE 1
        /\ fut[t] \in {"result", "exception"} => runs[t] = 1

\* A future's outcome is final: a task cancelled while it runs stays cancelled.
OutcomeStays ==
    [][\A t \in Tasks : fut[t] # "pending" => fut'[t] = fut[t]]_vars

NoRepeats(q) == \A i, j \in 1..Len(q) : i # j => q[i] # q[j]

QueueOnce ==
    /\ NoRepeats(taskQueue)
    /\ \A t \in ElementsOf(taskQueue) :
          /\ taskPc[t] = "queued" /\ runs[t] = 0
          /\ \A w \in Workers : hand[w] # t
          /\ \A s \in Stoppers : t \notin drained[s]
HandOnce ==
    /\ \A v, w \in Workers : v # w /\ hand[v] # None => hand[v] # hand[w]
    /\ \A w \in Workers :
          /\ hand[w] # None => taskPc[hand[w]] = "queued"
          /\ wpc[w] \in {"task", "begin"} => runs[hand[w]] = 0
          /\ wpc[w] = "running" => runs[hand[w]] = 1
DrainedOnce ==
    \A s \in Stoppers : \A t \in drained[s] :
        /\ runs[t] = 0 /\ taskPc[t] = "queued"
        /\ \A w \in Workers : hand[w] # t
RunsCounted ==
    \A t \in Tasks :
        /\ taskPc[t] # "queued" => runs[t] = 0
        /\ taskPc[t] \in {"new", "lock"} => fut[t] = "pending"
        /\ fut[t] \in {"result", "exception"} => runs[t] = 1
        /\ runs[t] \in {0, 1}

\* Why a task runs once: a queued task is in one place, the queue, a worker's
\* hand, or the list of the one shutdown() that took it off the queue.
OnePlace == QueueOnce /\ HandOnce /\ DrainedOnce /\ RunsCounted

\* A task that was handed to the executor is neither executed nor cancelled yet.
TaskWaits == \E t \in Tasks : taskPc[t] = "queued" /\ fut[t] = "pending"
=============================================================================
