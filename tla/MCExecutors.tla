---------------------------- MODULE MCExecutors ----------------------------
(* The parts of lwrclpy/executors.py side by side for TLC: ExecutorTasks,    *)
(* Spinning, and a NodeExecutor with two workers, a timer in an exclusive    *)
(* group and a queue of one.  A behaviour is about one of them; the others   *)
(* stay in their first state.  Nothing is treated as symmetric: the run      *)
(* checks liveness, and the calls differ.                                    *)
EXTENDS ExecutorTasks, TLC

CONSTANTS until, other, Shared, MaxWork, NoEvent,
          timer, group, MaxCalls

VARIABLES part,
          \* Spinning
          job, pc, added, lists, event, seen, popped, ended, work, offered, done, up,
          \* NodeExecutor
          arrived, owner, enqPc, victim, queue, dropped, notified, registered, closed,
          executing, at, held, skipped, left, grp, woken, attached, over, finished,
          destroyPc, destroyLeft, destroyCur, destroyPend

spinVars == <<job, pc, added, lists, event, ended, seen, popped, work, offered, done, up>>
nodeVars ==
    <<arrived, owner, enqPc, victim, queue, dropped, notified, registered, closed,
      executing, at, held, skipped, left, grp, woken, attached, over, finished,
      destroyPc, destroyLeft, destroyCur, destroyPend>>
allVars == <<part, vars, spinVars, nodeVars>>

\* A call that waits for the future with an executor of its own beside each of
\* the others, and a thread that spins beside one whose executor is shared.
Call(k, shared, timed) == [kind |-> k, shared |-> shared, timed |-> timed]
Waits == Call("until", FALSE, FALSE)
OtherCalls ==
    {Call("spin", FALSE, FALSE), Call("spin", TRUE, FALSE),
     Call("once", FALSE, FALSE), Call("some", FALSE, TRUE)}
Pairs == {until :> Waits @@ other :> j : j \in OtherCalls} \cup
         {until :> Call("until", TRUE, TRUE) @@ other :> j :
             j \in {Call("spin", FALSE, FALSE), Call("ready", TRUE, FALSE)}}

Spinner == INSTANCE Spinning WITH
    Calls <- {until, other}, Jobs <- Pairs,
    hand <- popped, stopped <- ended, okay <- up

Node == INSTANCE NodeExecutor WITH
    Entities <- {timer}, Groups <- {group}, Exclusive <- {group}, Early <- {timer},
    GroupOf <- [e \in {timer} |-> group], MaxSize <- 1, DropNewest <- FALSE,
    Removable <- {}, MayDestroyNode <- TRUE, MayShutdown <- FALSE,
    wpc <- at, hand <- held, stopped <- over

ASSUME Spinner!SpinAssumption
ASSUME Node!NodeAssumption

AnyInit ==
    /\ part \in {"tasks", "spin", "node"}
    /\ Init /\ Spinner!Init /\ Node!Init
    /\ part = "spin" \/ job = until :> Waits @@ other :> Call("once", FALSE, FALSE)

StepOf(p) == part = p /\ part' = p

AnyNext ==
    \/ StepOf("tasks") /\ Next /\ UNCHANGED <<spinVars, nodeVars>>
    \/ StepOf("spin") /\ Spinner!Next /\ UNCHANGED <<vars, nodeVars>>
    \/ StepOf("node") /\ Node!Next /\ UNCHANGED <<vars, spinVars>>

\* The fairness of each part, while it is the one that was picked.
TasksFairness ==
    /\ \A t \in Tasks : WF_vars(part = "tasks" /\ AppendTask(t))
    /\ \A w \in Workers : /\ WF_vars(part = "tasks" /\ Worker(w))
                          /\ WF_vars(part = "tasks" /\ Expire(w))
    /\ \A s \in Stoppers : WF_vars(part = "tasks" /\ Stopper(s))
    /\ \A s \in SpinThread : WF_vars(part = "tasks" /\ Shutdown(s))
SpinFairness ==
    \A c \in {until, other} : WF_spinVars(part = "spin" /\ Spinner!CallStep(c))
NodeFairness ==
    /\ \A c \in 1..MaxCalls : WF_nodeVars(part = "node" /\ Node!Producer(c))
    /\ \A w \in Workers : WF_nodeVars(part = "node" /\ Node!Worker(w))
    /\ WF_nodeVars(part = "node" /\ Node!Destroyer)

AnyFairly ==
    /\ AnyInit /\ [][AnyNext]_allVars
    /\ TasksFairness /\ SpinFairness /\ NodeFairness

\* What an executor was given is not left lying: a task is executed or cancelled
\* (create_task, shutdown), a callback is taken while a thread spins, a call of
\* spin_until_future_complete returns, and the node's wake event is never that of
\* an executor which has let the node go (add_node, remove_node).
Lying == TaskWaits \/ Spinner!SomethingWaits
NothingLeftLying ==
    /\ Lying ~> ~Lying
    /\ []Spinner!EventOfMember

\* Every callback handed to the node is eventually run or reported dropped, with
\* two workers, a bounded queue and destroy_node (Node._enqueue_callback, the
\* workers, destroy_node).
EveryCallServed == Node!EveryCallServed
============================================================================
