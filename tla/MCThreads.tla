------------------------------ MODULE MCThreads ------------------------------
(* The small thread-safe parts of lwrclpy side by side: a Timer, a Future, a *)
(* GuardCondition, a CallbackQueue, an AsyncRunner, a Clock, calls that wait *)
(* for a server, and the clients of a service.  They share no state; a       *)
(* behaviour picks one of them and leaves the others in their first state.   *)
EXTENDS Timer, Future, GuardCondition, Clocks, ClientService

CONSTANTS Producers, Closers, MaxItems,
          Runners, Stoppers, MaxLoops,
          g1, g2, Waits, Unlimited, MaxLooks,  \* Readiness
          v1, v2, v3, v4, m1, m2               \* ClientService

VARIABLES part,
          limit, queue, offered, closed, lock, qpc, item, consumer,
          current, state, holder, apc, mine, coroutine, doomed,
          matched, steady, gone, wpc, at, looks

mailVars == <<limit, queue, offered, closed, lock, qpc, item, consumer>>
asyncVars == <<current, state, holder, apc, mine, coroutine, doomed>>
readyVars == <<matched, steady, gone, wpc, at, looks>>
allVars ==
    <<part, timerVars, futureVars, guardVars, mailVars, asyncVars, clockVars, readyVars, vars>>

AllKinds == [oneshot : BOOLEAN, queued : BOOLEAN]
AnyLimit == {[bound |-> 0, newest |-> FALSE], [bound |-> 1, newest |-> FALSE],
             [bound |-> 2, newest |-> FALSE], [bound |-> 1, newest |-> TRUE]}

Queue == INSTANCE CallbackQueue WITH Limits <- AnyLimit
Async == INSTANCE AsyncRunner
Server == INSTANCE Readiness WITH Looked <- <<g1, g2>>

CallsOf == [c \in Calls |-> IF c = v4 THEN m2 ELSE m1]

ASSUME GuardAssumption
ASSUME Server!ReadinessAssumption

Parts == {"timer", "future", "guard", "queue", "async", "clock", "server",
          "one client", "two clients"}

PartsInit ==
    /\ part \in Parts
    /\ TimerInit /\ FutureInit /\ GuardInit /\ Queue!Init /\ Async!Init /\ ClockInit
    /\ Server!Init /\ Init
    /\ part = "timer" \/ kind = [oneshot |-> TRUE, queued |-> FALSE]
    /\ part = "queue" \/ limit = [bound |-> 0, newest |-> FALSE]
    /\ part = "clock" \/ ros
    /\ part = "server" \/ \A w \in Waits : looks[w] = MaxLooks

StepOf(p) == part = p /\ part' = p

\* Three calls on one client, one of them blocking and one that the program may
\* cancel, after the other client was destroyed; or a call on each of the two.
OneClient == Next /\ m2 \in destroyed' /\ callPc'[v4] = "new"
TwoClients ==
    Next /\ m2 \notin destroyed' /\ callPc'[v2] = "new" /\ callPc'[v3] = "new"

PartsNext ==
    \/ /\ StepOf("timer") /\ TimerNext
       /\ UNCHANGED <<futureVars, guardVars, mailVars, asyncVars, clockVars, readyVars, vars>>
    \/ /\ StepOf("future") /\ FutureNext
       /\ UNCHANGED <<timerVars, guardVars, mailVars, asyncVars, clockVars, readyVars, vars>>
    \/ /\ StepOf("guard") /\ GuardNext
       /\ UNCHANGED <<timerVars, futureVars, mailVars, asyncVars, clockVars, readyVars, vars>>
    \/ /\ StepOf("queue") /\ Queue!Next
       /\ UNCHANGED <<timerVars, futureVars, guardVars, asyncVars, clockVars, readyVars, vars>>
    \/ /\ StepOf("async") /\ Async!Next
       /\ UNCHANGED <<timerVars, futureVars, guardVars, mailVars, clockVars, readyVars, vars>>
    \/ /\ StepOf("clock") /\ ClockNext
       /\ UNCHANGED <<timerVars, futureVars, guardVars, mailVars, asyncVars, readyVars, vars>>
    \/ /\ StepOf("server") /\ Server!Next
       /\ UNCHANGED <<timerVars, futureVars, guardVars, mailVars, asyncVars, clockVars, vars>>
    \/ /\ \/ StepOf("one client") /\ OneClient
          \/ StepOf("two clients") /\ TwoClients
       /\ UNCHANGED <<timerVars, futureVars, guardVars, mailVars, asyncVars, clockVars, readyVars>>

\* The fairness of each part, while it is the one that was picked.
TimerPartFairness ==
    /\ WF_timerVars(part = "timer" /\ Thread)
    /\ \A x \in Executors : WF_timerVars(part = "timer" /\ Executor(x))
    /\ WF_timerVars(part = "timer" /\ OnDropped)
    /\ \A u \in Users : WF_timerVars(part = "timer" /\ User(u))

FuturePartFairness ==
    /\ \A t \in Completers : WF_futureVars(part = "future" /\ Completer(t))
    /\ \A l \in Listeners : WF_futureVars(part = "future" /\ CallNow(l))
    /\ \A a \in Awaiters : WF_futureVars(part = "future" /\ Awaiter(a))

GuardPartFairness ==
    /\ \A t \in Triggers : WF_guardVars(part = "guard" /\ EnqueueTrigger(t))
    /\ \A x \in GuardExecutors : WF_guardVars(part = "guard" /\ GuardExecutor(x))
    /\ WF_guardVars(part = "guard" /\ OnTriggerDropped)

QueuePartFairness ==
    /\ WF_mailVars(part = "queue" /\ (Queue!Get \/ Queue!Return))
    /\ \A c \in Producers \cup Closers : WF_mailVars(part = "queue" /\ Queue!LockedStep(c))

AsyncPartFairness ==
    /\ \A t \in Runners : WF_asyncVars(part = "async" /\ Async!RunStep(t))
    /\ \A l \in 1..MaxLoops :
         /\ WF_asyncVars(part = "async" /\ Async!LoopStep(l))
         /\ \A t \in Runners : WF_asyncVars(part = "async" /\ Async!RunCoroutine(l, t))
    /\ \A s \in Stoppers : WF_asyncVars(part = "async" /\ (Async!StopLoop(s) \/ Async!CloseLoop(s)))

ClockPartFairness ==
    \A s \in Sleepers : WF_clockVars(part = "clock" /\ SleeperStep(s))

ServerPartFairness ==
    \A w \in Waits : WF_readyVars(part = "server" /\ Server!WaitStep(w))

ClientPart == part \in {"one client", "two clients"}
ClientPartFairness ==
    /\ \A c \in Calls : WF_vars(ClientPart /\ CallStep(c))
    /\ \A k \in Clients : WF_vars(ClientPart /\ ClientStep(k))
    /\ WF_vars(ClientPart /\ ServiceStep)

PartsFairly ==
    /\ PartsInit /\ [][PartsNext]_allVars
    /\ TimerPartFairness /\ FuturePartFairness /\ GuardPartFairness
    /\ QueuePartFairness /\ AsyncPartFairness /\ ClockPartFairness
    /\ ServerPartFairness /\ ClientPartFairness

\* Whoever waits is answered in the end: a listener and a coroutine of a future
\* that is done, a thread that triggered a guard condition, the consumer of a
\* queue that is closed, a caller of run_coroutine, a sleeper when its clock has
\* reached the time or the context is shut down, a call that waits for a server
\* when its limit or the server comes, in which case it is right about it
\* (Future._run_callbacks, GuardCondition.trigger, CallbackQueue.close,
\* _AsyncRunner.run, sleep_until, wait_for_service, wait_for_server).
NobodyWaitsForEver ==
    /\ EveryListenerHears
    /\ EveryTriggerHeard
    /\ Queue!ConsumerEnds
    /\ Async!RunReturns
    /\ SleepEnds
    /\ Server!WaitsReturn
    /\ []Server!ReadyMeansMatched
=============================================================================
