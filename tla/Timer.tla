------------------------------- MODULE Timer -------------------------------
(***************************************************************************)
(* lwrclpy/timer.py: the timer's thread, the callbacks it hands to a node  *)
(* (or calls itself), the executor threads that run them, the node that    *)
(* may drop them, and user threads that cancel, reset and start the timer. *)
(* Time is abstracted to the order of events: the next period may be over  *)
(* at any moment.                                                          *)
(***************************************************************************)
EXTENDS Naturals

CONSTANTS Executors, \* threads that run queued callbacks
          Users,     \* threads that call start(), cancel() and reset()
          Ops,       \* what they call: a subset of {"start", "cancel", "reset"}
          MaxOps,    \* bound: how many such calls they make altogether
          Kinds,     \* the timers there may be: records of two flags, oneshot
                     \* (the timer fires once) and queued (enqueue_cb was given:
                     \* callbacks go to a node's queue)
          Droppable  \* the node's queue may refuse or evict them

ASSUME TimerAssumption ==
    /\ Executors \cap Users = {}
    /\ Ops \subseteq {"start", "cancel", "reset"}
    /\ MaxOps \in Nat
    /\ Kinds \subseteq [oneshot : BOOLEAN, queued : BOOLEAN]
    /\ Droppable \in BOOLEAN

VARIABLES
    tpc,       \* where the timer's thread is; "dead": there is none alive
    stop,      \* the event _stop
    signaled,  \* _stop was set while the thread waited for it
    canceled,  \* _canceled
    pending,   \* _callback_pending
    queued,    \* number of the timer's wrappers in the node's queue
    dropping,  \* number the node has dropped and not yet told the timer of
    xpc,       \* xpc[x]: where executor thread x is
    upc,       \* upc[u]: where user thread u is
    ops,       \* number of calls the users have made
    due,       \* started or reset, and neither fired nor canceled since
    wasCanceled, \* cancel() has been called
    kind       \* what was passed to create_timer()

timerVars == <<tpc, stop, signaled, canceled, pending, queued, dropping, xpc, upc,
          ops, due, wasCanceled, kind>>
threadVars == <<tpc, stop, signaled, canceled>>
queueVars  == <<queued, dropping>>

Alive == tpc # "dead"
Oneshot == kind.oneshot
Queued == kind.queued

\* The state after create_timer(): start() has run.
TimerInit ==
    /\ tpc = "top"
    /\ stop = FALSE
    /\ signaled = FALSE
    /\ canceled = FALSE
    /\ pending = FALSE
    /\ queued = 0
    /\ dropping = 0
    /\ xpc = [x \in Executors |-> "idle"]
    /\ upc = [u \in Users |-> "idle"]
    /\ ops = 0
    /\ due = TRUE
    /\ wasCanceled = FALSE
    /\ kind \in Kinds

\* _stop.set() wakes a thread that is inside _stop.wait() for good, even if the
\* event is cleared before it runs.
SetStop ==
    /\ stop' = TRUE
    /\ signaled' = (signaled \/ tpc = "sleep")

-----------------------------------------------------------------------------
(* _run, the timer's thread                                                 *)

TimerGoto(from, to) == tpc = from /\ tpc' = to

ThreadUnchanged == UNCHANGED <<canceled, xpc, upc, ops, wasCanceled, kind>>

\* The while condition, and a wait unless the next period is already over.
Loop ==
    /\ \/ stop /\ TimerGoto("top", "exiting")
       \/ ~stop /\ (TimerGoto("top", "sleep") \/ TimerGoto("top", "check"))
    /\ UNCHANGED <<stop, signaled, pending, queueVars, due>> /\ ThreadUnchanged

\* _stop.wait(sleep) returns TRUE ...
Interrupted ==
    /\ stop \/ signaled
    /\ TimerGoto("sleep", "exiting")
    /\ signaled' = FALSE
    /\ UNCHANGED <<stop, pending, queueVars, due>> /\ ThreadUnchanged

\* ... or the period is over.
PeriodOver ==
    /\ ~stop /\ ~signaled
    /\ TimerGoto("sleep", "check")
    /\ UNCHANGED <<stop, signaled, pending, queueVars, due>> /\ ThreadUnchanged

CheckStop ==
    /\ \/ /\ stop \/ Queued
          /\ TimerGoto("check", IF stop THEN "exiting" ELSE "mark")
          /\ due' = due
       \/ /\ ~stop /\ ~Queued
          /\ TimerGoto("check", "direct")
          /\ due' = FALSE
    /\ UNCHANGED <<stop, signaled, pending, queueVars>> /\ ThreadUnchanged

\* (faulty: the pending flag is not looked at)
MarkAlways ==
    /\ TimerGoto("mark", "enqueue")
    /\ pending' = TRUE
    /\ due' = FALSE
    /\ UNCHANGED <<stop, signaled, queueVars>> /\ ThreadUnchanged

\* _mark_callback_pending; a period with a callback outstanding is skipped.
MarkPending ==
    /\ TimerGoto("mark", IF pending THEN "finally" ELSE "enqueue")
    /\ pending' = TRUE
    /\ due' = (due /\ pending)
    /\ UNCHANGED <<stop, signaled, queueVars>> /\ ThreadUnchanged

EnqueueWrapper ==
    /\ TimerGoto("enqueue", "finally")
    /\ queued' = queued + 1
    /\ UNCHANGED <<stop, signaled, pending, dropping, due>> /\ ThreadUnchanged

\* self._callback(), called in the timer's own thread, returns.
DirectReturns ==
    /\ TimerGoto("direct", "finally")
    /\ UNCHANGED <<stop, signaled, pending, queueVars, due>> /\ ThreadUnchanged

\* (faulty: a oneshot timer goes on)
FinallyGoesOn ==
    /\ TimerGoto("finally", "top")
    /\ UNCHANGED <<stop, signaled, pending, queueVars, due>> /\ ThreadUnchanged

\* The finally clause, reached from the continue statement too.
Finally ==
    /\ TimerGoto("finally", "top")
    /\ IF Oneshot THEN SetStop ELSE UNCHANGED <<stop, signaled>>
    /\ UNCHANGED <<pending, queueVars, due>> /\ ThreadUnchanged

\* The thread has left its loop and is still alive for a moment.
Exit ==
    /\ TimerGoto("exiting", "dead")
    /\ UNCHANGED <<stop, signaled, pending, queueVars, due>> /\ ThreadUnchanged

-----------------------------------------------------------------------------
(* The node and its executor                                                *)

NodeUnchanged == UNCHANGED <<threadVars, upc, ops, due, wasCanceled, kind>>

TakeWrapper(x) ==
    /\ xpc[x] = "idle" /\ queued > 0
    /\ queued' = queued - 1
    /\ xpc' = [xpc EXCEPT ![x] = "check"]
    /\ UNCHANGED <<pending, dropping>> /\ NodeUnchanged

\* _run_queued_callback, its lock section
CheckCanceled(x) ==
    /\ xpc[x] = "check"
    /\ xpc' = [xpc EXCEPT ![x] = IF canceled THEN "clear" ELSE "calling"]
    /\ UNCHANGED <<pending, queueVars>> /\ NodeUnchanged

CallbackReturns(x) ==
    /\ xpc[x] = "calling"
    /\ xpc' = [xpc EXCEPT ![x] = "clear"]
    /\ UNCHANGED <<pending, queueVars>> /\ NodeUnchanged

ClearPending(x) ==
    /\ xpc[x] = "clear"
    /\ pending' = FALSE
    /\ xpc' = [xpc EXCEPT ![x] = "idle"]
    /\ UNCHANGED queueVars /\ NodeUnchanged

\* The node refuses or evicts a wrapper and calls its hook afterwards.
Drop ==
    /\ Droppable /\ queued > 0
    /\ queued' = queued - 1
    /\ dropping' = dropping + 1
    /\ UNCHANGED <<pending, xpc>> /\ NodeUnchanged

\* (faulty: the hook does nothing)
IgnoreDrop ==
    /\ dropping > 0
    /\ dropping' = dropping - 1
    /\ UNCHANGED <<pending, queued, xpc>> /\ NodeUnchanged

OnDropped ==
    /\ dropping > 0
    /\ dropping' = dropping - 1
    /\ pending' = FALSE
    /\ UNCHANGED <<queued, xpc>> /\ NodeUnchanged

-----------------------------------------------------------------------------
(* start, cancel, reset                                                     *)

Begin(u, op, next) ==
    /\ upc[u] = "idle" /\ op \in Ops /\ ops < MaxOps
    /\ ops' = ops + 1 /\ kind' = kind
    /\ wasCanceled' = (wasCanceled \/ op = "cancel")
    /\ upc' = [upc EXCEPT ![u] = next]

Revive ==
    /\ canceled' = FALSE
    /\ stop' = FALSE
    /\ due' = TRUE
    /\ tpc' = IF Alive THEN tpc ELSE "top"
    /\ signaled' = (signaled /\ Alive)

\* start() does nothing while the thread is alive.
Start(u) ==
    /\ Begin(u, "start", "idle")
    /\ IF Alive THEN UNCHANGED <<threadVars, due>> ELSE Revive
    /\ UNCHANGED <<pending, queueVars, xpc>>

Cancel(u) ==
    /\ Begin(u, "cancel", "clear")
    /\ canceled' = TRUE
    /\ SetStop
    /\ due' = FALSE
    /\ UNCHANGED <<tpc, pending, queueVars, xpc>>

CancelClears(u) ==
    /\ upc[u] = "clear"
    /\ pending' = FALSE
    /\ upc' = [upc EXCEPT ![u] = "join"]
    /\ UNCHANGED <<threadVars, queueVars, xpc, ops, due, wasCanceled, kind>>

\* thr.join(timeout=1); the timeout passes if the thread is inside a callback
\* (or if the thread cancels itself, and does not join).
Join(u) ==
    /\ upc[u] = "join"
    /\ ~Alive \/ tpc = "direct"
    /\ upc' = [upc EXCEPT ![u] = "idle"]
    /\ UNCHANGED <<threadVars, pending, queueVars, xpc, ops, due, wasCanceled, kind>>

Reset(u) ==
    /\ Begin(u, "reset", IF Alive THEN "idle" ELSE "restarted")
    /\ Revive
    /\ UNCHANGED <<pending, queueVars, xpc>>

\* if restart: self._clear_callback_pending(), after the lock
ResetClears(u) ==
    /\ upc[u] = "restarted"
    /\ pending' = FALSE
    /\ upc' = [upc EXCEPT ![u] = "idle"]
    /\ UNCHANGED <<threadVars, queueVars, xpc, ops, due, wasCanceled, kind>>

-----------------------------------------------------------------------------

Thread ==
    \/ Loop \/ Interrupted \/ PeriodOver \/ CheckStop
    \/ MarkPending \/ EnqueueWrapper \/ DirectReturns \/ Finally \/ Exit

Executor(x) ==
    TakeWrapper(x) \/ CheckCanceled(x) \/ CallbackReturns(x) \/ ClearPending(x)

User(u) == CancelClears(u) \/ Join(u) \/ ResetClears(u)

TimerNext ==
    \/ Thread
    \/ \E x \in Executors : Executor(x)
    \/ Drop \/ OnDropped
    \/ \E u \in Users : Start(u) \/ Cancel(u) \/ Reset(u) \/ User(u)

TimerSpec == TimerInit /\ [][TimerNext]_timerVars

\* The threads go on, periods pass, callbacks return, and the node calls the
\* hook of what it drops; nobody has to cancel, reset, start or drop.
TimerFairness ==
    /\ WF_timerVars(Thread)
    /\ \A x \in Executors : WF_timerVars(Executor(x))
    /\ WF_timerVars(OnDropped)
    /\ \A u \in Users : WF_timerVars(User(u))

TimerFairSpec == TimerSpec /\ TimerFairness

-----------------------------------------------------------------------------
(* Properties                                                               *)

FlagsTypeOK ==
    /\ stop \in BOOLEAN /\ signaled \in BOOLEAN /\ canceled \in BOOLEAN
    /\ pending \in BOOLEAN /\ due \in BOOLEAN /\ wasCanceled \in BOOLEAN
    /\ kind \in Kinds

PlacesTypeOK ==
    /\ tpc \in {"top", "sleep", "check", "mark", "enqueue", "direct", "finally",
                "exiting", "dead"}
    /\ xpc \in [Executors -> {"idle", "check", "calling", "clear"}]
    /\ upc \in [Users -> {"idle", "clear", "join", "restarted"}]
    /\ queued \in Nat /\ dropping \in Nat /\ ops \in Nat

\* Every variable stays in its domain, and only a thread inside _stop.wait()
\* has been interrupted.
TimerTypeOK ==
    /\ FlagsTypeOK
    /\ PlacesTypeOK
    /\ signaled => tpc = "sleep"

Busy == {x \in Executors : xpc[x] # "idle"}

Undisturbed == ~Oneshot /\ ~wasCanceled

\* At most one callback of a repeating timer is outstanding (the comment in
\* _run), in the node's queue, being dropped, or with an executor thread, as
\* long as nobody has canceled it; and the pending flag is set exactly while one
\* is, or is about to be enqueued, so that no firing is skipped for nothing.
OneOutstanding ==
    Undisturbed =>
        /\ queued + dropping <= 1
        /\ queued + dropping = 1 => Busy = {}
        /\ \A x, y \in Busy : x = y
        /\ pending <=> tpc = "enqueue" \/ queued + dropping > 0 \/ Busy # {}

\* A repeating timer fires again and again unless it is canceled, though the
\* node may drop its callbacks, and fires again once a canceled one is reset.
\* (A timer that calls its callback itself may be lost in cancel() and reset():
\* cancel() does not wait for a thread that is inside the callback.)
KeepsFiring ==
    []<>(\/ tpc \in {"enqueue", "direct"}
         \/ canceled \/ Oneshot
         \/ wasCanceled /\ ~Queued)

Fires == tpc # tpc' /\ tpc' \in {"enqueue", "direct"}

\* A oneshot timer that nobody has canceled fires once for each time it is
\* started or reset.
OneshotFiresOnce == [][Oneshot /\ ~wasCanceled /\ Fires => due]_timerVars
=============================================================================
