---------------------------- MODULE ThreadsProofs ----------------------------
(* Theorems of Timer, for any number of executor and user threads: its type   *)
(* invariant, one outstanding callback for a repeating timer that nobody      *)
(* cancels, and one firing per start or reset for a oneshot timer.            *)
(*                                                                            *)
(* Theorems of Future, for any threads and callbacks: a callback is called at *)
(* most once, one reported as removed never, and the outcome is final.        *)
(*                                                                            *)
(* A theorem of GuardCondition, for any number of threads that trigger and    *)
(* any number of executors: its callback is underway once.                    *)
(*                                                                            *)
(* A theorem of Clocks, for any setters, callbacks and times: a jump callback *)
(* is told every jump of the simulated time, once and as it was made.         *)
EXTENDS Timer, Future, GuardCondition, Clocks, TLAPS


-----------------------------------------------------------------------------
(* Timer                                                                     *)

\* The type invariant of the timer, its thread and the threads that use it.
THEOREM TimerTypeCorrect == TimerSpec => []TimerTypeOK
<1> USE TimerAssumption
<1>1. TimerInit => TimerTypeOK
  <2>1. TimerInit => FlagsTypeOK
    BY DEF TimerInit, FlagsTypeOK
  <2>2. TimerInit => PlacesTypeOK
    BY DEF TimerInit, PlacesTypeOK
  <2> QED BY <2>1, <2>2 DEF TimerInit, TimerTypeOK
<1>2. TimerTypeOK /\ [TimerNext]_timerVars => TimerTypeOK'
  <2> SUFFICES ASSUME TimerTypeOK, [TimerNext]_timerVars PROVE TimerTypeOK'
    OBVIOUS
  <2> USE DEF TimerTypeOK, threadVars, queueVars, TimerGoto, ThreadUnchanged, NodeUnchanged,
              SetStop, Begin, Revive, Alive, Oneshot, Queued
  <2>1. PlacesTypeOK'
    <3> USE DEF PlacesTypeOK
    <3>1. ASSUME Thread PROVE PlacesTypeOK'
      BY <3>1 DEF Thread, Loop, Interrupted, PeriodOver, CheckStop, MarkPending,
                  EnqueueWrapper, DirectReturns, Finally, Exit
    <3>2. ASSUME NEW x \in Executors, Executor(x) PROVE PlacesTypeOK'
      BY <3>2 DEF Executor, TakeWrapper, CheckCanceled, CallbackReturns, ClearPending
    <3>3. ASSUME Drop \/ OnDropped PROVE PlacesTypeOK'
      BY <3>3 DEF Drop, OnDropped
    <3>4. ASSUME NEW u \in Users, Start(u) \/ Cancel(u) \/ Reset(u) PROVE PlacesTypeOK'
      BY <3>4 DEF Start, Cancel, Reset
    <3>5. ASSUME NEW u \in Users, User(u) PROVE PlacesTypeOK'
      BY <3>5 DEF User, CancelClears, Join, ResetClears
    <3> QED BY <3>1, <3>2, <3>3, <3>4, <3>5 DEF TimerNext, timerVars
  <2>2. FlagsTypeOK'
    <3> USE DEF FlagsTypeOK
    <3>1. ASSUME Thread PROVE FlagsTypeOK'
      BY <3>1 DEF Thread, Loop, Interrupted, PeriodOver, CheckStop, MarkPending,
                  EnqueueWrapper, DirectReturns, Finally, Exit
    <3>2. ASSUME NEW x \in Executors, Executor(x) PROVE FlagsTypeOK'
      BY <3>2 DEF Executor, TakeWrapper, CheckCanceled, CallbackReturns, ClearPending
    <3>3. ASSUME Drop \/ OnDropped PROVE FlagsTypeOK'
      BY <3>3 DEF Drop, OnDropped
    <3>4. ASSUME NEW u \in Users, Start(u) \/ Cancel(u) \/ Reset(u) PROVE FlagsTypeOK'
      BY <3>4 DEF Start, Cancel, Reset
    <3>5. ASSUME NEW u \in Users, User(u) PROVE FlagsTypeOK'
      BY <3>5 DEF User, CancelClears, Join, ResetClears
    <3> QED BY <3>1, <3>2, <3>3, <3>4, <3>5 DEF TimerNext, timerVars
  <2>3. signaled' => tpc' = "sleep"
    <3>1. ASSUME Thread PROVE signaled' => tpc' = "sleep"
      BY <3>1 DEF Thread, Loop, Interrupted, PeriodOver, CheckStop, MarkPending,
                  EnqueueWrapper, DirectReturns, Finally, Exit
    <3>2. ASSUME NEW x \in Executors, Executor(x) PROVE signaled' => tpc' = "sleep"
      BY <3>2 DEF Executor, TakeWrapper, CheckCanceled, CallbackReturns, ClearPending
    <3>3. ASSUME Drop \/ OnDropped PROVE signaled' => tpc' = "sleep"
      BY <3>3 DEF Drop, OnDropped
    <3>4. ASSUME NEW u \in Users, Start(u) \/ Cancel(u) \/ Reset(u)
          PROVE  signaled' => tpc' = "sleep"
      BY <3>4 DEF Start, Cancel, Reset
    <3>5. ASSUME NEW u \in Users, User(u) PROVE signaled' => tpc' = "sleep"
      BY <3>5 DEF User, CancelClears, Join, ResetClears
    <3> QED BY <3>1, <3>2, <3>3, <3>4, <3>5 DEF TimerNext, timerVars
  <2> QED BY <2>1, <2>2, <2>3
<1> QED
  BY <1>1, <1>2, PTL DEF TimerSpec

\* Without cancel(), nothing stops the thread of a repeating timer, and nobody
\* clears the pending flag but the one who was handed the wrapper.
Running ==
  Undisturbed =>
    /\ ~stop /\ ~signaled /\ tpc \notin {"exiting", "dead"}
    /\ \A u \in Users : upc[u] = "idle"

\* One token: the pending flag goes from the thread to the queue, from there to
\* an executor thread or to the node's drop hook.
Token ==
    /\ Undisturbed /\ tpc = "enqueue" => queued + dropping = 0 /\ Busy = {}
    /\ OneOutstanding

\* Nothing stops the thread of such a timer.
LEMMA RunningHolds ==
    TimerSpec => []Running
<1>1. TimerInit => Running
  BY DEF TimerInit, Running, Undisturbed
<1>2. TimerTypeOK /\ Running /\ [TimerNext]_timerVars => Running'
  <2> SUFFICES ASSUME TimerTypeOK, Running, [TimerNext]_timerVars PROVE Running'
    OBVIOUS
  <2> USE DEF TimerTypeOK, PlacesTypeOK, FlagsTypeOK, Running, Undisturbed, threadVars,
              queueVars, TimerGoto, ThreadUnchanged, NodeUnchanged, SetStop, Begin, Revive, Alive, Oneshot, Queued
  <2>1. ASSUME Thread PROVE Running'
    BY <2>1 DEF Thread, Loop, Interrupted, PeriodOver, CheckStop, MarkPending,
                EnqueueWrapper, DirectReturns, Finally, Exit
  <2>2. ASSUME NEW x \in Executors, Executor(x) PROVE Running'
    BY <2>2 DEF Executor, TakeWrapper, CheckCanceled, CallbackReturns, ClearPending
  <2>3. ASSUME Drop \/ OnDropped PROVE Running'
    BY <2>3 DEF Drop, OnDropped
  <2>4. ASSUME NEW u \in Users, Start(u) \/ Cancel(u) \/ Reset(u) PROVE Running'
    BY <2>4 DEF Start, Cancel, Reset
  <2>5. ASSUME NEW u \in Users, User(u) PROVE Running'
    BY <2>5 DEF User, CancelClears, Join, ResetClears
  <2>6. CASE UNCHANGED timerVars
    BY <2>6 DEF timerVars
  <2> QED
    BY <2>1, <2>2, <2>3, <2>4, <2>5, <2>6 DEF TimerNext
<1> QED
  BY TimerTypeCorrect, <1>1, <1>2, PTL DEF TimerSpec

\* The token is kept: the inductive invariant behind the next theorem.
LEMMA TokenHolds ==
    TimerSpec => []Token
<1> USE DEF Token, OneOutstanding, Busy, Undisturbed, Oneshot
<1>1. TimerInit => Token
  BY DEF TimerInit
<1>2. TimerTypeOK /\ Running /\ Token /\ [TimerNext]_timerVars => Token'
  <2> SUFFICES ASSUME TimerTypeOK, Running, Token, [TimerNext]_timerVars PROVE Token'
    OBVIOUS
  <2> USE DEF TimerTypeOK, PlacesTypeOK, FlagsTypeOK, threadVars, queueVars, TimerGoto,
              ThreadUnchanged, NodeUnchanged
  <2>1. ASSUME Loop \/ Interrupted \/ PeriodOver \/ CheckStop \/ DirectReturns
               \/ Finally \/ Exit
        PROVE  Token'
    <3>1. /\ UNCHANGED <<pending, queued, dropping, xpc, wasCanceled, kind>>
          /\ tpc # "enqueue" /\ tpc' # "enqueue"
      BY <2>1 DEF Loop, Interrupted, PeriodOver, CheckStop, DirectReturns, Finally,
                  Exit
    <3> QED BY <3>1
  <2>2. ASSUME MarkPending PROVE Token'
    BY <2>2 DEF MarkPending
  <2>3. ASSUME EnqueueWrapper PROVE Token'
    BY <2>3 DEF EnqueueWrapper
  <2>4. ASSUME NEW x \in Executors, TakeWrapper(x) PROVE Token'
    BY <2>4 DEF TakeWrapper
  <2>5. ASSUME NEW x \in Executors, CheckCanceled(x) \/ CallbackReturns(x) PROVE Token'
    <3>1. /\ UNCHANGED <<tpc, pending, queued, dropping, wasCanceled, kind>>
          /\ \A y \in Executors : xpc'[y] # "idle" <=> xpc[y] # "idle"
      BY <2>5 DEF CheckCanceled, CallbackReturns
    <3> QED BY <3>1
  <2>6. ASSUME NEW x \in Executors, ClearPending(x) PROVE Token'
    BY <2>6 DEF ClearPending
  <2>7. ASSUME Drop PROVE Token'
    BY <2>7 DEF Drop
  <2>8. ASSUME OnDropped PROVE Token'
    BY <2>8 DEF OnDropped
  <2>9. ASSUME NEW u \in Users, Start(u) \/ Cancel(u) \/ Reset(u) PROVE Token'
    <3>1. Undisturbed' => /\ UNCHANGED <<tpc, pending, queued, dropping, xpc>>
                          /\ Undisturbed
      BY <2>9 DEF Start, Cancel, Reset, Begin, Revive, Alive, Running
    <3> QED BY <3>1
  <2>10. ASSUME NEW u \in Users, User(u) PROVE Token'
    BY <2>10 DEF User, CancelClears, Join, ResetClears, Running
  <2>11. CASE UNCHANGED timerVars
    BY <2>11 DEF timerVars
  <2> QED
    BY <2>1, <2>2, <2>3, <2>4, <2>5, <2>6, <2>7, <2>8, <2>9, <2>10, <2>11
    DEF TimerNext, Thread, Executor
<1> QED
  BY TimerTypeCorrect, RunningHolds, <1>1, <1>2, PTL DEF TimerSpec

\* A repeating timer that nobody cancels has at most one callback outstanding,
\* and its pending flag tells the truth, whatever the executor threads run and
\* the node drops.
THEOREM OneOutstandingHolds ==
    TimerSpec => []OneOutstanding
<1>1. Token => OneOutstanding
  BY DEF Token
<1> QED
  BY TokenHolds, <1>1, PTL

\* Why a oneshot timer fires once: whenever its thread is on its way to fire
\* and not stopped, it was started or reset since it fired.
OneshotInv ==
  Oneshot /\ ~wasCanceled =>
    /\ tpc \in {"top", "sleep", "check"} => due \/ stop
    /\ tpc = "mark" => due

\* That is kept as long as nobody cancels the timer.
LEMMA OneshotInvHolds ==
    TimerSpec => []OneshotInv
<1> USE DEF OneshotInv
<1>1. TimerInit => OneshotInv
  BY DEF TimerInit
<1>2. OneshotInv /\ [TimerNext]_timerVars => OneshotInv'
  <2> SUFFICES ASSUME OneshotInv, [TimerNext]_timerVars PROVE OneshotInv'
    OBVIOUS
  <2> USE DEF threadVars, queueVars, TimerGoto, ThreadUnchanged, NodeUnchanged, SetStop,
              Begin, Revive, Alive, Oneshot
  <2>1. ASSUME Thread PROVE OneshotInv'
    BY <2>1 DEF Thread, Loop, Interrupted, PeriodOver, CheckStop, MarkPending,
                EnqueueWrapper, DirectReturns, Finally, Exit
  <2>2. ASSUME NEW x \in Executors, Executor(x) PROVE OneshotInv'
    BY <2>2 DEF Executor, TakeWrapper, CheckCanceled, CallbackReturns, ClearPending
  <2>3. ASSUME Drop \/ OnDropped PROVE OneshotInv'
    BY <2>3 DEF Drop, OnDropped
  <2>4. ASSUME NEW u \in Users, Start(u) \/ Cancel(u) \/ Reset(u) PROVE OneshotInv'
    BY <2>4 DEF Start, Cancel, Reset
  <2>5. ASSUME NEW u \in Users, User(u) PROVE OneshotInv'
    BY <2>5 DEF User, CancelClears, Join, ResetClears
  <2> QED BY <2>1, <2>2, <2>3, <2>4, <2>5 DEF TimerNext, timerVars
<1> QED
  BY <1>1, <1>2, PTL DEF TimerSpec

\* A oneshot timer that nobody cancels fires once for each time it is started
\* or reset, though its thread and the resets interleave in any way.
THEOREM OneshotHolds ==
    TimerSpec => OneshotFiresOnce
<1>1. OneshotInv /\ [TimerNext]_timerVars =>
        [Oneshot /\ ~wasCanceled /\ Fires => due]_timerVars
  <2> SUFFICES ASSUME OneshotInv, [TimerNext]_timerVars, Oneshot, ~wasCanceled, Fires
                  PROVE  due \/ UNCHANGED timerVars
    OBVIOUS
  <2> USE DEF OneshotInv, Fires, threadVars, queueVars, TimerGoto, ThreadUnchanged,
              NodeUnchanged, SetStop, Begin, Revive, Alive, Oneshot, Queued
  <2>1. ASSUME Thread PROVE due
    BY <2>1 DEF Thread, Loop, Interrupted, PeriodOver, CheckStop, MarkPending,
                EnqueueWrapper, DirectReturns, Finally, Exit
  <2>2. ASSUME NEW x \in Executors, Executor(x) PROVE FALSE
    BY <2>2 DEF Executor, TakeWrapper, CheckCanceled, CallbackReturns, ClearPending
  <2>3. ASSUME Drop \/ OnDropped PROVE FALSE
    BY <2>3 DEF Drop, OnDropped
  <2>4. ASSUME NEW u \in Users, Start(u) \/ Cancel(u) \/ Reset(u) PROVE FALSE
    BY <2>4 DEF Start, Cancel, Reset
  <2>5. ASSUME NEW u \in Users, User(u) PROVE FALSE
    BY <2>5 DEF User, CancelClears, Join, ResetClears
  <2> QED BY <2>1, <2>2, <2>3, <2>4, <2>5 DEF TimerNext
<1> QED
  BY OneshotInvHolds, <1>1, PTL DEF TimerSpec, OneshotFiresOnce

-----------------------------------------------------------------------------
(* Future                                                                    *)

\* The type invariant of the future and of the threads that use it.
THEOREM FutureTypeCorrect == FutureSpec => []FutureTypeOK
<1> USE FutureAssumption DEF FutureTypeOK, Completers, Listeners, Done
<1>1. FutureInit => FutureTypeOK
  <2> SUFFICES ASSUME FutureInit PROVE FutureTypeOK
    OBVIOUS
  <2>1. /\ cpc \in [Completers -> {"idle", "lost", "event", "take", "run"}]
        /\ batch \in [Completers -> SUBSET Listeners]
    BY DEF FutureInit
  <2>2. /\ lpc \in [Listeners -> {"idle", "add", "now", "added", "recheck", "wait",
                                 "returned"}]
        /\ calls \in [Listeners -> Nat]
    BY DEF FutureInit
  <2> QED BY <2>1, <2>2 DEF FutureInit
<1>2. FutureTypeOK /\ [FutureNext]_futureVars => FutureTypeOK'
  <2> SUFFICES ASSUME FutureTypeOK, [FutureNext]_futureVars PROVE FutureTypeOK'
    OBVIOUS
  <2>1. ASSUME NEW t \in Completers, Complete(t) PROVE FutureTypeOK'
    BY <2>1 DEF Complete
  <2>2. ASSUME NEW t \in Completers, SetEvent(t) \/ TakeCallbacks(t) PROVE FutureTypeOK'
    BY <2>2 DEF SetEvent, TakeCallbacks
  <2>3. ASSUME NEW t \in Completers, RunNext(t) PROVE FutureTypeOK'
    BY <2>3 DEF RunNext, Call
  <2>4. ASSUME NEW l \in Callbacks, AddCallback(l) PROVE FutureTypeOK'
    BY <2>4 DEF AddCallback, Add
  <2>5. ASSUME NEW l \in Callbacks, RemoveCallback(l) PROVE FutureTypeOK'
    BY <2>5 DEF RemoveCallback
  <2>6. ASSUME NEW l \in Listeners, CallNow(l) PROVE FutureTypeOK'
    BY <2>6 DEF CallNow, Call
  <2>7. ASSUME NEW a \in Awaiters, AwaitAdd(a) PROVE FutureTypeOK'
    BY <2>7 DEF AwaitAdd, Add
  <2>8. ASSUME NEW a \in Awaiters, AwaitCheck(a) \/ AwaitRecheck(a) \/ AwaitResume(a)
        PROVE  FutureTypeOK'
    BY <2>8 DEF AwaitCheck, AwaitRecheck, AwaitResume
  <2>9. CASE UNCHANGED futureVars
    BY <2>9 DEF futureVars
  <2> QED
    BY <2>1, <2>2, <2>3, <2>4, <2>5, <2>6, <2>7, <2>8, <2>9
    DEF FutureNext, Completer, Awaiter
<1> QED
  BY <1>1, <1>2, PTL DEF FutureSpec

\* A callback is in one place until it has run: the inductive invariant behind
\* the theorems below.
LEMMA OnePlaceHolds == FutureSpec => []OnePlace
<1> USE FutureAssumption DEF OnePlace, Completers, Listeners, Done
<1>1. FutureInit => OnePlace
  BY DEF FutureInit
<1>2. FutureTypeOK /\ OnePlace /\ [FutureNext]_futureVars => OnePlace'
  <2> SUFFICES ASSUME FutureTypeOK, OnePlace, [FutureNext]_futureVars PROVE OnePlace'
    OBVIOUS
  <2> USE DEF FutureTypeOK
  <2>1. ASSUME NEW t \in Completers, Complete(t) PROVE OnePlace'
    BY <2>1 DEF Complete
  <2>2. ASSUME NEW t \in Completers, SetEvent(t) PROVE OnePlace'
    BY <2>2 DEF SetEvent
  <2>3. ASSUME NEW t \in Completers, TakeCallbacks(t) PROVE OnePlace'
    BY <2>3 DEF TakeCallbacks
  <2>4. ASSUME NEW t \in Completers, RunNext(t) PROVE OnePlace'
    BY <2>4 DEF RunNext, Call
  <2>5. ASSUME NEW l \in Callbacks, AddCallback(l) PROVE OnePlace'
    BY <2>5 DEF AddCallback, Add
  <2>6. ASSUME NEW l \in Callbacks, RemoveCallback(l) PROVE OnePlace'
    BY <2>6 DEF RemoveCallback
  <2>7. ASSUME NEW l \in Listeners, CallNow(l) PROVE OnePlace'
    BY <2>7 DEF CallNow, Call
  <2>8. ASSUME NEW a \in Awaiters, AwaitAdd(a) PROVE OnePlace'
    BY <2>8 DEF AwaitAdd, Add
  <2>9. ASSUME NEW a \in Awaiters, AwaitCheck(a) PROVE OnePlace'
    BY <2>9 DEF AwaitCheck
  <2>10. ASSUME NEW a \in Awaiters, AwaitRecheck(a) \/ AwaitResume(a) PROVE OnePlace'
    BY <2>10 DEF AwaitRecheck, AwaitResume
  <2>11. CASE UNCHANGED futureVars
    BY <2>11 DEF futureVars
  <2> QED
    BY <2>1, <2>2, <2>3, <2>4, <2>5, <2>6, <2>7, <2>8, <2>9, <2>10, <2>11
    DEF FutureNext, Completer, Awaiter
<1> QED
  BY FutureTypeCorrect, <1>1, <1>2, PTL DEF FutureSpec

\* However many threads complete the future while others add and remove
\* callbacks, none is called twice, and none that was reported as removed.
THEOREM CalledOnceHolds == FutureSpec => []CalledAtMostOnce
<1>1. FutureTypeOK /\ OnePlace => CalledAtMostOnce
  BY DEF FutureTypeOK, OnePlace, CalledAtMostOnce
<1> QED
  BY FutureTypeCorrect, OnePlaceHolds, <1>1, PTL

\* The outcome of a done future is final.
THEOREM OutcomeFinal == FutureSpec => FirstOutcomeStays
<1>1. [FutureNext]_futureVars => [Done => winner' = winner]_futureVars
  BY DEF FutureNext, futureVars, Done, Complete, Completer, SetEvent, TakeCallbacks, RunNext,
         Call, AddCallback, Add, RemoveCallback, CallNow, AwaitCheck, Awaiter,
         AwaitAdd, AwaitRecheck, AwaitResume
<1> QED
  BY <1>1, PTL DEF FutureSpec, FirstOutcomeStays

-----------------------------------------------------------------------------
(* GuardCondition                                                            *)

\* The type invariant of the guard condition, but for the history variables.
GuardTypeOK ==
    /\ gpc \in [Triggers -> {"new", "enqueue", "done"}]
    /\ gpending \in BOOLEAN /\ gdestroyed \in BOOLEAN
    /\ gqueued \in Nat /\ gdropping \in Nat
    /\ gxpc \in [GuardExecutors -> {"idle", "check", "calling", "clear"}]

\* The pending flag stands for the callback that is underway: while it is not
\* set there is none, and trigger() may make one.
FlagTells ==
    ~gdestroyed /\ ~gpending => gqueued + gdropping = 0 /\ GuardBusy = {} /\ Enqueuing = {}

GuardInv == GuardTypeOK /\ OneUnderway /\ FlagTells

-----------------------------------------------------------------------------

\* Every step keeps the types.
LEMMA TypesKept == GuardTypeOK /\ [GuardNext]_guardVars => GuardTypeOK'
<1> SUFFICES ASSUME GuardTypeOK, [GuardNext]_guardVars PROVE GuardTypeOK'
    OBVIOUS
<1> USE DEF GuardTypeOK
<1>1. ASSUME NEW t \in Triggers, Trigger(t) \/ EnqueueTrigger(t) PROVE GuardTypeOK'
    <2>1. UNCHANGED <<gxpc, gdestroyed, gdropping>> /\ gqueued' \in Nat
        BY <1>1 DEF Trigger, EnqueueTrigger
    <2>2. \E where \in {"enqueue", "done"} : gpc' = [gpc EXCEPT ![t] = where]
        BY <1>1 DEF Trigger, EnqueueTrigger
    <2>3. gpending' = gpending \/ gpending' = TRUE
        BY <1>1, Zenon DEF Trigger, EnqueueTrigger
    <2> QED BY <2>1, <2>2, <2>3
<1>2. ASSUME NEW x \in GuardExecutors, TakeTrigger(x) \/ CheckDestroyed(x) PROVE GuardTypeOK'
    <2>1. UNCHANGED <<gpc, gpending, gdestroyed, gdropping>> /\ gqueued' \in Nat
        BY <1>2 DEF TakeTrigger, CheckDestroyed
    <2>2. \E where \in {"check", "calling", "clear"} : gxpc' = [gxpc EXCEPT ![x] = where]
        BY <1>2 DEF TakeTrigger, CheckDestroyed
    <2> QED BY <2>1, <2>2
<1>3. ASSUME NEW x \in GuardExecutors, TriggerReturns(x) \/ ClearTriggered(x) PROVE GuardTypeOK'
    BY <1>3 DEF TriggerReturns, ClearTriggered
<1>4. CASE DropTrigger \/ OnTriggerDropped \/ DestroyGuard
    <2>1. UNCHANGED <<gpc, gxpc>> /\ gpending' \in BOOLEAN /\ gdestroyed' \in BOOLEAN
        BY <1>4 DEF DropTrigger, OnTriggerDropped, DestroyGuard
    <2>2. gqueued' \in Nat /\ gdropping' \in Nat
        BY <1>4 DEF DropTrigger, OnTriggerDropped, DestroyGuard
    <2> QED BY <2>1, <2>2
<1>5. CASE UNCHANGED guardVars
    BY <1>5 DEF guardVars
<1> QED BY <1>1, <1>2, <1>3, <1>4, <1>5 DEF GuardNext, GuardExecutor

\* A trigger makes a callback only where the flag says that there is none.
LEMMA TriggerKeepsInv ==
    ASSUME GuardInv, NEW t \in Triggers, Trigger(t)
    PROVE  GuardInv'
<1> USE DEF GuardInv, GuardTypeOK, Trigger
<1>1. GuardTypeOK' /\ GuardBusy' = GuardBusy /\ UNCHANGED <<gqueued, gdropping, gdestroyed>>
    BY DEF GuardBusy
<1>2. CASE gdestroyed \/ gpending
    <2>1. Enqueuing' = Enqueuing /\ gpending' = gpending
        BY <1>2 DEF Enqueuing
    <2> QED BY <1>1, <2>1 DEF OneUnderway, FlagTells
<1>3. CASE ~gdestroyed /\ ~gpending
    <2>1. gqueued + gdropping = 0 /\ GuardBusy = {} /\ Enqueuing = {}
        BY <1>3 DEF FlagTells
    <2>2. Enqueuing' = {t} /\ gpending'
        BY <1>3, <2>1 DEF Enqueuing
    <2> QED BY <1>1, <2>1, <2>2 DEF OneUnderway, FlagTells
<1> QED BY <1>2, <1>3

\* The callback goes from the trigger to the queue.
LEMMA EnqueueKeepsInv ==
    ASSUME GuardInv, NEW t \in Triggers, EnqueueTrigger(t)
    PROVE  GuardInv'
<1> USE DEF GuardInv, GuardTypeOK, EnqueueTrigger
<1>1. /\ GuardTypeOK' /\ GuardBusy' = GuardBusy /\ gqueued' = gqueued + 1
      /\ UNCHANGED <<gpending, gdropping, gdestroyed>>
    BY DEF GuardBusy
<1>2. t \in Enqueuing /\ Enqueuing' = Enqueuing \ {t}
    BY DEF Enqueuing
<1>3. CASE gdestroyed
    BY <1>1, <1>3 DEF OneUnderway, FlagTells
<1>4. CASE ~gdestroyed
    <2>1. gpending
        BY <1>2, <1>4 DEF FlagTells
    <2>2. Enqueuing' = {} /\ GuardBusy = {} /\ gqueued + gdropping = 0
        BY <1>2, <1>4 DEF OneUnderway
    <2> QED BY <1>1, <2>1, <2>2 DEF OneUnderway, FlagTells
<1> QED BY <1>3, <1>4

\* From the queue to an executor, through the call, and to its end.
LEMMA ExecutorKeepsInv ==
    ASSUME GuardInv, NEW x \in GuardExecutors, GuardExecutor(x)
    PROVE  GuardInv'
<1> USE DEF GuardInv, GuardTypeOK
<1>1. /\ GuardTypeOK' /\ Enqueuing' = Enqueuing
      /\ UNCHANGED <<gdropping, gdestroyed>>
    <2>1. UNCHANGED <<gpc, gdropping, gdestroyed>>
        BY DEF GuardExecutor, TakeTrigger, CheckDestroyed, TriggerReturns, ClearTriggered
    <2>2. Enqueuing' = Enqueuing
        BY <2>1 DEF Enqueuing
    <2>3. GuardTypeOK'
        BY TypesKept DEF GuardNext
    <2> QED BY <2>1, <2>2, <2>3
<1>2. CASE gdestroyed
    BY <1>1, <1>2 DEF OneUnderway, FlagTells
<1>3. CASE ~gdestroyed /\ TakeTrigger(x)
    <2>1. gqueued' = gqueued - 1 /\ gpending' = gpending /\ gqueued > 0
        BY <1>3 DEF TakeTrigger
    <2>2. gqueued + gdropping = 1 /\ GuardBusy = {} /\ Enqueuing = {}
        BY <1>3, <2>1 DEF OneUnderway
    <2>3. GuardBusy' = {x}
        BY <1>3, <2>2 DEF GuardBusy, TakeTrigger
    <2>4. gpending
        BY <1>3, <2>2 DEF FlagTells
    <2> QED BY <1>1, <2>1, <2>2, <2>3, <2>4 DEF OneUnderway, FlagTells
<1>4. CASE ~gdestroyed /\ (CheckDestroyed(x) \/ TriggerReturns(x))
    <2>1. GuardBusy' = GuardBusy /\ UNCHANGED <<gqueued, gpending>>
        BY <1>4 DEF GuardBusy, CheckDestroyed, TriggerReturns
    <2> QED BY <1>1, <2>1 DEF OneUnderway, FlagTells
<1>5. CASE ~gdestroyed /\ ClearTriggered(x)
    <2>1. gqueued' = gqueued /\ x \in GuardBusy /\ GuardBusy' = GuardBusy \ {x}
        BY <1>5 DEF GuardBusy, ClearTriggered
    <2>2. GuardBusy' = {} /\ gqueued + gdropping = 0 /\ Enqueuing = {}
        BY <1>5, <2>1 DEF OneUnderway
    <2> QED BY <1>1, <2>1, <2>2 DEF OneUnderway, FlagTells
<1> QED BY <1>2, <1>3, <1>4, <1>5 DEF GuardExecutor

\* From the queue to the hook of the drop, which clears the flag.
LEMMA DropKeepsInv ==
    ASSUME GuardInv, DropTrigger \/ OnTriggerDropped \/ DestroyGuard
    PROVE  GuardInv'
<1> USE DEF GuardInv, GuardTypeOK, DropTrigger, OnTriggerDropped, DestroyGuard
<1>1. GuardTypeOK' /\ Enqueuing' = Enqueuing /\ GuardBusy' = GuardBusy
    <2>1. UNCHANGED <<gpc, gxpc>>
        OBVIOUS
    <2>2. Enqueuing' = Enqueuing /\ GuardBusy' = GuardBusy
        BY <2>1 DEF Enqueuing, GuardBusy
    <2>3. GuardTypeOK'
        BY TypesKept DEF GuardNext
    <2> QED BY <2>2, <2>3
<1>2. CASE DropTrigger
    <2>1. gqueued' + gdropping' = gqueued + gdropping /\ UNCHANGED <<gpending, gdestroyed>>
        BY <1>2
    <2> QED BY <1>1, <2>1 DEF OneUnderway, FlagTells
<1>3. CASE OnTriggerDropped
    <2>1. /\ UNCHANGED <<gdestroyed, gqueued>>
          /\ gdropping > 0 /\ gdropping' = gdropping - 1
        BY <1>3
    <2>2. ~gdestroyed => gqueued + gdropping = 1 /\ GuardBusy = {} /\ Enqueuing = {}
        BY <2>1 DEF OneUnderway
    <2> QED BY <1>1, <2>1, <2>2 DEF OneUnderway, FlagTells
<1>4. CASE DestroyGuard
    BY <1>1, <1>4 DEF OneUnderway, FlagTells
<1> QED BY <1>2, <1>3, <1>4

\* However many threads trigger and however many executors run, the guard has
\* at most one callback underway until it is destroyed.
THEOREM UnderwayHolds == GuardSpec => []OneUnderway
<1>1. GuardInit => GuardInv
    <2> SUFFICES ASSUME GuardInit PROVE GuardInv
        OBVIOUS
    <2>1. GuardTypeOK
        BY DEF GuardInit, GuardTypeOK
    <2>2. GuardBusy = {} /\ Enqueuing = {} /\ gqueued + gdropping = 0
        BY DEF GuardInit, GuardBusy, Enqueuing
    <2> QED BY <2>1, <2>2 DEF GuardInv, OneUnderway, FlagTells
<1>2. GuardInv /\ [GuardNext]_guardVars => GuardInv'
    <2> SUFFICES ASSUME GuardInv, [GuardNext]_guardVars PROVE GuardInv'
        OBVIOUS
    <2>1. CASE UNCHANGED guardVars
        BY <2>1 DEF guardVars, GuardInv, GuardTypeOK, OneUnderway, FlagTells, GuardBusy, Enqueuing
    <2> QED BY <2>1, TriggerKeepsInv, EnqueueKeepsInv, ExecutorKeepsInv, DropKeepsInv DEF GuardNext
<1>3. GuardInv => OneUnderway
    BY DEF GuardInv
<1> QED BY <1>1, <1>2, <1>3, PTL DEF GuardSpec
-----------------------------------------------------------------------------
(* Clocks                                                                    *)

\* A setter that has not begun has nobody to call and has made no jump; one that
\* has still to call a handle has made one and has not told it.
ClockInv ==
  /\ ClockTypeOK
  /\ \A s \in Jumpers :
       setPc[s] = "idle" => toCall[s] = {} /\ \A n \in Int : <<s, n>> \notin jumps
  /\ \A s \in Jumpers : toCall[s] # {} => <<s, delta[s]>> \in jumps
  /\ \A h \in Handles :
       told[h] \subseteq jumps /\ \A s \in Jumpers : h \in toCall[s] => <<s, delta[s]>> \notin told[h]
  /\ JumpsTold

\* Nothing of the jumps changes.
LEMMA JumpsUntouched ==
  ASSUME ClockInv, UNCHANGED setVars, registered' \subseteq registered, ClockTypeOK'
  PROVE  ClockInv'
  BY DEF ClockInv, JumpsTold, setVars

THEOREM ClockInvHolds == ClockSpec => []ClockInv
<1> USE ClocksAssumption
<1>1. ClockInit => ClockInv
  <2> SUFFICES ASSUME ClockInit PROVE ClockInv
    OBVIOUS
  <2>1. ClockTypeOK
    <3>1. until \in [Sleepers -> Times]
      BY DEF ClockInit
    <3>2. sleepPc \in [Sleepers -> SleepPcs] /\ notified \subseteq Sleepers
      BY DEF ClockInit, SleepPcs
    <3>3. /\ setPc \in [Jumpers -> {"idle", "calling", "done"}] /\ delta \in [Jumpers -> Int]
          /\ toCall \in [Jumpers -> SUBSET Handles]
          /\ told \in [Handles -> SUBSET (Jumpers \X Int)] /\ jumps \subseteq Jumpers \X Int
      BY DEF ClockInit
    <3> QED BY <3>1, <3>2, <3>3 DEF ClockInit, ClockTypeOK
  <2> QED BY <2>1 DEF ClockInit, ClockInv, JumpsTold
<1>2. ClockInv /\ [ClockNext]_clockVars => ClockInv'
  <2> SUFFICES ASSUME ClockInv, [ClockNext]_clockVars PROVE ClockInv'
    OBVIOUS
  <2>1. ASSUME NEW s \in Jumpers, NEW t \in Times, SetOverride(s, t) PROVE ClockInv'
    <3>1. /\ setPc[s] = "idle" /\ setPc' = [setPc EXCEPT ![s] = "calling"] /\ override' = t
          /\ UNCHANGED <<ros, wall, registered, told, until, sleepPc, down>>
          /\ notified' \subseteq Sleepers
      BY <2>1 DEF SetOverride, NotifyAll, ClockInv, ClockTypeOK
    <3>2. CASE override = NoTime
      <4>1. UNCHANGED <<delta, toCall, jumps>>
        BY <2>1, <3>2 DEF SetOverride
      <4>2. ClockTypeOK'
        BY <3>1, <4>1 DEF ClockInv, ClockTypeOK
      <4> QED BY <3>1, <4>1, <4>2 DEF ClockInv, ClockTypeOK, JumpsTold
    <3>3. CASE override # NoTime
      <4> DEFINE n == t - override
      <4>1. /\ delta' = [delta EXCEPT ![s] = n] /\ toCall' = [toCall EXCEPT ![s] = registered]
            /\ jumps' = jumps \cup {<<s, n>>} /\ n \in Int
        BY <2>1, <3>3 DEF SetOverride, ClockInv, ClockTypeOK
      <4> HIDE DEF n
      <4>2. ClockTypeOK'
        BY <3>1, <4>1 DEF ClockInv, ClockTypeOK
      <4>3. /\ toCall[s] = {} /\ <<s, n>> \notin jumps
            /\ delta \in [Jumpers -> Int] /\ toCall \in [Jumpers -> SUBSET Handles]
        BY <3>1, <4>1 DEF ClockInv, ClockTypeOK
      <4>4. \A j \in Jumpers : setPc'[j] = "idle" =>
              toCall'[j] = {} /\ \A m \in Int : <<j, m>> \notin jumps'
        BY <3>1, <4>1, <4>3 DEF ClockInv, ClockTypeOK
      <4>5. \A h \in Handles : told'[h] \subseteq jumps' /\
              \A j \in Jumpers : h \in toCall'[j] => <<j, delta'[j]>> \notin told'[h]
        BY <3>1, <4>1, <4>3 DEF ClockInv
      <4>6. ASSUME NEW h \in registered'
            PROVE  LET owed == {<<j, delta'[j]>> : j \in {k \in Jumpers : h \in toCall'[k]}}
                   IN told'[h] \cap owed = {} /\ told'[h] \cup owed = jumps'
        <5> DEFINE before == {<<j, delta[j]>> : j \in {k \in Jumpers : h \in toCall[k]}}
                   owed == {<<j, delta'[j]>> : j \in {k \in Jumpers : h \in toCall'[k]}}
        <5>1. h \in registered /\ h \in Handles
          BY <3>1 DEF ClockInv, ClockTypeOK
        <5>2. told[h] \cap before = {} /\ told[h] \cup before = jumps
          BY <5>1 DEF ClockInv, JumpsTold
        <5>3. owed = before \cup {<<s, n>>}
          BY <4>1, <4>3, <5>1
        <5> HIDE DEF before, owed
        <5>4. told'[h] \cap owed = {} /\ told'[h] \cup owed = jumps'
          BY <3>1, <4>1, <4>3, <5>2, <5>3
        <5> QED BY <5>4 DEF owed
      <4>7. \A j \in Jumpers : toCall'[j] # {} => <<j, delta'[j]>> \in jumps'
        BY <4>1, <4>3 DEF ClockInv
      <4> QED BY <4>2, <4>4, <4>5, <4>6, <4>7 DEF ClockInv, JumpsTold
    <3> QED BY <3>2, <3>3
  <2>2. ASSUME NEW s \in Jumpers, NEW h \in Handles, CallJump(s, h) PROVE ClockInv'
    <3>1. /\ h \in toCall[s] /\ told' = [told EXCEPT ![h] = @ \cup {<<s, delta[s]>>}]
          /\ toCall' = [toCall EXCEPT ![s] = @ \ {h}]
          /\ UNCHANGED <<ros, wall, override, registered, setPc, delta, jumps, until, sleepPc,
                         notified, down>>
      BY <2>2 DEF CallJump, sleepVars
    <3>2. ClockTypeOK'
      BY <3>1 DEF ClockInv, ClockTypeOK
    <3>3. told \in [Handles -> SUBSET (Jumpers \X Int)] /\ toCall \in [Jumpers -> SUBSET Handles]
      BY DEF ClockInv, ClockTypeOK
    <3>4. \A j \in Jumpers : setPc'[j] = "idle" =>
            toCall'[j] = {} /\ \A m \in Int : <<j, m>> \notin jumps'
      BY <3>1, <3>3 DEF ClockInv
    <3>5. ASSUME NEW g \in Handles
          PROVE  \A j \in Jumpers : g \in toCall'[j] => <<j, delta'[j]>> \notin told'[g]
      BY <3>1, <3>3 DEF ClockInv
    <3>6. ASSUME NEW g \in registered'
          PROVE  LET owed == {<<j, delta'[j]>> : j \in {k \in Jumpers : g \in toCall'[k]}}
                 IN told'[g] \cap owed = {} /\ told'[g] \cup owed = jumps'
      <4> DEFINE before == {<<j, delta[j]>> : j \in {k \in Jumpers : g \in toCall[k]}}
                 owed == {<<j, delta'[j]>> : j \in {k \in Jumpers : g \in toCall'[k]}}
      <4>1. g \in registered /\ g \in Handles
        BY <3>1 DEF ClockInv, ClockTypeOK
      <4>2. told[g] \cap before = {} /\ told[g] \cup before = jumps
        BY <4>1 DEF ClockInv, JumpsTold
      <4>3. CASE g # h
        <5>1. owed = before
          BY <3>1, <3>3, <4>3
        <5>2. told'[g] = told[g] /\ jumps' = jumps
          BY <3>1, <4>3
        <5> HIDE DEF owed, before
        <5>3. told'[g] \cap owed = {} /\ told'[g] \cup owed = jumps'
          BY <4>2, <5>1, <5>2
        <5> QED BY <5>3 DEF owed
      <4>4. CASE g = h
        <5>1. owed = before \ {<<s, delta[s]>>} /\ <<s, delta[s]>> \in before
          BY <3>1, <3>3, <4>4
        <5>2. told'[g] = told[g] \cup {<<s, delta[s]>>} /\ jumps' = jumps
          BY <3>1, <3>3, <4>4
        <5> HIDE DEF owed, before
        <5>3. told'[g] \cap owed = {} /\ told'[g] \cup owed = jumps'
          BY <4>2, <5>1, <5>2
        <5> QED BY <5>3 DEF owed
      <4> QED BY <4>3, <4>4
    <3>7. ASSUME NEW g \in Handles PROVE told'[g] \subseteq jumps'
      <4>1. <<s, delta[s]>> \in jumps
        BY <3>1 DEF ClockInv
      <4> QED BY <3>1, <3>3, <4>1 DEF ClockInv
    <3>8. \A j \in Jumpers : toCall'[j] # {} => <<j, delta'[j]>> \in jumps'
      BY <3>1, <3>3 DEF ClockInv
    <3> QED BY <3>2, <3>4, <3>5, <3>6, <3>7, <3>8 DEF ClockInv, JumpsTold
  <2>3. ASSUME NEW s \in Jumpers, SetReturns(s) PROVE ClockInv'
    <3>1. setPc[s] = "calling" /\ setPc' = [setPc EXCEPT ![s] = "done"]
      BY <2>3 DEF SetReturns
    <3>2. UNCHANGED <<ros, wall, override, registered, delta, toCall, told, jumps, until, sleepPc,
                      notified, down>>
      BY <2>3 DEF SetReturns, sleepVars
    <3>3. ClockTypeOK'
      BY <3>1, <3>2 DEF ClockInv, ClockTypeOK
    <3> QED BY <3>1, <3>2, <3>3 DEF ClockInv, ClockTypeOK, JumpsTold
  <2>4. ASSUME NEW s \in Jumpers, ClearOverride(s) PROVE ClockInv'
    <3>1. /\ setPc' = [setPc EXCEPT ![s] = "done"] /\ override' = NoTime
          /\ notified' \subseteq Sleepers
          /\ UNCHANGED <<ros, wall, registered, delta, toCall, told, jumps, until, sleepPc, down>>
      BY <2>4 DEF ClearOverride, NotifyAll, ClockInv, ClockTypeOK
    <3>2. ClockTypeOK'
      BY <3>1 DEF ClockInv, ClockTypeOK
    <3> QED BY <3>1, <3>2 DEF ClockInv, ClockTypeOK, JumpsTold
  <2>5. ASSUME NEW h \in Handles, RemoveJump(h) PROVE ClockInv'
    <3>1. registered' \subseteq registered /\ UNCHANGED setVars
      BY <2>5 DEF RemoveJump
    <3>2. ClockTypeOK'
      BY <2>5 DEF RemoveJump, setVars, sleepVars, ClockInv, ClockTypeOK
    <3> QED BY <3>1, <3>2, JumpsUntouched
  <2>6. ASSUME NEW s \in Sleepers, SleeperStep(s) PROVE ClockInv'
    <3>1. /\ UNCHANGED <<ros, wall, override, registered, setVars, until, down>>
          /\ notified' \subseteq Sleepers
          /\ \E to \in SleepPcs : sleepPc' = [sleepPc EXCEPT ![s] = to]
      BY <2>6 DEF SleeperStep, LookAtContext, ReadClock, ReadSystem, Choose, WaitEnds, Goto, SleepPcs,
                  ClockInv, ClockTypeOK
    <3>2. ClockTypeOK'
      BY <3>1 DEF setVars, ClockInv, ClockTypeOK
    <3> QED BY <3>1, <3>2, JumpsUntouched
  <2>7. CASE Tick
    <3>1. ClockTypeOK'
      BY <2>7 DEF Tick, setVars, sleepVars, ClockInv, ClockTypeOK
    <3> QED BY <2>7, <3>1, JumpsUntouched DEF Tick
  <2>8. CASE Shutdown
    <3>1. ClockTypeOK'
      BY <2>8 DEF Shutdown, setVars, sleepVars, ClockInv, ClockTypeOK
    <3> QED BY <2>8, <3>1, JumpsUntouched DEF Shutdown
  <2>9. CASE UNCHANGED clockVars
    <3>1. ClockTypeOK' /\ UNCHANGED setVars /\ registered' = registered
      BY <2>9 DEF clockVars, setVars, ClockInv, ClockTypeOK
    <3> QED BY <3>1, JumpsUntouched
  <2> QED BY <2>1, <2>2, <2>3, <2>4, <2>5, <2>6, <2>7, <2>8, <2>9 DEF ClockNext
<1> QED BY <1>1, <1>2, PTL DEF ClockSpec

\* Every jump callback that is registered is told every jump once, as it was made.
THEOREM JumpsToldHolds == ClockSpec => []JumpsTold
<1>1. ClockInv => JumpsTold
  BY DEF ClockInv
<1> QED BY <1>1, ClockInvHolds, PTL

==============================================================================
