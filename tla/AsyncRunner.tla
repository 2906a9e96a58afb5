------------------------------ MODULE AsyncRunner ------------------------------
(* The event loop that runs coroutine callbacks (lwrclpy/_async.py): executor   *)
(* threads hand it a coroutine and wait for the result; the loop lives in a     *)
(* thread of its own, which is started when it is first needed, and started     *)
(* again when the loop is found not running; shutdown() stops it.               *)
EXTENDS Naturals

CONSTANTS
  Runners,   \* threads that call run()
  Stoppers,  \* threads that call shutdown()
  MaxLoops   \* how many loops may be started (a bound)

Loops == 1..MaxLoops
NoLoop == 0

VARIABLES
  current,   \* _loop
  state,     \* of each loop: "none", "starting", "made", "running", "stopping", "stopped", "closed"
  holder,    \* who holds the lock: a set of at most one
  apc,       \* where a thread is
  mine,      \* the loop a thread has been given
  coroutine, \* "none", "scheduled" or "finished"
  doomed     \* history: shutdown() took the loop the runner had been given

avars == <<current, state, holder, apc, mine, coroutine, doomed>>

Init ==
  /\ current = NoLoop /\ state = [l \in Loops |-> "none"] /\ holder = {}
  /\ apc = [t \in Runners \cup Stoppers |-> "idle"]
  /\ mine = [t \in Runners \cup Stoppers |-> NoLoop]
  /\ coroutine = [t \in Runners |-> "none"]
  /\ doomed = [t \in Runners |-> FALSE]

Unstarted == {l \in Loops : state[l] = "none"}
Goto(t, where) == apc' = [apc EXCEPT ![t] = where]

\* _ensure_started: the current loop, if it runs; else a new thread, and the
\* lock is held until that thread has made its loop.
EnsureStarted(t) ==
  /\ apc[t] = "idle" /\ holder = {}
  /\ IF current # NoLoop /\ state[current] \in {"running", "stopping"}
     THEN /\ mine' = [mine EXCEPT ![t] = current]
          /\ Goto(t, "submit")
          /\ UNCHANGED <<state, holder>>
     ELSE \E l \in Unstarted :
            /\ \A k \in Unstarted : l <= k
            /\ state' = [state EXCEPT ![l] = "starting"]
            /\ mine' = [mine EXCEPT ![t] = l]
            /\ holder' = {t}
            /\ Goto(t, "ready")
  /\ UNCHANGED <<current, coroutine, doomed>>

LoopMade(t) ==
  /\ apc[t] = "ready" /\ state[mine[t]] # "starting"
  /\ current' = mine[t]
  /\ holder' = {}
  /\ Goto(t, "submit")
  /\ UNCHANGED <<state, mine, coroutine, doomed>>

\* run_coroutine_threadsafe: refused by a closed loop, else scheduled, whether
\* or not the loop runs (yet, or any more).
Submit(t) ==
  /\ apc[t] = "submit"
  /\ IF state[mine[t]] = "closed"
     THEN Goto(t, "raised") /\ UNCHANGED coroutine
     ELSE Goto(t, "waiting") /\ coroutine' = [coroutine EXCEPT ![t] = "scheduled"]
  /\ UNCHANGED <<current, state, holder, mine, doomed>>

Return(t) ==
  /\ apc[t] = "waiting" /\ coroutine[t] = "finished"
  /\ Goto(t, "done")
  /\ UNCHANGED <<current, state, holder, mine, coroutine, doomed>>

\* The loop's thread.
MakeLoop(l) ==
  /\ state[l] = "starting"
  /\ state' = [state EXCEPT ![l] = "made"]
  /\ UNCHANGED <<current, holder, apc, mine, coroutine, doomed>>

RunForever(l) ==
  /\ state[l] = "made"
  /\ state' = [state EXCEPT ![l] = "running"]
  /\ UNCHANGED <<current, holder, apc, mine, coroutine, doomed>>

RunCoroutine(l, t) ==
  /\ state[l] \in {"running", "stopping"} /\ mine[t] = l /\ coroutine[t] = "scheduled"
  /\ coroutine' = [coroutine EXCEPT ![t] = "finished"]
  /\ UNCHANGED <<current, state, holder, apc, mine, doomed>>

LoopStops(l) ==
  /\ state[l] = "stopping"
  /\ state' = [state EXCEPT ![l] = "stopped"]
  /\ UNCHANGED <<current, holder, apc, mine, coroutine, doomed>>

Has(t, l) == apc[t] \in {"submit", "waiting"} /\ mine[t] = l

\* shutdown: take the loop, then stop it if it runs, wait a second for its
\* thread, and close it if it does not run.
Shutdown(s) ==
  /\ apc[s] = "idle" /\ holder = {}
  /\ mine' = [mine EXCEPT ![s] = current]
  /\ current' = NoLoop
  /\ Goto(s, IF current = NoLoop THEN "done" ELSE "stop")
  /\ doomed' = [t \in Runners |-> doomed[t] \/ (current # NoLoop /\ Has(t, current))]
  /\ UNCHANGED <<state, holder, coroutine>>

StopLoop(s) ==
  /\ apc[s] = "stop"
  /\ state' = [state EXCEPT ![mine[s]] = IF @ = "running" THEN "stopping" ELSE @]
  /\ Goto(s, "close")
  /\ UNCHANGED <<current, holder, mine, coroutine, doomed>>

CloseLoop(s) ==
  /\ apc[s] = "close"
  /\ state' = [state EXCEPT ![mine[s]] = IF @ \in {"made", "stopped"} THEN "closed" ELSE @]
  /\ Goto(s, "done")
  /\ UNCHANGED <<current, holder, mine, coroutine, doomed>>

RunStep(t) == LoopMade(t) \/ Submit(t) \/ Return(t)
LoopStep(l) == MakeLoop(l) \/ RunForever(l) \/ LoopStops(l)

Next ==
  \/ \E t \in Runners : EnsureStarted(t) \/ RunStep(t)
  \/ \E l \in Loops : LoopStep(l) \/ \E t \in Runners : RunCoroutine(l, t)
  \/ \E s \in Stoppers : Shutdown(s) \/ StopLoop(s) \/ CloseLoop(s)

\* Threads run, and a running loop runs what is scheduled; nobody has to begin.
Fairness ==
  /\ \A t \in Runners : WF_avars(RunStep(t))
  /\ \A l \in Loops : WF_avars(LoopStep(l)) /\ \A t \in Runners : WF_avars(RunCoroutine(l, t))
  /\ \A s \in Stoppers : WF_avars(StopLoop(s) \/ CloseLoop(s))

Spec == Init /\ [][Next]_avars /\ Fairness

\* A call of run() returns, or raises, unless shutdown() takes the very loop it
\* was given: the loop that another thread's call replaced, because it had not
\* begun to run yet, still runs what it was given (code: _ensure_started,
\* shutdown).
Running == {t \in Runners : apc[t] \in {"submit", "waiting"} /\ ~doomed[t]}

RunReturns == Running # {} ~> Running = {}
=============================================================================
