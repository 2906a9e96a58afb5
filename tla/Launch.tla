-------------------------------- MODULE Launch --------------------------------
(* The launch service and the processes it looks after (launch/): run() visits *)
(* the description, then waits until the processes have ended or a shutdown is *)
(* asked for, and ends those that are left.  Beside it there are a thread per  *)
(* process that waits for its end, the threads of timer actions, and signals.  *)
EXTENDS Naturals, Sequences, SequencesExt

CONSTANTS
  Processes,    \* ExecuteProcess actions, each carried out once
  Descriptions, \* launch descriptions: the entities at the top, each a sequence
                \* of actions, which are a process, a timer, or ShutDown
  Timers,       \* TimerAction actions
  After,        \* process or timer -> the actions on its exit or expiry
  Stubborn,     \* processes that SIGTERM does not end
  Endless,      \* processes that do not end of themselves
  ShutDown      \* the Shutdown action

VARIABLES
  plan,       \* the description, a member of Descriptions
  whenIdle,   \* shutdown_when_idle
  rpc,        \* where run() is
  entity,     \* the entity it visits
  rest,       \* the actions of that entity still to be carried out
  current,    \* the process it ends
  running, requested,  \* _running, _shutdown_requested
  isShutdown, \* the context's _is_shutdown
  posted,     \* _request_shutdown is scheduled in the event loop
  registered, \* _running_processes
  todo,       \* the processes _shutdown_processes has still to end
  proc,       \* of a process: "none", "alive", "dead"
  signals,    \* of a process: the signals it was sent
  mpc,        \* where the thread that waits for it is
  tpc,        \* where the thread of a timer is
  actions,    \* what a monitor or timer thread has still to carry out
  late        \* history: registered after run() had begun to end processes

request == <<running, requested, isShutdown, posted>>
main == <<plan, whenIdle, rpc, entity, rest, current, todo>>
visit == <<plan, whenIdle, entity, rest>>
process == <<registered, proc, signals, late>>
threads == <<mpc, tpc, actions>>
lvars == <<main, request, process, threads>>

Own == Processes \cup Timers

LaunchInit ==
  /\ plan \in Descriptions /\ whenIdle \in BOOLEAN
  /\ rpc = "setup" /\ entity = 0 /\ rest = <<>> /\ current = {} /\ todo = {}
  /\ running = FALSE /\ requested = FALSE /\ isShutdown = FALSE /\ posted = FALSE
  /\ registered = {} /\ late = {}
  /\ proc = [p \in Processes |-> "none"] /\ signals = [p \in Processes |-> {}]
  /\ mpc = [p \in Processes |-> "none"] /\ tpc = [t \in Timers |-> "none"]
  /\ actions = [x \in Own |-> <<>>]

------------------------------------------------------------------------------
(* What an action does, whichever thread carries it out.                      *)

\* _request_shutdown.
RequestShutdown ==
  /\ requested' = TRUE /\ running' = FALSE /\ isShutdown' = TRUE
  /\ UNCHANGED posted

\* Popen; the process may be through at once.
Spawn(p) ==
  /\ proc[p] = "none"
  /\ proc' = [proc EXCEPT ![p] = "alive"]

\* register_process, then the monitor thread is started.
Ending == rpc \in {"stop", "term", "kill", "forget", "returned"}
Register(p) ==
  /\ registered' = registered \cup {p}
  /\ mpc' = [mpc EXCEPT ![p] = "wait"]
  /\ late' = IF Ending THEN late \cup {p} ELSE late

------------------------------------------------------------------------------
(* run(), with the signal handlers installed.                                 *)

\* _run_async begins: what was asked for until now is forgotten.
Begin ==
  /\ rpc = "setup"
  /\ rpc' = "next" /\ running' = TRUE /\ requested' = FALSE
  /\ UNCHANGED <<visit, current, todo, isShutdown, posted, process, threads>>

NextEntity ==
  /\ rpc = "next"
  /\ IF requested \/ entity = Len(plan)
     THEN rpc' = "wait" /\ UNCHANGED <<entity, rest>>
     ELSE rpc' = "visit" /\ entity' = entity + 1 /\ rest' = plan[entity + 1]
  /\ UNCHANGED <<plan, whenIdle, current, todo, request, process, threads>>

\* _visit_entity goes through the actions of an entity to the end.
VisitShutdown ==
  /\ rpc = "visit" /\ rest # <<>> /\ Head(rest) = ShutDown
  /\ RequestShutdown
  /\ rest' = Tail(rest)
  /\ UNCHANGED <<plan, whenIdle, rpc, entity, current, todo, process, threads>>

VisitTimer ==
  /\ rpc = "visit" /\ rest # <<>> /\ Head(rest) \in Timers
  /\ tpc' = [tpc EXCEPT ![Head(rest)] = "armed"]
  /\ rest' = Tail(rest)
  /\ UNCHANGED <<plan, whenIdle, rpc, entity, current, todo, request, process, mpc, actions>>

VisitProcess ==
  /\ rpc = "visit" /\ rest # <<>> /\ Head(rest) \in Processes
  /\ Spawn(Head(rest))
  /\ rpc' = "register"
  /\ UNCHANGED <<visit, current, todo, request, registered, signals, late, threads>>

RegisterVisited ==
  /\ rpc = "register"
  /\ Register(Head(rest))
  /\ rest' = Tail(rest) /\ rpc' = "visit"
  /\ UNCHANGED <<plan, whenIdle, entity, current, todo, request, proc, signals, tpc, actions>>

\* (faulty: an exception leaves run() without the finally clause)
VisitRaisesOut ==
  /\ rpc = "visit" /\ rest # <<>> /\ Head(rest) \in Processes
  /\ rpc' = "returned" /\ rest' = <<>> /\ running' = FALSE
  /\ UNCHANGED <<plan, whenIdle, entity, current, todo, requested, isShutdown, posted, process, threads>>

\* The executable is not found: run() raises, by way of the finally clause.
VisitRaises ==
  /\ rpc = "visit" /\ rest # <<>> /\ Head(rest) \in Processes
  /\ rpc' = "finally" /\ rest' = <<>>
  /\ UNCHANGED <<plan, whenIdle, entity, current, todo, request, process, threads>>

EndEntity ==
  /\ rpc = "visit" /\ rest = <<>>
  /\ rpc' = "next"
  /\ UNCHANGED <<visit, current, todo, request, process, threads>>

\* The loop that waits, with a look at _running and one at the processes; with
\* shutdown_when_idle it does not wait.
Wait ==
  /\ rpc = "wait"
  /\ rpc' = IF ~running \/ whenIdle \/ registered = {} THEN "finally" ELSE "sleep"
  /\ UNCHANGED <<visit, current, todo, request, process, threads>>

\* asyncio.sleep: the event loop runs what was posted to it.
Sleep ==
  /\ rpc = "sleep" /\ rpc' = "wait"
  /\ IF posted
     THEN /\ posted' = FALSE
          /\ running' = FALSE /\ requested' = TRUE /\ isShutdown' = TRUE
     ELSE UNCHANGED request
  /\ UNCHANGED <<visit, current, todo, process, threads>>

\* The finally clause: a copy of the registered processes, then one by one.
Snapshot ==
  /\ rpc = "finally"
  /\ running' = FALSE
  /\ todo' = registered
  /\ rpc' = "stop"
  /\ UNCHANGED <<visit, current, requested, isShutdown, posted, process, threads>>

------------------------------------------------------------------------------
(* ExecuteProcess.shutdown.                                                   *)

\* poll(), which may miss an end that the monitor is about to see, and SIGTERM
\* to the process group.
Terminate(p) ==
  /\ rpc = "stop" /\ p \in todo
  /\ current' = {p} /\ todo' = todo \ {p}
  /\ \/ /\ proc[p] = "alive" \/ mpc[p] = "wait"
        /\ signals' = [signals EXCEPT ![p] = @ \cup {"TERM"}] /\ rpc' = "term"
     \/ proc[p] = "dead" /\ rpc' = "forget" /\ UNCHANGED signals
  /\ UNCHANGED <<visit, request, registered, proc, late, threads>>

At(state) == \E p \in current : proc[p] = state

Ended ==
  /\ rpc \in {"term", "kill"} /\ At("dead")
  /\ rpc' = "forget"
  /\ UNCHANGED <<visit, current, todo, request, process, threads>>

\* sigterm_timeout is over, it may be only just: SIGKILL.
Kill ==
  /\ rpc = "term" /\ At("alive")
  /\ signals' = [p \in Processes |-> signals[p] \cup (IF p \in current THEN {"KILL"} ELSE {})]
  /\ rpc' = "kill"
  /\ UNCHANGED <<visit, current, todo, request, registered, proc, late, threads>>

\* sigkill_timeout is over as well: the fallback signals it again, to no end.
KillTimeout ==
  /\ rpc = "kill" /\ At("alive")
  /\ rpc' = "forget"
  /\ UNCHANGED <<visit, current, todo, request, process, threads>>

Forget ==
  /\ rpc = "forget"
  /\ registered' = registered \ current
  /\ current' = {}
  /\ rpc' = "stop"
  /\ UNCHANGED <<visit, todo, request, proc, signals, late, threads>>

Return ==
  /\ rpc = "stop" /\ todo = {}
  /\ rpc' = "returned"
  /\ UNCHANGED <<visit, current, todo, request, process, threads>>

RunStep ==
  \/ Begin \/ NextEntity \/ VisitShutdown \/ VisitTimer \/ VisitProcess \/ RegisterVisited
  \/ VisitRaises \/ EndEntity \/ Wait \/ Sleep \/ Snapshot
  \/ \E p \in Processes : Terminate(p)
  \/ Ended \/ Kill \/ KillTimeout \/ Forget \/ Return

------------------------------------------------------------------------------
(* Processes, their monitors, timers and signals.                             *)

Exit(p) ==
  /\ proc[p] = "alive"
  /\ p \notin Endless \/ "KILL" \in signals[p] \/ ("TERM" \in signals[p] /\ p \notin Stubborn)
  /\ proc' = [proc EXCEPT ![p] = "dead"]
  /\ UNCHANGED <<main, request, registered, signals, late, threads>>

\* _monitor_process: the end of the process, ...
Reap(p) ==
  /\ mpc[p] = "wait" /\ proc[p] = "dead"
  /\ mpc' = [mpc EXCEPT ![p] = "unregister"]
  /\ UNCHANGED <<main, request, process, tpc, actions>>

\* ... out of the table, and then what is to be done on its exit.
Unregister(p) ==
  /\ mpc[p] = "unregister"
  /\ registered' = registered \ {p}
  /\ mpc' = [mpc EXCEPT ![p] = "done"]
  /\ actions' = [actions EXCEPT ![p] = After[p]]
  /\ UNCHANGED <<main, request, proc, signals, late, tpc>>

\* timer_callback: nothing is begun after a shutdown.
Fire(t) ==
  /\ tpc[t] = "armed"
  /\ tpc' = [tpc EXCEPT ![t] = IF isShutdown THEN "done" ELSE "look"]
  /\ actions' = [actions EXCEPT ![t] = IF isShutdown THEN <<>> ELSE After[t]]
  /\ UNCHANGED <<main, request, process, mpc>>

\* It looks again before each action.
Look(t) ==
  /\ tpc[t] = "look"
  /\ IF isShutdown \/ actions[t] = <<>>
     THEN tpc' = [tpc EXCEPT ![t] = "done"] /\ actions' = [actions EXCEPT ![t] = <<>>]
     ELSE tpc' = [tpc EXCEPT ![t] = "act"] /\ UNCHANGED actions
  /\ UNCHANGED <<main, request, process, mpc>>

\* A timer acts after it has looked, the monitor of a process without.
Acts(x) == actions[x] # <<>> /\ (x \in Timers => tpc[x] = "act")
LookAgain(x) == tpc' = [t \in Timers |-> IF t = x THEN "look" ELSE tpc[t]]

ThreadShutsDown(x) ==
  /\ Acts(x) /\ Head(actions[x]) = ShutDown
  /\ RequestShutdown
  /\ actions' = [actions EXCEPT ![x] = Tail(@)]
  /\ LookAgain(x)
  /\ UNCHANGED <<main, process, mpc>>

ThreadSpawns(x) ==
  /\ Acts(x) /\ Head(actions[x]) \in Processes
  /\ Spawn(Head(actions[x]))
  /\ UNCHANGED <<main, request, registered, signals, late, threads>>

ThreadRegisters(x) ==
  /\ Acts(x) /\ Head(actions[x]) \in Processes /\ proc[Head(actions[x])] # "none"
  /\ Register(Head(actions[x]))
  /\ actions' = [actions EXCEPT ![x] = Tail(@)]
  /\ LookAgain(x)
  /\ UNCHANGED <<main, request, proc, signals>>

\* The executable is not found: the rest is not done.
ThreadRaises(x) ==
  /\ Acts(x) /\ Head(actions[x]) \in Processes /\ proc[Head(actions[x])] = "none"
  /\ actions' = [actions EXCEPT ![x] = <<>>]
  /\ LookAgain(x)
  /\ UNCHANGED <<main, request, process, mpc>>

\* SIGINT or SIGTERM: the handler posts the request, if there is a loop.
Signal ==
  /\ rpc # "returned" /\ ~requested
  /\ requested' = TRUE
  /\ \/ posted' = TRUE
     \/ rpc = "setup" /\ UNCHANGED posted
  /\ UNCHANGED <<running, isShutdown, main, process, threads>>

ThreadStep(x) == ThreadShutsDown(x) \/ ThreadSpawns(x) \/ ThreadRegisters(x) \/ ThreadRaises(x)
MonitorStep(p) == Reap(p) \/ Unregister(p)

LaunchNext ==
  \/ RunStep
  \/ \E p \in Processes : Exit(p) \/ MonitorStep(p)
  \/ \E t \in Timers : Fire(t) \/ Look(t)
  \/ \E x \in Own : ThreadStep(x)
  \/ Signal

\* Threads run, and a process that was killed ends.
LaunchFairness ==
  /\ WF_lvars(RunStep)
  /\ \A p \in Processes : WF_lvars(MonitorStep(p)) /\ WF_lvars("KILL" \in signals[p] /\ Exit(p))
  /\ \A x \in Own : WF_lvars(ThreadStep(x))
  /\ \A t \in Timers : WF_lvars(Look(t))

LaunchSpec == LaunchInit /\ [][LaunchNext]_lvars
LaunchFairSpec == LaunchSpec /\ LaunchFairness

------------------------------------------------------------------------------
(* Properties.                                                                *)

\* When run() is back, however it ended, no process is left to itself: what
\* still runs was killed, or it was begun by a timer or on an exit after run()
\* had taken stock (code: the finally clause of _run_async, the order of Popen
\* and register_process, and of unregister_process and on_exit).
NothingLeftRunning ==
  rpc = "returned" =>
    \A p \in Processes :
      proc[p] = "alive" => "KILL" \in signals[p] \/ p \in late \/ mpc[p] = "none"

\* A shutdown that is asked for while run() is at work ends it: a signal, the
\* Shutdown action of the description, of a timer or of an exit, whatever the
\* processes do (code: signal_handler, _request_shutdown, the two loops).
ShutdownEnds == rpc # "setup" /\ requested ~> rpc = "returned"
=============================================================================
