-------------------------------- MODULE Clocks --------------------------------
(* A Clock (lwrclpy/clock.py): simulated time that threads set and clear, the   *)
(* callbacks that hear of its jumps, and threads asleep until a point of time.  *)
(* Jump callbacks are called without the lock; a sleeper looks at the clock in  *)
(* steps, and naps or waits for 0.1 s at most between two looks.                *)
EXTENDS Integers

CONSTANTS
  Jumpers,   \* threads that set or clear the simulated time, once each
  Sleepers,  \* threads in sleep_until
  Handles,   \* jump callbacks (functions, or the JumpHandle of two)
  Times,     \* points of time, from 0
  NoTime     \* no override

ASSUME ClocksAssumption == Times \subseteq Nat /\ NoTime \notin Times /\ 0 \in Times

VARIABLES
  ros,         \* the clock is a ROS_TIME clock
  wall,        \* what the system's clock says
  override,    \* _ros_time_override
  registered,  \* _time_jump_callbacks
  setPc,       \* setter -> "idle", "calling" or "done"
  delta,       \* setter -> the jump its calls are about
  toCall,      \* setter -> handles it has still to call
  told,        \* handle -> the jumps it has been told, and who made them (history)
  jumps,       \* the jumps of the override: <<setter, jump>> (history)
  until,       \* sleeper -> what it sleeps for
  sleepPc,     \* sleeper -> where it is
  notified,    \* sleepers whose wait has been ended by a setter
  down         \* the context is shut down

clockVars == <<ros, wall, override, registered, setPc, delta, toCall, told, jumps, until,
               sleepPc, notified, down>>
setVars == <<setPc, delta, toCall, told, jumps>>
sleepVars == <<until, sleepPc, notified>>

SleepPcs == {"look", "read", "system", "choose", "wait", "nap", "reached", "interrupted"}

ClockTypeOK ==
  /\ ros \in BOOLEAN /\ down \in BOOLEAN
  /\ wall \in Times /\ override \in Times \cup {NoTime}
  /\ registered \subseteq Handles /\ notified \subseteq Sleepers
  /\ setPc \in [Jumpers -> {"idle", "calling", "done"}] /\ delta \in [Jumpers -> Int]
  /\ toCall \in [Jumpers -> SUBSET Handles]
  /\ told \in [Handles -> SUBSET (Jumpers \X Int)] /\ jumps \subseteq Jumpers \X Int
  /\ until \in [Sleepers -> Times] /\ sleepPc \in [Sleepers -> SleepPcs]

ClockInit ==
  /\ ros \in BOOLEAN /\ wall = 0 /\ override = NoTime /\ down = FALSE
  /\ registered = Handles
  /\ setPc = [s \in Jumpers |-> "idle"] /\ delta = [s \in Jumpers |-> 0]
  /\ toCall = [s \in Jumpers |-> {}]
  /\ told = [h \in Handles |-> {}] /\ jumps = {}
  /\ until \in [Sleepers -> Times \ {0}] /\ sleepPc = [s \in Sleepers |-> "look"]
  /\ notified = {}

------------------------------------------------------------------------------

\* The time a ROS_TIME clock has been given counts, if there is one.
Simulated == ros /\ override # NoTime
Now == IF Simulated THEN override ELSE wall

\* notify_all() of _time_update_condition.
NotifyAll == notified' = notified \cup {s \in Sleepers : sleepPc[s] = "wait"}

\* set_ros_time_override, in the lock: the first one is no jump.
SetOverride(s, t) ==
  /\ setPc[s] = "idle"
  /\ IF override = NoTime THEN UNCHANGED <<delta, toCall, jumps>>
     ELSE /\ delta' = [delta EXCEPT ![s] = t - override]
          /\ toCall' = [toCall EXCEPT ![s] = registered]
          /\ jumps' = jumps \cup {<<s, t - override>>}
  /\ override' = t /\ setPc' = [setPc EXCEPT ![s] = "calling"]
  /\ NotifyAll
  /\ UNCHANGED <<ros, wall, registered, told, until, sleepPc, down>>

\* (faulty: the jump is computed from the clock as it is by now)
CallJumpLate(s, h) ==
  /\ h \in toCall[s]
  /\ told' = [told EXCEPT ![h] = @ \cup {<<s, IF override = NoTime THEN 0 ELSE override>>}]
  /\ toCall' = [toCall EXCEPT ![s] = @ \ {h}]
  /\ UNCHANGED <<ros, wall, override, registered, setPc, delta, jumps, sleepVars, down>>

\* Without it: the callbacks of the list as it was then.
CallJump(s, h) ==
  /\ h \in toCall[s]
  /\ told' = [told EXCEPT ![h] = @ \cup {<<s, delta[s]>>}]
  /\ toCall' = [toCall EXCEPT ![s] = @ \ {h}]
  /\ UNCHANGED <<ros, wall, override, registered, setPc, delta, jumps, sleepVars, down>>

SetReturns(s) ==
  /\ setPc[s] = "calling" /\ toCall[s] = {}
  /\ setPc' = [setPc EXCEPT ![s] = "done"]
  /\ UNCHANGED <<ros, wall, override, registered, delta, toCall, told, jumps, sleepVars, down>>

ClearOverride(s) ==
  /\ setPc[s] = "idle" /\ setPc' = [setPc EXCEPT ![s] = "done"]
  /\ override' = NoTime /\ NotifyAll
  /\ UNCHANGED <<ros, wall, registered, delta, toCall, told, jumps, until, sleepPc, down>>

\* A callback that is removed may still be called by a setter that has it listed.
RemoveJump(h) ==
  /\ h \in registered /\ registered' = registered \ {h}
  /\ UNCHANGED <<ros, wall, override, setVars, sleepVars, down>>

------------------------------------------------------------------------------
(* sleep_until                                                                 *)

Goto(s, from, to) ==
  /\ sleepPc[s] = from /\ sleepPc' = [sleepPc EXCEPT ![s] = to]
  /\ UNCHANGED <<ros, wall, override, registered, setVars, until, down>>

LookAtContext(s) == Goto(s, "look", IF down THEN "interrupted" ELSE "read") /\ UNCHANGED notified

\* now(): the system's clock is read without the lock.
ReadClock(s) ==
  /\ UNCHANGED notified
  /\ Goto(s, "read", IF ~Simulated THEN "system"
                     ELSE IF override >= until[s] THEN "reached" ELSE "choose")

ReadSystem(s) ==
  /\ UNCHANGED notified
  /\ Goto(s, "system", IF wall >= until[s] THEN "reached" ELSE "choose")

\* Simulated time by now: wait to be told.
Choose(s) ==
  /\ Goto(s, "choose", IF Simulated THEN "wait" ELSE "nap")
  /\ notified' = notified \ {s}

\* (faulty: a wait without a timeout)
WaitUntilTold(s) ==
  /\ \/ s \in notified /\ Goto(s, "wait", "look")
     \/ Goto(s, "nap", "look")
  /\ UNCHANGED notified

\* Told or not, a wait and a nap end.
WaitEnds(s) ==
  /\ Goto(s, "wait", "look") \/ Goto(s, "nap", "look")
  /\ UNCHANGED notified

SleeperStep(s) == LookAtContext(s) \/ ReadClock(s) \/ ReadSystem(s) \/ Choose(s) \/ WaitEnds(s)

------------------------------------------------------------------------------

Tick ==
  /\ wall + 1 \in Times /\ wall' = wall + 1
  /\ UNCHANGED <<ros, override, registered, setVars, sleepVars, down>>

Shutdown ==
  /\ ~down /\ down' = TRUE
  /\ UNCHANGED <<ros, wall, override, registered, setVars, sleepVars>>

ClockNext ==
  \/ \E s \in Jumpers :
       \/ \E t \in Times : SetOverride(s, t)
       \/ \E h \in Handles : CallJump(s, h)
       \/ SetReturns(s) \/ ClearOverride(s)
  \/ \E h \in Handles : RemoveJump(h)
  \/ \E s \in Sleepers : SleeperStep(s)
  \/ Tick \/ Shutdown

\* Sleepers run; nobody has to set the time, or shut the context down.
ClockFairness == \A s \in Sleepers : WF_clockVars(SleeperStep(s))

ClockSpec == ClockInit /\ [][ClockNext]_clockVars
ClockFairSpec == ClockSpec /\ ClockFairness

------------------------------------------------------------------------------

\* What a callback has been told, and what it has still to be told by a setter on its
\* way, are the jumps of the simulated time, each of them once and each as it was made,
\* however the calls of several setters mix (set_ros_time_override).
JumpsTold ==
  \A h \in registered :
    LET owed == {<<s, delta[s]>> : s \in {t \in Jumpers : h \in toCall[t]}}
    IN told[h] \cap owed = {} /\ told[h] \cup owed = jumps

\* A sleep ends once the context is shut down, or the clock has reached its time
\* and stays there: also when the time was set, or cleared, between the look at
\* the clock and the wait for the next change.
SleepEnds ==
  \A s \in Sleepers :
    (down \/ [](Now >= until[s])) ~> sleepPc[s] \in {"reached", "interrupted"}
=============================================================================
