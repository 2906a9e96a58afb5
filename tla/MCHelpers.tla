------------------------------ MODULE MCHelpers ------------------------------
(* Publisher, Blocks, TransformBuffer, Launch, LaunchScopes and               *)
(* LaunchEnvironment side by side, for one run of TLC.  They share no state:  *)
(* a behaviour picks one of them and leaves the others in their first state.  *)
EXTENDS Publisher, TransformBuffer, Launch, LaunchScopes, LaunchEnvironment, Blocks, TLC

CONSTANTS
  f1, f2, f3, w1, w2,  \* TransformBuffer
  p1, p2, p3, t1   \* Launch

VARIABLE part

------------------------------------------------------------------------------

\* Three frames, all of whose transforms may be sent: one more than a tree has, so
\* that the third changes its parent.  The second frame moves, and is then measured
\* elsewhere than the static transform says; the transforms agree while it has not.
SceneLinks == {<<f1, f2>>, <<f2, f3>>, <<f1, f3>>}
SceneReadings ==
  [x \in Kinds \X Links |->
     CASE x = <<"static", <<f1, f2>>>> -> {[r |-> 2, t |-> 1], [r |-> 2, t |-> 0]}
       [] x = <<"dynamic", <<f1, f2>>>> -> {[r |-> 2, t |-> 0]}
       [] x = <<"dynamic", <<f2, f3>>>> -> {[r |-> 1, t |-> 2], [r |-> 2, t |-> 0]}
       [] x = <<"dynamic", <<f1, f3>>>> -> {[r |-> 2, t |-> 2]}
       [] OTHER -> {}]
SceneWanted == [w \in Waiters |-> IF w = w1 THEN <<f1, f3>> ELSE <<f2, f1>>]
SceneEarlier == <<f1, f2>> :> [r |-> 2, t |-> 1]

\* A process, then a timer (which starts one more) and a process whose exit
\* shuts down; or a Shutdown action between others.
LaunchProcesses == {p1, p2, p3}
LaunchTimers == {t1}
LaunchPlans == {<< <<p1>>, <<t1, p2>> >>, << <<p1, ShutDown, t1>>, <<p2>> >>}
LaunchAfter == p1 :> <<>> @@ p2 :> <<ShutDown>> @@ p3 :> <<>> @@ t1 :> <<p3>>

ASSUME PublisherAssumption

------------------------------------------------------------------------------

Parts == {"publisher", "buffer", "launch", "scopes", "blocks", "environment"}

HelpersInit ==
  /\ part \in Parts
  /\ Init /\ BufferInit
  /\ part = "launch" \/ (plan = << <<p1>>, <<t1, p2>> >> /\ whenIdle = TRUE)
  /\ LaunchInit
  /\ part = "scopes" \/ configs = Empty
  /\ ScopesInit
  /\ part = "blocks" \/ (untracked = TRUE /\ where = [r \in Readers |-> "same"])
  /\ BlocksInit
  /\ part = "environment" \/ (environ = NoSettings /\ files = {})
  /\ EnvironmentInit

\* (bound) Two wait while one message is sent; while two are, one.
BufferBound == bpc'[w2] = "idle" \/ sets' < MaxSets

StepOf(p) == part = p /\ part' = p

HelpersNext ==
  \/ StepOf("publisher") /\ Next /\ UNCHANGED <<bvars, lvars, svars, blockVars, environmentVars>>
  \/ StepOf("buffer") /\ BufferNext /\ BufferBound /\ UNCHANGED <<vars, lvars, svars, blockVars, environmentVars>>
  \/ StepOf("launch") /\ LaunchNext /\ UNCHANGED <<vars, bvars, svars, blockVars, environmentVars>>
  \/ StepOf("scopes") /\ ScopesNext /\ UNCHANGED <<vars, bvars, lvars, blockVars, environmentVars>>
  \/ StepOf("environment") /\ EnvironmentNext
     /\ UNCHANGED <<vars, bvars, lvars, svars, blockVars>>
  \/ StepOf("blocks") /\ BlocksNext /\ UNCHANGED <<vars, bvars, lvars, svars, environmentVars>>

\* The fairness of each part that has any, while it is the one that was picked.
\* A process, a thread of it and a setter each have finitely many steps: it is
\* enough that some one of them goes on.
BufferPartFairness ==
  WF_bvars(/\ part = "buffer"
                /\ \/ \E s \in Setters : SetterStep(s)
                   \/ \E w \in Waiters : WaiterStep(w))

LaunchPartFairness ==
  /\ WF_lvars(part = "launch" /\ RunStep)
  /\ WF_lvars(/\ part = "launch"
              /\ \/ \E p \in Processes : MonitorStep(p) \/ ("KILL" \in signals[p] /\ Exit(p))
                 \/ \E x \in Own : ThreadStep(x))
  /\ \A t \in Timers : WF_lvars(part = "launch" /\ Look(t))

HelpersSpec ==
  /\ HelpersInit
  /\ [][HelpersNext]_<<part, vars, bvars, lvars, svars, blockVars, environmentVars>>
  /\ BufferPartFairness /\ LaunchPartFairness

\* Whoever waits for a transform that can be looked up is told, whatever callbacks
\* are removed meanwhile; and run() of a launch that is to shut down returns
\* (Buffer.wait_for_transform_async, LaunchService.run).
WaitsEnd == WaiterHears /\ ShutdownEnds
=============================================================================
