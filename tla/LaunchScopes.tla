----------------------------- MODULE LaunchScopes -----------------------------
(* Launch configurations while a description is visited (launch/): groups and  *)
(* includes work on a copy of the configurations that is taken back afterwards, *)
(* also when an action raises.  The description is made up as it is visited.   *)
EXTENDS Naturals, Sequences, SequencesExt

CONSTANTS
  Names,      \* launch configurations and arguments
  Values,
  Unset,      \* for a name that has no value
  NsName,     \* the configuration ros_namespace, not one of Names
  MaxActions, \* how many actions a description has (a bound)
  MaxDepth    \* how deep they are nested (a bound)

VARIABLES
  configs,    \* _launch_configurations
  saved,      \* _configuration_stack
  namespaces, \* _ros_namespace_stack
  frames,     \* the entities being visited, outermost first
  raising,    \* an exception is on its way out
  acted,      \* how many actions were carried out
  loose       \* history: explicit pushes and pops did not match within an entity,
              \* or a timer's thread has pushed

svars == <<configs, saved, namespaces, frames, raising, acted, loose>>

Keys == Names \cup {NsName}
Empty == [n \in Keys |-> Unset]
Arguments == [Names -> Values \cup {Unset}]

\* A visited entity: whether it pushed a scope (_scope_pushed), how many
\* explicit pushes are open in it, and what was configured before it.
Frame(pushed) == [pushed |-> pushed, open |-> 0, before |-> configs]
Depth == Len(frames)
Top == frames[Depth]

\* The command line's arguments are there from the beginning.
ScopesInit ==
  /\ configs \in {[Empty EXCEPT ![n] = v] : n \in Names, v \in Values \cup {Unset}}
  /\ saved = <<>> /\ namespaces = <<>> /\ raising = FALSE /\ acted = 0 /\ loose = FALSE
  /\ frames = <<Frame(FALSE)>>

Acting ==
  /\ ~raising /\ frames # <<>> /\ acted < MaxActions
  /\ acted' = acted + 1

Raise == raising' = TRUE

------------------------------------------------------------------------------
(* Scopes.                                                                    *)

\* _push_configuration_scope: what is saved ...
PushScope(forwarding) == saved' = Append(saved, configs)

\* ... and what the new scope begins with, to which arguments are added.
Scope(forwarding, arguments) ==
  LET begin == IF forwarding THEN configs ELSE Empty
  IN [n \in Keys |-> IF n \in Names /\ arguments[n] # Unset THEN arguments[n] ELSE begin[n]]

\* _pop_configuration_scope.
PopScope ==
  IF saved = <<>> THEN UNCHANGED <<configs, saved>>
  ELSE configs' = Last(saved) /\ saved' = Front(saved)

\* A scoped GroupAction, or with forwarding an IncludeLaunchDescription: its
\* entities are visited in the new scope.
EnterScope(forwarding, arguments) ==
  /\ Acting /\ Depth < MaxDepth
  /\ PushScope(forwarding)
  /\ configs' = Scope(forwarding, arguments)
  /\ frames' = Append(frames, Frame(TRUE))
  /\ UNCHANGED <<namespaces, raising, loose>>

\* A substitution of the arguments or the launch file fails: the action takes
\* its scope back itself and raises.
EnterFails ==
  /\ Acting /\ Raise
  /\ UNCHANGED <<configs, saved, namespaces, frames, loose>>

\* An OpaqueFunction or a group without a scope.
Enter ==
  /\ Acting /\ Depth < MaxDepth
  /\ frames' = Append(frames, Frame(FALSE))
  /\ UNCHANGED <<configs, saved, namespaces, raising, loose>>

\* (faulty: the scope is not taken back on the way of an exception)
LeaveQuietly ==
  /\ frames # <<>>
  /\ IF Top.pushed /\ ~raising THEN PopScope ELSE UNCHANGED <<configs, saved>>
  /\ loose' = (loose \/ Top.open > 0)
  /\ frames' = Front(frames)
  /\ UNCHANGED <<namespaces, raising, acted>>

\* The finally clause of _visit_entity.
Leave ==
  /\ frames # <<>>
  /\ IF Top.pushed THEN PopScope ELSE UNCHANGED <<configs, saved>>
  /\ loose' = (loose \/ Top.open > 0)
  /\ frames' = Front(frames)
  /\ UNCHANGED <<namespaces, raising, acted>>

------------------------------------------------------------------------------
(* Actions.                                                                   *)

SetConfiguration(n, v) ==
  /\ Acting
  /\ configs' = [configs EXCEPT ![n] = v]
  /\ UNCHANGED <<saved, namespaces, frames, raising, loose>>

\* DeclareLaunchArgument: a default for what is not given; what is given has to
\* be among the choices; neither given nor a default is an error.
Declare(n, default, choices) ==
  /\ Acting
  /\ \/ /\ configs[n] = Unset /\ default # Unset
        /\ configs' = [configs EXCEPT ![n] = default] /\ UNCHANGED raising
     \/ /\ configs[n] # Unset /\ (choices = {} \/ configs[n] \in choices)
        /\ UNCHANGED <<configs, raising>>
     \/ /\ IF configs[n] = Unset THEN default = Unset
           ELSE choices # {} /\ configs[n] \notin choices
        /\ Raise /\ UNCHANGED configs
  /\ UNCHANGED <<saved, namespaces, frames, loose>>

\* A LaunchConfiguration is asked for that is not there.
Substitute(n) ==
  /\ Acting /\ configs[n] = Unset /\ Raise
  /\ UNCHANGED <<configs, saved, namespaces, frames, loose>>

PushConfigurations(forwarding) ==
  /\ Acting
  /\ PushScope(forwarding) /\ configs' = Scope(forwarding, Empty)
  /\ frames' = [frames EXCEPT ![Depth].open = @ + 1]
  /\ UNCHANGED <<namespaces, raising, loose>>

PopConfigurations ==
  /\ Acting /\ PopScope
  /\ frames' = [frames EXCEPT ![Depth].open = IF @ > 0 THEN @ - 1 ELSE 0]
  /\ loose' = (loose \/ Top.open = 0)
  /\ UNCHANGED <<namespaces, raising>>

\* PushROSNamespace and PopROSNamespace keep a stack that no scope restores.
PushNamespace(v) ==
  /\ Acting
  /\ namespaces' = Append(namespaces, v)
  /\ configs' = [configs EXCEPT ![NsName] = namespaces']
  /\ UNCHANGED <<saved, frames, raising, loose>>

PopNamespace ==
  /\ Acting /\ namespaces # <<>>
  /\ namespaces' = Front(namespaces)
  /\ configs' = [configs EXCEPT ![NsName] = namespaces']
  /\ UNCHANGED <<saved, frames, raising, loose>>

\* A timer's thread carries out a group: the entities that execute() returns
\* are not visited, and the scope stays.
TimerGroup(forwarding) ==
  /\ Acting
  /\ PushScope(forwarding) /\ configs' = Scope(forwarding, Empty)
  /\ loose' = TRUE
  /\ UNCHANGED <<namespaces, frames, raising>>

ScopesNext ==
  \/ \E f \in BOOLEAN : \E a \in Arguments : EnterScope(f, a)
  \/ EnterFails \/ Enter \/ Leave
  \/ \E n \in Names : Substitute(n) \/ \E v \in Values : SetConfiguration(n, v)
  \/ \E n \in Names, d \in Values \cup {Unset}, c \in SUBSET Values : Declare(n, d, c)
  \/ \E f \in BOOLEAN : PushConfigurations(f) \/ TimerGroup(f)
  \/ PopConfigurations \/ PopNamespace
  \/ \E v \in Values : PushNamespace(v)

ScopesSpec == ScopesInit /\ [][ScopesNext]_svars

------------------------------------------------------------------------------
(* Properties.                                                                *)

\* What is configured in a scoped group or an included description ends with
\* it, and nothing else does: behind it the configurations are those from
\* before it, however scopes nest, whether or not they forward, and also when
\* an action in it raises (code: _push_configuration_scope, the finally clause
\* of _visit_entity).
ScopeEnds ==
  [][Len(frames') < Len(frames) /\ Top.pushed /\ ~loose' => configs' = Top.before]_svars
=============================================================================
