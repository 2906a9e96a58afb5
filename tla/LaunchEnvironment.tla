-------------------------- MODULE LaunchEnvironment --------------------------
(* What a process started by a launch file finds: its environment, which the    *)
(* context keeps beside os.environ (SetEnvironmentVariable and its reverse, the  *)
(* env and additional_env of ExecuteProcess and launch_ros Node), the program    *)
(* that is run (the search of launch_ros Node and its substitutions), and        *)
(* whether it is started at all (conditions over boolean strings).               *)
EXTENDS Naturals, Sequences, FiniteSetsExt, SequencesExt

CONSTANTS
  Vars,
  NodeName,      \* the variable LWRCLPY_NODE_NAME, one of Vars
  Strings,       \* values: "true", "false", "" and others
  Absent,        \* a variable that is not set, or an argument that is not given
  Error,         \* an exception
  MaxFiles       \* a bound

VARIABLES
  environ,       \* os.environ of the launching process
  environment,   \* context.environment
  files,         \* <<place, whether the name ends in .py>>
  wanted,        \* variable -> what the launch has asked for last (history)
  foreign        \* variables that others have changed since (history)

environmentVars == <<environ, environment, files, wanted, foreign>>

Texts == Strings \cup {Absent}
Settings == [Vars -> Texts]   \* also the argument env or additional_env
NoSettings == [v \in Vars |-> Absent]

\* The directories that are searched, in order, for an executable of a package; the
\* last is the working directory, where it is found without one.
PackagePlaces ==
  <<"install/p/lib/p", "install/lib/p", "src/p/p", "src/p/scripts", "src/p", "p/scripts", "p",
    "examples/p">>
Files == (ToSet(PackagePlaces) \cup {".", "PATH"}) \X BOOLEAN

ASSUME EnvironmentAssumption ==
  /\ NodeName \in Vars /\ {"true", "false", ""} \subseteq Strings
  /\ Absent \notin Strings \cup Files /\ Error \notin Strings

\* LaunchContext: a copy of os.environ.
EnvironmentInit ==
  /\ environ \in Settings /\ environment = environ
  /\ \E n \in 0..MaxFiles : files \in kSubset(n, Files)
  /\ wanted = environ /\ foreign = {}

------------------------------------------------------------------------------
(* The environment.                                                            *)

\* d, but e's where that has one: dict.update.
Updated(d, e) == [v \in Vars |-> IF e[v] = Absent THEN d[v] ELSE e[v]]

\* SetEnvironmentVariable: both.
SetVariable(v, x) ==
  /\ environment' = [environment EXCEPT ![v] = x] /\ environ' = [environ EXCEPT ![v] = x]
  /\ wanted' = [wanted EXCEPT ![v] = x] /\ foreign' = foreign \ {v}
  /\ UNCHANGED files

\* (faulty: from the context only)
UnsetInContext(v) ==
  /\ environment' = [environment EXCEPT ![v] = Absent]
  /\ wanted' = [wanted EXCEPT ![v] = Absent] /\ foreign' = foreign \ {v}
  /\ UNCHANGED <<environ, files>>

\* UnsetEnvironmentVariable: both.
UnsetVariable(v) ==
  /\ environment' = [environment EXCEPT ![v] = Absent]
  /\ environ' = [environ EXCEPT ![v] = Absent]
  /\ wanted' = [wanted EXCEPT ![v] = Absent] /\ foreign' = foreign \ {v}
  /\ UNCHANGED files

\* The program itself, or the context of another launch, writes to os.environ.
WriteEnviron(v, x) ==
  /\ environ' = [environ EXCEPT ![v] = x] /\ foreign' = foreign \cup {v}
  /\ UNCHANGED <<environment, files, wanted>>

\* EnvironmentVariable.perform
ReadVariable(v, default) ==
  IF environment[v] # Absent THEN environment[v]
  ELSE IF environ[v] # Absent THEN environ[v]
  ELSE IF default # Absent THEN default ELSE Error

\* ExecuteProcess._resolve_env: given is FALSE if there is no argument env.
ProcessEnv(given, own, extra) ==
  Updated(IF given THEN Updated(environment, own) ELSE Updated(environ, environment), extra)

\* Node._build_environment: an empty env is as good as none; and the name (a name ''
\* can only come from a substitution).
NodeEnv(own, extra, name) ==
  LET base == IF own # NoSettings THEN Updated(environment, own) ELSE Updated(environ, environment)
      env == Updated(base, extra)
  IN IF name = Absent THEN env ELSE [env EXCEPT ![NodeName] = name]

------------------------------------------------------------------------------
(* Conditions.                                                                 *)

\* _to_bool of the conditions ...
Truth(x) == IF x = "true" THEN TRUE ELSE x # "false" /\ x # ""
Boolean(x) == x \in {"true", "false", ""}
\* ... and of the boolean substitutions, to which '' is no boolean.
Operand(x) == x \in {"true", "false"}
Text(b) == IF b THEN "true" ELSE "false"

IfCondition(x) == IF Boolean(x) THEN Text(Truth(x)) ELSE Error
UnlessCondition(x) == IF Boolean(x) THEN Text(~Truth(x)) ELSE Error
NotSubstitution(x) == IF Operand(x) THEN Text(~Truth(x)) ELSE Error

\* The right operand is resolved, but not looked at if the left one decides.
AndSubstitution(x, y) ==
  IF ~Operand(x) THEN Error ELSE IF x = "false" THEN x ELSE IF Operand(y) THEN y ELSE Error
OrSubstitution(x, y) ==
  IF ~Operand(x) THEN Error ELSE IF x = "true" THEN x ELSE IF Operand(y) THEN y ELSE Error

------------------------------------------------------------------------------
(* What is run.                                                                *)

\* The first of a sequence of candidates that is there, else Absent.
FirstOf(candidates, there) ==
  LET found == {i \in DOMAIN candidates : candidates[i] \in there}
  IN IF found = {} THEN Absent ELSE candidates[CHOOSE i \in found : \A j \in found : i <= j]

\* Each place is tried with the name and with the name and .py.
BothNames(places) == [i \in 1..(2 * Len(places)) |-> <<places[(i + 1) \div 2], i % 2 = 0>>]

\* Node._find_executable: at last the name itself, which python is given.
FindExecutable(package) ==
  LET places == (IF package THEN PackagePlaces ELSE <<>>) \o <<".">>
  IN FirstOf(BothNames(places) \o << <<"PATH", FALSE>> >>, files)

\* ExecutableInPackage.perform
ExecutableInPackage ==
  FirstOf(<< <<"p", FALSE>>, <<"examples/p", FALSE>>, <<".", FALSE>>, <<"PATH", FALSE>> >>, files)

------------------------------------------------------------------------------

EnvironmentNext ==
  \/ \E v \in Vars, x \in Strings : SetVariable(v, x)
  \/ \E v \in Vars : UnsetVariable(v)
  \/ \E v \in Vars, x \in Texts : WriteEnviron(v, x)

EnvironmentSpec == EnvironmentInit /\ [][EnvironmentNext]_environmentVars

------------------------------------------------------------------------------

\* A variable that was there at first, or that the launch file has set or unset since,
\* is what it was or has been made, for substitutions and for processes of both kinds,
\* unless their own arguments say otherwise and whoever else writes to os.environ; but
\* a variable that is not there may be set by others.  What the argument env does not
\* name is inherited (which is not what its documentation says: EnvReplaces).
EnvironmentAsAsked ==
  \A v \in Vars, own, extra \in Settings, name \in Texts :
    LET asked(first) == IF extra[v] # Absent THEN extra[v] ELSE first
        inherited == IF own[v] # Absent THEN own[v] ELSE wanted[v]
    IN v \notin foreign \/ wanted[v] # Absent =>
         /\ ReadVariable(v, "") = IF wanted[v] = Absent THEN "" ELSE wanted[v]
         /\ ProcessEnv(TRUE, own, extra)[v] = asked(inherited)
         /\ ProcessEnv(FALSE, own, extra)[v] = asked(wanted[v])
         /\ NodeEnv(own, extra, name)[v] =
              IF v = NodeName /\ name # Absent THEN name ELSE asked(inherited)

\* "env: Environment variables (replaces current env)", as ExecuteProcess and Node
\* document it: who gives env gets that, and nothing of the environment of the launch
\* (code: ExecuteProcess._resolve_env, Node._build_environment, which update a copy).
EnvReplaces ==
  \A own \in Settings : own # NoSettings =>
    ProcessEnv(TRUE, own, NoSettings) = own /\ NodeEnv(own, NoSettings, Absent) = own

\* A condition over boolean substitutions means what it says, wherever it is defined.
ConditionsAgree ==
  \A x, y \in Strings :
    LET both == AndSubstitution(x, y)
        either == OrSubstitution(x, y)
    IN /\ NotSubstitution(x) # Error => IfCondition(NotSubstitution(x)) = UnlessCondition(x)
       /\ both # Error =>
            (IfCondition(both) = "true" <=> {IfCondition(x), IfCondition(y)} = {"true"})
       /\ either # Error =>
            (IfCondition(either) = "true" <=> "true" \in {IfCondition(x), IfCondition(y)})

\* A Node runs the file of its package if there is one, and never one of the same
\* name from elsewhere; and ExecutableInPackage finds no file of a package that Node
\* does not search.
OwnExecutable ==
  LET here == {f \in files : f[1] \in ToSet(PackagePlaces)}
  IN /\ here # {} => FindExecutable(TRUE) \in here
     /\ ExecutableInPackage # Absent => FindExecutable(TRUE) # Absent

\* What a launch file says of a process is what happens (SetEnvironmentVariable,
\* ExecuteProcess._resolve_env, Node._build_environment, the conditions,
\* Node._find_executable).
StartedAsAsked == EnvironmentAsAsked /\ ConditionsAgree /\ OwnExecutable
=============================================================================
