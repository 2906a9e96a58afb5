-------------------------- MODULE CallbackService --------------------------
(***************************************************************************)
(* What a Node and its executor promise about callbacks, without the       *)
(* queue, the workers and their scans: a callback handed over waits, then  *)
(* is run once or given up; a MutuallyExclusiveCallbackGroup admits one    *)
(* callback at a time.  NodeExecutor implements this specification.        *)
(***************************************************************************)
CONSTANTS Calls, Entities, GroupOf, Exclusive, None

VARIABLES owner,    \* owner[c]: the entity c belongs to, None before it arrives
          waiting,  \* callbacks handed over and not yet started
          running,  \* callbacks whose user code is executing
          ended,    \* callbacks that have run, or found their entity closed
          dropped   \* callbacks given up

vars == <<owner, waiting, running, ended, dropped>>

Excludes(c, d) ==
    /\ GroupOf[owner[c]] = GroupOf[owner[d]]
    /\ GroupOf[owner[c]] \in Exclusive

Init ==
    /\ owner = [c \in Calls |-> None]
    /\ waiting = {} /\ running = {} /\ ended = {} /\ dropped = {}

\* A callback arrives; it, or one that waits, may be given up for room.
Submit(c, e, D) ==
    /\ owner[c] = None
    /\ owner' = [owner EXCEPT ![c] = e]
    /\ waiting' = (waiting \cup {c}) \ D
    /\ dropped' = dropped \cup D
    /\ UNCHANGED <<running, ended>>

Start(c) ==
    /\ c \in waiting
    /\ \A d \in running : ~Excludes(c, d)
    /\ waiting' = waiting \ {c}
    /\ running' = running \cup {c}
    /\ UNCHANGED <<owner, ended, dropped>>

Finish(c) ==
    /\ c \in running
    /\ running' = running \ {c}
    /\ ended' = ended \cup {c}
    /\ UNCHANGED <<owner, waiting, dropped>>

\* The entity was closed while the callback waited.
Skip(c) ==
    /\ c \in waiting
    /\ waiting' = waiting \ {c}
    /\ ended' = ended \cup {c}
    /\ UNCHANGED <<owner, running, dropped>>

\* destroy_node gives up everything that is queued.
Discard(D) ==
    /\ D # {}
    /\ waiting' = waiting \ D
    /\ dropped' = dropped \cup D
    /\ UNCHANGED <<owner, running, ended>>

Next ==
    \/ \E c \in Calls, e \in Entities : \E D \in SUBSET (waiting \cup {c}) :
           Submit(c, e, D)
    \/ \E c \in Calls : Start(c) \/ Finish(c) \/ Skip(c)
    \/ \E D \in SUBSET waiting : Discard(D)

Spec == Init /\ [][Next]_vars
=============================================================================
