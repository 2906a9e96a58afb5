----------------------------- MODULE NodeEntities -----------------------------
(* A node's entities and the context (lwrclpy/node.py, lwrclpy/context.py):     *)
(* threads that create and destroy entities, destroy_node, and the context's    *)
(* init and shutdown, which knows the clients and services on its own account.  *)
EXTENDS Naturals, Sequences, SequencesExt

CONSTANTS
  Owned,
  Kind,      \* entity -> a member of Kinds
  Shutters,  \* calls of the context's shutdown()
  MaxInits   \* how often init() makes a participant (a bound)

\* In the order in which destroy_node goes through them.
Phases == <<"timer", "guard", "client", "service", "action server", "action client",
            "subscription", "publisher">>
ListKinds == ToSet(Phases)
Tracked == {"client", "service"}  \* the context keeps a list of these

ASSUME KindAssumption == Kind \in [Owned -> ListKinds]

VARIABLES
  initialized, shutting,  \* _initialized, _shutdown_flag
  participants,           \* how many were made; the last is the current one while initialized
  retired,                \* _retired_participants
  tracked,                \* _tracked_entities
  todo,                   \* what a shutdown has still to destroy
  spc,                    \* where a shutdown is
  gone,                   \* the node's _destroyed
  list,                   \* the node's list of each kind
  life,                   \* of an entity: "none", "live" or "closed"
  cpc, removerPc,         \* where its creator and its destroyer are
  phase, index,           \* how far destroy_node has come; phase 0 is before it
  late,                   \* history: tracked after a shutdown had taken the list
  overtaken               \* history: kinds whose list shrank under destroy_node's loop

context == <<initialized, shutting, participants, retired, spc, todo>>
teardown == <<gone, phase, index>>
entities == <<list, life, cpc, removerPc, late, overtaken>>
listVars == <<context, teardown, tracked, entities>>

ListsInit ==
  /\ initialized = TRUE /\ shutting = FALSE /\ participants = 1 /\ retired = {}
  /\ tracked = <<>> /\ spc = [s \in Shutters |-> "idle"] /\ todo = [s \in Shutters |-> <<>>]
  /\ gone = FALSE /\ phase = 0 /\ index = 0
  /\ list = [k \in ListKinds |-> <<>>]
  /\ life = [e \in Owned |-> "none"]
  /\ cpc = [e \in Owned |-> "idle"] /\ removerPc = [e \in Owned |-> "idle"]
  /\ late = {} /\ overtaken = {}

\* entity.destroy(), or cancel() of a timer: closed; a client or service is
\* untracked (it was tracked once).
Close(e) ==
  /\ life' = [life EXCEPT ![e] = IF @ = "live" THEN "closed" ELSE @]
  /\ tracked' = RemoveFirst(tracked, e)

------------------------------------------------------------------------------
(* The context.                                                               *)

InitContext ==
  /\ ~initialized /\ participants < MaxInits
  /\ participants' = participants + 1
  /\ initialized' = TRUE /\ shutting' = FALSE
  /\ UNCHANGED <<retired, spc, todo, teardown, tracked, entities>>

\* shutdown, first lock section: once; the last tracked comes first.
BeginShutdown(s) ==
  /\ spc[s] = "idle"
  /\ IF ~initialized \/ shutting
     THEN spc' = [spc EXCEPT ![s] = "done"] /\ UNCHANGED <<shutting, todo, tracked>>
     ELSE /\ shutting' = TRUE
          /\ todo' = [todo EXCEPT ![s] = Reverse(tracked)]
          /\ tracked' = <<>>
          /\ spc' = [spc EXCEPT ![s] = "destroy"]
  /\ UNCHANGED <<initialized, participants, retired, teardown, entities>>

\* In between, without the lock.
DestroyTracked(s) ==
  /\ spc[s] = "destroy" /\ todo[s] # <<>>
  /\ Close(Head(todo[s]))
  /\ todo' = [todo EXCEPT ![s] = Tail(@)]
  /\ UNCHANGED <<initialized, shutting, participants, retired, spc, teardown, list>>
  /\ UNCHANGED <<cpc, removerPc, late, overtaken>>

\* Second lock section: what was tracked meanwhile is forgotten; the
\* participant is kept until the process ends.
EndShutdown(s) ==
  /\ spc[s] = "destroy" /\ todo[s] = <<>>
  /\ tracked' = <<>>
  /\ initialized' = FALSE
  /\ retired' = retired \cup {participants}
  /\ spc' = [spc EXCEPT ![s] = "done"]
  /\ UNCHANGED <<shutting, participants, todo, teardown, entities>>

------------------------------------------------------------------------------
(* create_timer, create_client and their like.                                *)

\* _raise_if_destroyed, without the lock.
BeginCreate(e) ==
  /\ cpc[e] = "idle"
  /\ cpc' = [cpc EXCEPT ![e] = IF gone THEN "raised" ELSE "construct"]
  /\ UNCHANGED <<context, teardown, tracked, list, life, removerPc, late, overtaken>>

\* get_participant, of a client or service.
GetParticipant(e) ==
  /\ cpc[e] = "construct" /\ Kind[e] \in Tracked
  /\ cpc' = [cpc EXCEPT ![e] = IF initialized THEN "build" ELSE "raised"]
  /\ UNCHANGED <<context, teardown, tracked, list, life, removerPc, late, overtaken>>

\* The rest of the constructor, to track_entity at its end.
Construct(e) ==
  /\ \/ cpc[e] = "build"
     \/ cpc[e] = "construct" /\ Kind[e] \notin Tracked
  /\ life' = [life EXCEPT ![e] = "live"]
  /\ IF Kind[e] \in Tracked
     THEN /\ tracked' = Append(tracked, e)
          /\ late' = IF shutting \/ ~initialized THEN late \cup {e} ELSE late
     ELSE UNCHANGED <<tracked, late>>
  /\ cpc' = [cpc EXCEPT ![e] = "list"]
  /\ UNCHANGED <<context, teardown, list, removerPc, overtaken>>

\* (faulty: a node destroyed meanwhile gets the entity nevertheless)
TrackAlways(e) ==
  /\ cpc[e] = "list"
  /\ list' = [list EXCEPT ![Kind[e]] = Append(@, e)]
  /\ cpc' = [cpc EXCEPT ![e] = "made"]
  /\ UNCHANGED <<context, teardown, tracked, life, removerPc, late, overtaken>>

\* _track_entity, with the callback lock: listed, or closed at once if the node
\* was destroyed meanwhile.
TrackEntity(e) ==
  /\ cpc[e] = "list"
  /\ IF ~gone
     THEN /\ list' = [list EXCEPT ![Kind[e]] = Append(@, e)]
          /\ cpc' = [cpc EXCEPT ![e] = "made"]
          /\ UNCHANGED <<life, tracked>>
     ELSE /\ Close(e)
          /\ cpc' = [cpc EXCEPT ![e] = "raised"]
          /\ UNCHANGED list
  /\ UNCHANGED <<context, teardown, removerPc, late, overtaken>>

\* destroy_timer, destroy_client and their like: close, then leave the list.
DestroyEntity(e) ==
  /\ cpc[e] = "made" /\ removerPc[e] = "idle"
  /\ Close(e)
  /\ removerPc' = [removerPc EXCEPT ![e] = "remove"]
  /\ UNCHANGED <<context, teardown, list, cpc, late, overtaken>>

AtPhase == IF phase \in DOMAIN Phases THEN Phases[phase] ELSE "none"

\* destroy_node's loop has passed the entity's place in the list.
GoneThrough(e) == \E i \in 1..index : i <= Len(list[Kind[e]]) /\ list[Kind[e]][i] = e

RemoveEntity(e) ==
  /\ removerPc[e] = "remove"
  /\ list' = [list EXCEPT ![Kind[e]] = RemoveFirst(@, e)]
  /\ overtaken' = IF AtPhase = Kind[e] /\ GoneThrough(e)
                  THEN overtaken \cup {Kind[e]} ELSE overtaken
  /\ removerPc' = [removerPc EXCEPT ![e] = "done"]
  /\ UNCHANGED <<context, teardown, tracked, life, cpc, late>>

------------------------------------------------------------------------------
(* destroy_node: each list is gone through by position, while destroy_* of    *)
(* other threads may shorten it.                                              *)

BeginDestroy ==
  /\ ~gone
  /\ gone' = TRUE /\ phase' = 1 /\ index' = 0
  /\ UNCHANGED <<context, tracked, entities>>

CloseNext ==
  /\ phase \in DOMAIN Phases /\ index < Len(list[AtPhase])
  /\ Close(list[AtPhase][index + 1])
  /\ index' = index + 1
  /\ UNCHANGED <<context, gone, phase, list, cpc, removerPc, late, overtaken>>

EndPhase ==
  /\ phase \in DOMAIN Phases /\ index >= Len(list[AtPhase])
  /\ list' = [list EXCEPT ![AtPhase] = <<>>]
  /\ phase' = phase + 1
  /\ index' = 0
  /\ UNCHANGED <<context, gone, tracked, life, cpc, removerPc, late, overtaken>>

ListsNext ==
  \/ InitContext
  \/ \E s \in Shutters : BeginShutdown(s) \/ DestroyTracked(s) \/ EndShutdown(s)
  \/ \E e \in Owned :
       \/ BeginCreate(e) \/ GetParticipant(e) \/ Construct(e) \/ TrackEntity(e)
       \/ DestroyEntity(e) \/ RemoveEntity(e)
  \/ BeginDestroy \/ CloseNext \/ EndPhase

ListsSpec == ListsInit /\ [][ListsNext]_listVars

------------------------------------------------------------------------------
(* Properties.                                                                *)

PhaseOf(e) == CHOOSE i \in DOMAIN Phases : Phases[i] = Kind[e]

\* destroy_node leaves nothing open behind it, and closes in its order: an
\* entity that the user was given is closed once destroy_node is past its kind,
\* whenever it was created; only a destroy_timer (and its like) of another
\* thread, taking an entry out of the list under the loop, makes it miss one
\* (code: _track_entity, destroy_node).
TeardownInOrder ==
  \A e \in Owned :
    cpc[e] = "made" /\ life[e] = "live" /\ phase > PhaseOf(e) => Kind[e] \in overtaken

\* shutdown() closes every client and service the context knew when it began,
\* whatever is created, destroyed or initialised beside it (code: the copy of
\* _tracked_entities; those tracked later are forgotten).
ShutdownClosesTracked ==
  \A e \in Owned :
    life[e] = "live" /\ Kind[e] \in Tracked /\ ~initialized => e \in late

EntitiesEnd == TeardownInOrder /\ ShutdownClosesTracked
=============================================================================
