---------------------------- MODULE Construction ----------------------------
(* How a node's entities are made (create_publisher and its like, the          *)
(* constructors they call): one DDS endpoint after the other, any of which may *)
(* fail; the side channels' companions, whose failures are swallowed; and the  *)
(* callbacks that a reader or a timer has before its entity is known.          *)
EXTENDS Naturals, Sequences, SequencesExt, FiniteSets, Functions, TLC

CONSTANTS
  CreateCalls,   \* create_* calls, each in a thread of its own
  Asked,         \* what they may ask for together: call -> [kind, topic, type]
  MayFail,       \* Fast DDS may refuse an endpoint
  MaxCallbacks,  \* how often an entity's listener or timer fires (a bound)
  NoHandle

Makeable ==
  {"publisher", "subscription", "client", "service", "action server", "action client", "timer"}
ASSUME ConstructionAssumption == \A a \in Asked : \A c \in CreateCalls : a[c].kind \in Makeable

\* The steps of a constructor and of the create_* around it.
Step(do) == [do |-> do]
Open(dir, topic, type) == [do |-> "open", dir |-> dir, topic |-> topic, type |-> type]
Optional(open) == [open EXCEPT !.do = "try"]
Companion(dir, channel, r) ==
  <<[do |-> "companion", dir |-> dir, topic |-> <<r.topic, channel>>, type |-> "String"]>>
Topics(r, dir, names) ==
  [i \in DOMAIN names |-> Open(dir, <<r.topic, names[i]>>, r.type)]

\* The constructors.
NewClient(r) == Topics(r, "writer", <<"request">>) \o Topics(r, "reader", <<"reply">>)
NewService(r) == Topics(r, "writer", <<"reply">>) \o Topics(r, "reader", <<"request">>)

NewActionServer(r) ==
  <<Step("group")>>
    \o Topics(r, "writer", <<"goal reply", "result reply", "feedback">>)
    \o <<Optional(Open("writer", <<r.topic, "status">>, "status"))>>
    \o Topics(r, "writer", <<"cancel reply">>)
    \o Topics(r, "reader", <<"goal request", "result request", "cancel request">>)

NewActionClient(r) ==
  <<Step("group")>>
    \o Topics(r, "writer", <<"goal request", "result request", "cancel request">>)
    \o Topics(r, "reader", <<"goal reply", "result reply", "feedback", "cancel reply">>)

CudaWriter(r) == Companion("writer", "cuda", r)
CudaReader(r) == Companion("reader", "cuda", r)
SharedMemoryWriter(r) == Companion("writer", "shm", r)
SharedMemoryReader(r) == Companion("reader", "shm", r)

\* The create_* calls.
CreatePublisher(r) ==
  Topics(r, "writer", <<"topic">>) \o CudaWriter(r) \o SharedMemoryWriter(r) \o <<Step("track")>>

CreateSubscription(r) ==
  Topics(r, "reader", <<"topic">>) \o <<Step("group")>>
    \o CudaReader(r) \o SharedMemoryReader(r) \o <<Step("track"), Step("bind")>>

CreateClient(r) == NewClient(r) \o <<Step("track"), Step("group"), Step("bind")>>
CreateService(r) == NewService(r) \o <<Step("track"), Step("group"), Step("bind")>>
CreateActionServer(r) == Append(NewActionServer(r), Step("track"))
CreateActionClient(r) == Append(NewActionClient(r), Step("track"))

\* A timer has its thread, and a guard condition may be triggered, at once.
CreateTimer(r) == <<Step("start"), Step("track"), Step("group"), Step("bind")>>

Plan(r) ==
  CASE r.kind = "publisher" -> CreatePublisher(r)
    [] r.kind = "subscription" -> CreateSubscription(r)
    [] r.kind = "client" -> CreateClient(r)
    [] r.kind = "service" -> CreateService(r)
    [] r.kind = "action server" -> CreateActionServer(r)
    [] r.kind = "action client" -> CreateActionClient(r)
    [] r.kind = "timer" -> CreateTimer(r)

\* These look into the node's own table of topics before the participant's.
ViaNode(r) == r.kind \in {"publisher", "subscription"}
\* These hand their callbacks to the node themselves.
Direct(r) == r.kind \in {"action server", "action client"}

VARIABLES
  asked,           \* what a call asks for
  step,            \* how far it has come in its plan
  outcome,         \* "new", "running", "returned" or "raised"
  handle,          \* the type of the topic it has in hand, or NoHandle
  topics,          \* the participant's topics: name -> type
  nodeTopics,      \* _topics of the node: name -> type of the topic object
  open,            \* live endpoints and timers: [call, at, type]
  companions,      \* topics with a companion writer (_shm_metadata_publishers)
  listed,          \* what the node lists: an entity <<c, 0>>, a companion <<c, step>>
  grouped,         \* calls whose entity is in _entity_callback_groups
  bound,           \* calls whose enqueue function knows its entity
  held,            \* callbacks that wait for that
  flushing,        \* those that bind() hands on
  passing,         \* callbacks on their way into the node's queue
  handed,          \* those that got there: <<c, n>>
  lost,            \* those the node refused or dropped
  fired,           \* how many callbacks an entity has had
  nodeGone, torn,  \* destroy_node has begun, has ended
  failed           \* history: calls whose constructor gave up midway

callers == <<asked, step, outcome, handle>>
dds == <<topics, nodeTopics, open, companions>>
knownVars == <<listed, grouped>>
callbacks == <<bound, held, flushing, passing, handed, lost, fired>>
node == <<nodeGone, torn>>
makingVars == <<callers, dds, knownVars, callbacks, node, failed>>

MakingInit ==
  /\ asked \in Asked
  /\ step = [c \in CreateCalls |-> 0] /\ outcome = [c \in CreateCalls |-> "new"]
  /\ handle = [c \in CreateCalls |-> NoHandle]
  /\ topics = <<>> /\ nodeTopics = <<>> /\ open = {} /\ companions = {}
  /\ listed = {} /\ grouped = {} /\ bound = {}
  /\ held = [c \in CreateCalls |-> <<>>] /\ flushing = [c \in CreateCalls |-> <<>>]
  /\ passing = {} /\ handed = {} /\ lost = {} /\ fired = [c \in CreateCalls |-> 0]
  /\ nodeGone = FALSE /\ torn = FALSE /\ failed = {}

------------------------------------------------------------------------------

ThePlan(c) == Plan(asked[c])
Now(c) == ThePlan(c)[step[c]]
At(c, does) == outcome[c] = "running" /\ Now(c).do \in does

\* The next step, or the return.
Advance(c) ==
  /\ IF step[c] = Len(ThePlan(c))
     THEN outcome' = [outcome EXCEPT ![c] = "returned"] /\ UNCHANGED step
     ELSE step' = [step EXCEPT ![c] = @ + 1] /\ UNCHANGED outcome
  /\ UNCHANGED asked

Raise(c) == outcome' = [outcome EXCEPT ![c] = "raised"] /\ UNCHANGED <<asked, step>>

\* A failure ends the constructor, and leaves open what it has opened; one of a
\* companion, or of the status writer of an action server, is passed over.
Fail(c) ==
  /\ handle' = [handle EXCEPT ![c] = NoHandle]
  /\ IF Now(c).do = "open"
     THEN Raise(c) /\ failed' = failed \cup {c}
     ELSE Advance(c) /\ UNCHANGED failed

\* _raise_if_destroyed.
Begin(c) ==
  /\ outcome[c] = "new"
  /\ IF nodeGone THEN Raise(c)
     ELSE outcome' = [outcome EXCEPT ![c] = "running"] /\ step' = [step EXCEPT ![c] = 1]
          /\ UNCHANGED asked
  /\ UNCHANGED <<handle, dds, knownVars, callbacks, node, failed>>

\* A companion writer is shared by the publishers of a topic.
ShareCompanion(c) ==
  /\ At(c, {"companion"}) /\ handle[c] = NoHandle
  /\ Now(c).dir = "writer" /\ Now(c).topic \in companions
  /\ Advance(c)
  /\ UNCHANGED <<handle, dds, knownVars, callbacks, node, failed>>

\* Node._create_topic: a topic the node knows is taken as it is.
NodeTopic(c) ==
  /\ At(c, {"open", "companion"}) /\ ViaNode(asked[c]) /\ handle[c] = NoHandle
  /\ Now(c).topic \in DOMAIN nodeTopics
  /\ ~(Now(c).do = "companion" /\ Now(c).dir = "writer" /\ Now(c).topic \in companions)
  /\ handle' = [handle EXCEPT ![c] = nodeTopics[Now(c).topic]]
  /\ UNCHANGED <<asked, step, outcome, dds, knownVars, callbacks, node, failed>>

\* A table with one more topic in it.
WithTopic(table, name, type) == (name :> type) @@ table

\* get_or_create_topic: one that the participant has must be of the type; a new
\* one may be refused.
FindTopic(c) ==
  /\ At(c, {"open", "try", "companion"}) /\ handle[c] = NoHandle
  /\ ~(ViaNode(asked[c]) /\ Now(c).topic \in DOMAIN nodeTopics)
  /\ LET name == Now(c).topic
         exists == name \in DOMAIN topics
     IN \/ /\ IF exists THEN topics[name] # Now(c).type ELSE MayFail
           /\ Fail(c) /\ UNCHANGED <<topics, nodeTopics>>
        \/ /\ exists => topics[name] = Now(c).type
           /\ topics' = WithTopic(topics, name, Now(c).type)
           /\ nodeTopics' = IF ViaNode(asked[c]) THEN WithTopic(nodeTopics, name, Now(c).type)
                          ELSE nodeTopics
           /\ handle' = [handle EXCEPT ![c] = Now(c).type]
           /\ UNCHANGED <<asked, step, outcome, failed>>
  /\ UNCHANGED <<open, companions, knownVars, callbacks, node>>

Endpoint(c) == [call |-> c, at |-> step[c], type |-> handle[c]]

\* Publisher.__init__ or Subscription.__init__, once without data sharing
\* if it is refused with it.
OpenEndpoint(c) ==
  /\ At(c, {"open", "try"}) /\ handle[c] # NoHandle
  /\ \/ /\ open' = open \cup {Endpoint(c)}
        /\ handle' = [handle EXCEPT ![c] = NoHandle]
        /\ Advance(c) /\ UNCHANGED failed
     \/ /\ MayFail /\ Fail(c) /\ UNCHANGED open
  /\ UNCHANGED <<topics, nodeTopics, companions, knownVars, callbacks, node>>

\* The same for a companion, which the node tracks on its own, or closes if it
\* was destroyed meanwhile.
OpenCompanion(c) ==
  /\ At(c, {"companion"}) /\ handle[c] # NoHandle
  /\ \/ /\ open' = IF nodeGone THEN open ELSE open \cup {Endpoint(c)}
        /\ listed' = IF nodeGone THEN listed ELSE listed \cup {<<c, step[c]>>}
        /\ companions' = IF Now(c).dir = "writer" THEN companions \cup {Now(c).topic}
                         ELSE companions
     \/ MayFail /\ UNCHANGED <<open, listed, companions>>
  /\ handle' = [handle EXCEPT ![c] = NoHandle]
  /\ Advance(c)
  /\ UNCHANGED <<topics, nodeTopics, grouped, callbacks, node, failed>>

\* The timer's thread starts.
Start(c) ==
  /\ At(c, {"start"})
  /\ open' = open \cup {Endpoint(c)}
  /\ Advance(c)
  /\ UNCHANGED <<handle, topics, nodeTopics, companions, knownVars, callbacks, node, failed>>

\* _register_entity_callback_group.
Group(c) ==
  /\ At(c, {"group"})
  /\ grouped' = grouped \cup {c}
  /\ Advance(c)
  /\ UNCHANGED <<handle, dds, listed, callbacks, node, failed>>

\* The endpoints of the entity itself.
Endpoints(c) == {e \in open : e.call = c /\ ThePlan(c)[e.at].do # "companion"}

\* (faulty: the entity that comes too late is not closed)
TrackQuietly(c) ==
  /\ At(c, {"track"})
  /\ IF nodeGone THEN Raise(c) /\ UNCHANGED listed
     ELSE listed' = listed \cup {<<c, 0>>} /\ Advance(c)
  /\ UNCHANGED <<handle, dds, grouped, callbacks, node, failed>>

\* _track_entity: listed, or closed at once if the node was destroyed meanwhile.
Track(c) ==
  /\ At(c, {"track"})
  /\ IF nodeGone THEN open' = open \ Endpoints(c) /\ Raise(c) /\ UNCHANGED listed
     ELSE listed' = listed \cup {<<c, 0>>} /\ Advance(c) /\ UNCHANGED open
  /\ UNCHANGED <<handle, topics, nodeTopics, companions, grouped, callbacks, node, failed>>

\* bind(), its lock section; then, without the lock, what it took, one by one.
Bind(c) ==
  /\ At(c, {"bind"}) /\ c \notin bound
  /\ bound' = bound \cup {c}
  /\ flushing' = [flushing EXCEPT ![c] = held[c]]
  /\ held' = [held EXCEPT ![c] = <<>>]
  /\ UNCHANGED <<callers, dds, knownVars, passing, handed, lost, fired, node, failed>>

\* _enqueue_callback, with the lock: refused by a node that is destroyed.
HandOver(item) ==
  IF nodeGone THEN lost' = lost \cup {item} /\ UNCHANGED handed
  ELSE handed' = handed \cup {item} /\ UNCHANGED lost

Flush(c) ==
  /\ At(c, {"bind"}) /\ c \in bound /\ flushing[c] # <<>>
  /\ HandOver(Head(flushing[c]))
  /\ flushing' = [flushing EXCEPT ![c] = Tail(@)]
  /\ UNCHANGED <<callers, dds, knownVars, bound, held, passing, fired, node, failed>>

Bound(c) ==
  /\ At(c, {"bind"}) /\ c \in bound /\ flushing[c] = <<>>
  /\ Advance(c)
  /\ UNCHANGED <<handle, dds, knownVars, callbacks, node, failed>>

------------------------------------------------------------------------------
(* Threads that call back.                                                    *)

Fires(c) ==
  /\ fired[c] < MaxCallbacks
  /\ fired' = [fired EXCEPT ![c] = @ + 1]

CallsBack(made) == made.do = "start" \/ made.dir = "reader"

\* A reader, or a timer, of the entity itself is there to call back.
Listening(c) == {e \in Endpoints(c) : CallsBack(ThePlan(c)[e.at])} # {}

\* (faulty: looks whether it is bound before it takes the lock)
EnqueueLooksFirst(c) ==
  /\ Listening(c) /\ Fires(c)
  /\ \/ /\ Direct(asked[c]) \/ c \in bound
        /\ passing' = passing \cup {<<c, fired'[c]>>} /\ UNCHANGED held
     \/ /\ ~Direct(asked[c])
        /\ held' = [held EXCEPT ![c] = Append(@, <<c, fired'[c]>>)] /\ UNCHANGED passing
  /\ UNCHANGED <<callers, dds, knownVars, bound, flushing, handed, lost, node, failed>>

\* enqueue(), its lock section: held back until the entity is known.
EnqueueOrHold(c) ==
  /\ Listening(c) /\ Fires(c)
  /\ IF Direct(asked[c]) \/ c \in bound
     THEN passing' = passing \cup {<<c, fired'[c]>>} /\ UNCHANGED held
     ELSE held' = [held EXCEPT ![c] = Append(@, <<c, fired'[c]>>)] /\ UNCHANGED passing
  /\ UNCHANGED <<callers, dds, knownVars, bound, flushing, handed, lost, node, failed>>

\* A companion reader's callback names the subscription itself.
EnqueueMetadata(c) ==
  /\ \E e \in open \ Endpoints(c) : e.call = c /\ ThePlan(c)[e.at].dir = "reader"
  /\ Fires(c)
  /\ passing' = passing \cup {<<c, fired'[c]>>}
  /\ UNCHANGED <<callers, dds, knownVars, bound, held, flushing, handed, lost, node, failed>>

Pass(item) ==
  /\ item \in passing
  /\ HandOver(item)
  /\ passing' = passing \ {item}
  /\ UNCHANGED <<callers, dds, knownVars, bound, held, flushing, fired, node, failed>>

------------------------------------------------------------------------------
(* destroy_node, as NodeEntities has it in detail.                            *)

MarkDestroyed ==
  /\ ~nodeGone
  /\ nodeGone' = TRUE
  /\ UNCHANGED <<callers, dds, knownVars, callbacks, torn, failed>>

CloseTracked ==
  /\ nodeGone /\ ~torn
  /\ torn' = TRUE
  /\ open' = {e \in open : /\ <<e.call, e.at>> \notin listed
                           /\ e \in Endpoints(e.call) => <<e.call, 0>> \notin listed}
  /\ handed' = {} /\ lost' = lost \cup handed
  /\ grouped' = {} /\ nodeTopics' = <<>>
  /\ UNCHANGED <<callers, topics, companions, listed, bound, held, flushing, passing, fired,
                 nodeGone, failed>>

MakingNext ==
  \/ \E c \in CreateCalls :
       \/ Begin(c) \/ ShareCompanion(c) \/ NodeTopic(c) \/ FindTopic(c)
       \/ OpenEndpoint(c) \/ OpenCompanion(c) \/ Start(c)
       \/ Group(c) \/ Track(c) \/ Bind(c) \/ Flush(c) \/ Bound(c)
       \/ EnqueueOrHold(c) \/ EnqueueMetadata(c)
  \/ \E item \in passing : Pass(item)
  \/ MarkDestroyed \/ CloseTracked

MakingSpec == MakingInit /\ [][MakingNext]_makingVars

------------------------------------------------------------------------------
(* Properties.                                                                *)

\* A callback of an entity that is still being made is neither lost nor handed
\* to an executor before the node knows which group it belongs to: it is in one
\* place; in the node's queue only with its entity in a group; and held back
\* only until the create call returns (code: _make_deferred_entity_enqueue, the
\* order of registering, tracking and binding in create_*).
EarlyCallbacksKept ==
  \A c \in CreateCalls :
    /\ \A n \in 1..fired[c] :
         <<c, n>> \in UNION {passing, handed, lost, ToSet(held[c]), ToSet(flushing[c])}
    /\ outcome[c] = "returned" => held[c] = <<>> /\ flushing[c] = <<>>
    /\ ~nodeGone /\ (\E n \in 1..fired[c] : <<c, n>> \in handed) => c \in grouped

\* Whatever fails midway, and whenever destroy_node comes: once it is through and
\* the create calls have ended, only a constructor that gave up has left endpoints
\* open, the ones it had opened before (code: _track_entity, the companions'
\* tracking; the constructors do not close what they have opened).
OnlyFailedLeak ==
  torn /\ (\A c \in CreateCalls : outcome[c] # "running") =>
    \A e \in open : e.call \in failed /\ e \in Endpoints(e.call)
=============================================================================
