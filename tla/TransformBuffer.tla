---------------------------- MODULE TransformBuffer ----------------------------
(* The transform buffer (tf2_py/__init__.py, tf2_ros/buffer.py), those who wait *)
(* for a transform, the listener whose callbacks fill it and a broadcaster of   *)
(* static transforms (tf2_ros/transform_listener.py,                            *)
(* static_transform_broadcaster.py). A transform is a rotation and a            *)
(* translation; here the rotations are {1, 2} and the translations {0, 1, 2}    *)
(* with the arithmetic of integers modulo 3, the smallest such group in which   *)
(* the order of composition and the direction of a step make a difference.      *)
EXTENDS Integers, Sequences, FiniteSets, SequencesExt

CONSTANTS
  Frames,
  Links,    \* the <<parent, child>> of which broadcasters send the transform
  Readings, \* <<kind, link>> -> the transforms that are sent for it, one after the other
  Waiters,  \* calls of wait_for_transform_async
  Wanted,   \* waiter -> <<target, source>>
  Setters,  \* threads that run the listener's callbacks
  Earlier,  \* the static transforms that were sent at first: link -> transform
  MaxSets   \* how many messages are sent (a bound)

Kinds == {"dynamic", "static"}
Transforms == [r : {1, 2}, t : 0..2]

ASSUME BufferAssumption ==
  /\ IsFiniteSet(Frames) /\ Links \subseteq Frames \X Frames
  /\ Readings \in [Kinds \X Links -> SUBSET Transforms]
  /\ \A l \in Links : \E kind \in Kinds : Readings[kind, l] # {}
  /\ DOMAIN Earlier \subseteq Links /\ Earlier = [l \in DOMAIN Earlier |-> Earlier[l]]
  /\ \A l \in DOMAIN Earlier : Earlier[l] \in Readings["static", l]

VARIABLES
  dynamic, static,  \* the transform stored for an edge <<parent, child>>, where there is one
  sets,       \* how many were sent
  recent,     \* (history) <<kind, edge>> -> what the last message taken says of it, and
              \* those that another thread had still to store when that was taken
  published,  \* _transforms_by_child of the static broadcaster, all in its last message
  listening,  \* the TransformListener: "not yet", "yes" or "no more"
  inbox,      \* static messages that wait for it
  arriving,   \* of each setter: the <<kind, edge, transform>> still to be set
  callbacks,  \* _new_data_callbacks: the waiters, in order
  removing,   \* _callbacks_to_remove
  future,     \* of each waiter: "none", "pending", "done", "cancelled"
  hooked,     \* add_done_callback has been called
  bpc,        \* where a waiter or a setter is
  batch,      \* the callbacks a setter has still to call
  inside      \* who holds _callbacks_lock: a set of at most one

edges == <<dynamic, static>>
topics == <<sets, recent, published, listening, inbox, arriving>>
waiting == <<callbacks, removing, future, hooked>>
bvars == <<edges, topics, waiting, bpc, batch, inside>>

BufferInit ==
  /\ dynamic = <<>> /\ static = <<>> /\ sets = 0
  /\ recent = [x \in Kinds \X Links |-> {}]
  /\ published = Earlier /\ listening = "not yet" /\ inbox = <<>>
  /\ arriving = [s \in Setters |-> {}]
  /\ callbacks = <<>> /\ removing = <<>>
  /\ future = [w \in Waiters |-> "none"] /\ hooked = [w \in Waiters |-> FALSE]
  /\ bpc = [x \in Waiters \cup Setters |-> "idle"]
  /\ batch = [s \in Setters |-> <<>>] /\ inside = {}

------------------------------------------------------------------------------
(* Transforms.                                                                *)

Identity == [r |-> 1, t |-> 0]

\* _compose: through b, then a.
Compose(a, b) == [r |-> (a.r * b.r) % 3, t |-> (a.t + a.r * b.t) % 3]

\* _inverse: the conjugate rotation, which here is the rotation itself.
Inverted(x) == [r |-> x.r, t |-> (x.r * (3 - x.t)) % 3]

------------------------------------------------------------------------------
(* _find_path_transform: breadth-first from the source, an edge taken upwards *)
(* as it is and downwards inverted.  The queue is taken a layer at a time, in  *)
(* any order: what the code finds is among what is found here.                *)

\* (faulty: what was measured last is preferred)
DynamicFirst ==
  [l \in DOMAIN dynamic \cup DOMAIN static |-> IF l \in DOMAIN dynamic THEN dynamic[l] ELSE static[l]]

\* _all_edges: a static transform hides a dynamic one of the same edge.
AllEdges ==
  [l \in DOMAIN dynamic \cup DOMAIN static |-> IF l \in DOMAIN static THEN static[l] ELSE dynamic[l]]

\* What the graph lists for a frame and a neighbour: up to its parent, down to a child.
Steps(graph, frame, next) ==
  {graph[l] : l \in {<<next, frame>>} \cap DOMAIN graph} \cup
  {Inverted(graph[l]) : l \in {<<frame, next>>} \cap DOMAIN graph}

\* What has been found is a set of pairs of a frame and the transform to it.
Seen(found) == {x[1] : x \in found}

\* The frames to which those found are linked.
Explore(graph, found) ==
  LET to(x, f) == {<<f, Compose(step, x[2])>> : step \in Steps(graph, x[1], f)}
      from(x) == UNION {to(x, f) : f \in Frames \ Seen(found)}
  IN found \cup UNION {from(x) : x \in found}

\* The loop, layer by layer, each of which finds a frame or is the last.
Explored(graph, source) ==
  LET layer[n \in 0..Cardinality(Frames)] ==
        IF n = 0 THEN {<<source, Identity>>} ELSE Explore(graph, layer[n - 1])
  IN layer[Cardinality(Frames)]

\* can_transform_core: lookup_transform_core returns what has been found of the target.
CanTransform(target, source) == target \in Seen(Explored(AllEdges, source))

------------------------------------------------------------------------------
(* Messages: a broadcaster of static transforms and the listener.             *)

\* Of a dictionary the entries with the given keys, and one more.
Stored(keys, entries, link, x) ==
  [l \in keys \cup {link} |-> IF l = link THEN x ELSE entries[l]]

\* sendTransform: the last transform of each child, all of them in one message,
\* which the writer (depth 1, transient local) keeps for listeners to come.
Broadcast ==
  /\ sets < MaxSets
  /\ sets' = sets + 1
  /\ \E link \in Links : \E x \in Readings["static", link] :
       published' = Stored({l \in DOMAIN published : l[2] # link[2]}, published, link, x)
  /\ inbox' = IF listening = "yes" THEN Append(inbox, published') ELSE inbox
  /\ UNCHANGED <<edges, recent, listening, arriving, waiting, bpc, batch, inside>>

Listen ==
  /\ listening = "not yet"
  /\ listening' = "yes"
  /\ inbox' = IF DOMAIN published = {} THEN <<>> ELSE <<published>>
  /\ UNCHANGED <<edges, sets, recent, published, arriving, waiting, bpc, batch, inside>>

\* unregister: both subscriptions are destroyed; a callback that runs goes on.
UnregisterListener ==
  /\ listening = "yes"
  /\ listening' = "no more" /\ inbox' = <<>>
  /\ UNCHANGED <<edges, sets, recent, published, arriving, waiting, bpc, batch, inside>>

\* What the setters have still to store for an edge.
ToStore(kind, link) ==
  {t[3] : t \in {t \in UNION {arriving[s] : s \in Setters} : t[1] = kind /\ t[2] = link}}

Take(s, kind, message) ==
  /\ bpc[s] = "idle"
  /\ arriving' = [arriving EXCEPT ![s] = {<<kind, l, message[l]>> : l \in DOMAIN message}]
  /\ recent' = [x \in Kinds \X Links |->
                 IF x[1] = kind /\ x[2] \in DOMAIN message
                 THEN {message[x[2]]} \cup ToStore(kind, x[2])
                 ELSE recent[x]]
  /\ bpc' = [bpc EXCEPT ![s] = "next"]
  /\ UNCHANGED <<edges, published, listening, waiting, batch, inside>>

\* callback and static_callback; any order of messages where several threads
\* run the callbacks of the reentrant group.
Callback(s) ==
  /\ sets < MaxSets /\ listening = "yes"
  /\ \E link \in Links : \E x \in Readings["dynamic", link] :
       Take(s, "dynamic", [l \in {link} |-> x])
  /\ sets' = sets + 1
  /\ UNCHANGED inbox

StaticCallback(s) ==
  /\ inbox # <<>>
  /\ Take(s, "static", Head(inbox))
  /\ inbox' = Tail(inbox)
  /\ UNCHANGED sets

------------------------------------------------------------------------------
(* set_transform, set_transform_static and their callbacks.                   *)

\* What is stored for an edge takes the place of what was.
Set(s) ==
  /\ bpc[s] = "next"
  /\ \E t \in arriving[s] :
       /\ arriving' = [arriving EXCEPT ![s] = @ \ {t}]
       /\ dynamic' = IF t[1] = "dynamic" THEN Stored(DOMAIN dynamic, dynamic, t[2], t[3]) ELSE dynamic
       /\ static' = IF t[1] = "static" THEN Stored(DOMAIN static, static, t[2], t[3]) ELSE static
  /\ bpc' = [bpc EXCEPT ![s] = "stored"]
  /\ UNCHANGED <<sets, recent, published, listening, inbox, waiting, batch, inside>>

Clear ==
  /\ DOMAIN dynamic # {}
  /\ dynamic' = <<>>
  /\ UNCHANGED <<static, topics, waiting, bpc, batch, inside>>

\* _call_new_data_callbacks, with the lock to the end: a copy of the list ...
CopyCallbacks(s) ==
  /\ bpc[s] = "stored" /\ inside = {}
  /\ batch' = [batch EXCEPT ![s] = callbacks]
  /\ inside' = {s}
  /\ bpc' = [bpc EXCEPT ![s] = "call"]
  /\ UNCHANGED <<edges, topics, waiting>>

\* ... each of which looks again, and settles its future if that is pending;
\* the future's done callback puts it on the list of those to remove.
CallNext(s) ==
  /\ bpc[s] = "call" /\ batch[s] # <<>>
  /\ LET w == Head(batch[s])
         settles == future[w] = "pending" /\ CanTransform(Wanted[w][1], Wanted[w][2])
     IN /\ future' = IF settles THEN [future EXCEPT ![w] = "done"] ELSE future
        /\ removing' = IF settles /\ hooked[w] THEN Append(removing, w) ELSE removing
  /\ batch' = [batch EXCEPT ![s] = Tail(@)]
  /\ UNCHANGED <<edges, topics, callbacks, hooked, bpc, inside>>

\* (faulty: with those that are through everyone is removed)
RemoveEveryone(s) ==
  /\ bpc[s] = "call" /\ batch[s] = <<>>
  /\ callbacks' = IF removing = <<>> THEN callbacks ELSE <<>>
  /\ removing' = <<>>
  /\ inside' = {}
  /\ bpc' = [bpc EXCEPT ![s] = IF arriving[s] = {} THEN "idle" ELSE "next"]
  /\ UNCHANGED <<edges, topics, future, hooked, batch>>

\* ... and then those that are through are removed.
RemoveAll(s) ==
  /\ bpc[s] = "call" /\ batch[s] = <<>>
  /\ callbacks' = SelectSeq(callbacks, LAMBDA w : w \notin ToSet(removing))
  /\ removing' = <<>>
  /\ inside' = {}
  /\ bpc' = [bpc EXCEPT ![s] = IF arriving[s] = {} THEN "idle" ELSE "next"]
  /\ UNCHANGED <<edges, topics, future, hooked, batch>>

------------------------------------------------------------------------------
(* wait_for_transform_async.                                                  *)

Ask(w) ==
  /\ bpc[w] = "idle"
  /\ IF CanTransform(Wanted[w][1], Wanted[w][2])
     THEN future' = [future EXCEPT ![w] = "done"] /\ bpc' = [bpc EXCEPT ![w] = "returned"]
     ELSE future' = [future EXCEPT ![w] = "pending"] /\ bpc' = [bpc EXCEPT ![w] = "append"]
  /\ UNCHANGED <<edges, topics, callbacks, removing, hooked, batch, inside>>

\* Without the lock: what arrives between the look and this is not heard of.
AppendCallback(w) ==
  /\ bpc[w] = "append"
  /\ callbacks' = Append(callbacks, w)
  /\ bpc' = [bpc EXCEPT ![w] = "hook"]
  /\ UNCHANGED <<edges, topics, removing, future, hooked, batch, inside>>

\* add_done_callback, which is called at once on a future that is done.
Hook(w) ==
  /\ bpc[w] = "hook"
  /\ hooked' = [hooked EXCEPT ![w] = TRUE]
  /\ bpc' = [bpc EXCEPT ![w] = IF future[w] = "pending" THEN "returned" ELSE "remove"]
  /\ UNCHANGED <<edges, topics, callbacks, removing, future, batch, inside>>

\* The user gives up.
Cancel(w) ==
  /\ bpc[w] = "returned" /\ future[w] = "pending"
  /\ future' = [future EXCEPT ![w] = "cancelled"]
  /\ bpc' = [bpc EXCEPT ![w] = "remove"]
  /\ UNCHANGED <<edges, topics, callbacks, removing, hooked, batch, inside>>

\* _remove_callback from a thread that has not got the lock.
RemoveLater(w) ==
  /\ bpc[w] = "remove" /\ inside = {}
  /\ removing' = Append(removing, w)
  /\ bpc' = [bpc EXCEPT ![w] = "returned"]
  /\ UNCHANGED <<edges, topics, callbacks, future, hooked, batch, inside>>

SetterStep(s) == Set(s) \/ CopyCallbacks(s) \/ CallNext(s) \/ RemoveAll(s)
WaiterStep(w) == AppendCallback(w) \/ Hook(w) \/ RemoveLater(w)

BufferNext ==
  \/ \E s \in Setters : Callback(s) \/ StaticCallback(s) \/ SetterStep(s)
  \/ \E w \in Waiters : Ask(w) \/ WaiterStep(w) \/ Cancel(w)
  \/ Broadcast \/ Listen \/ UnregisterListener \/ Clear

\* While a thread is in one of them some call goes on; each has finitely many steps.
BufferFairness == WF_bvars((\E s \in Setters : SetterStep(s)) \/ \E w \in Waiters : WaiterStep(w))

BufferSpec == BufferInit /\ [][BufferNext]_bvars /\ BufferFairness

------------------------------------------------------------------------------
(* Properties.                                                                *)

\* The frames that a chain of transforms joins with a frame: those of every set that
\* it is in and no transform leads out of.
Closed(graph, S) == \A l \in DOMAIN graph : l[1] \in S <=> l[2] \in S
Component(graph, f) ==
  {g \in Frames : \A S \in SUBSET Frames : f \in S /\ Closed(graph, S) => g \in S}

\* Where one frame is as seen from another, when each is at some place in the world;
\* and whether the transforms between some frames are those of such places.
SeenFrom(at, target, source) == Compose(Inverted(at[target]), at[source])
Agrees(graph, at, S) ==
  \A l \in DOMAIN graph : l[1] \in S => graph[l] = SeenFrom(at, l[1], l[2])

\* What may be stored: for some of the edges one of the transforms sent for it.
Graphs ==
  LET sent == {x \in [Links -> Transforms] : \A l \in Links : \E kind \in Kinds : x[l] \in Readings[kind, l]}
  IN UNION {{[l \in L |-> x[l]] : x \in sent} : L \in SUBSET Links}

\* The graphs in which a search finds the frames that a chain of transforms joins
\* with the first one, and of each, where the transforms along all these chains
\* agree with each other, where the first is as seen from it.
SearchedRight ==
  {g \in Graphs :
     \A source \in Frames :
       LET found == Explored(g, source)
           joined == Component(g, source)
       IN /\ Seen(found) = joined
          /\ \A at \in [Frames -> Transforms] :
               Agrees(g, at, joined) => \A x \in found : x[2] = SeenFrom(at, x[1], source)}

\* What lookups go by is, for an edge for which a static transform is stored, what
\* the last static message about it says, else what the last dynamic one says: once
\* that is stored, and unless two threads had messages about it at the same time
\* and stored them in the other order (code: BufferCore._set, _all_edges).
LastUsed ==
  \A l \in DOMAIN AllEdges :
    LET kind == IF l \in DOMAIN static THEN "static" ELSE "dynamic"
    IN AllEdges[l] \in recent[kind, l] \/ ToStore(kind, l) # {}

\* A listener that has worked through its messages knows every static transform as
\* the broadcaster sent it last, however late it came, but for those of which two
\* threads had messages at the same time
\* (code: StaticTransformBroadcaster.sendTransform, TransformListener.static_callback).
StaticKnown ==
  listening = "yes" /\ inbox = <<>> /\ (\A s \in Setters : arriving[s] = {}) =>
    \A l \in DOMAIN published :
      /\ l \in DOMAIN static
      /\ static[l] = published[l] \/ \E x \in recent["static", l] : x # published[l]

\* Whatever transforms of a scene have arrived, in whatever direction, and however
\* often they have changed, a lookup goes by the last of them and composes them
\* right, and a late listener misses none.  When a frame has got another parent, the
\* edge to the old one stays; lookups that reach it are right only if it agrees with
\* the others (code: _find_path_transform, _compose, _inverse).
LookupRight == AllEdges \in SearchedRight /\ LastUsed /\ StaticKnown

Completed(w) == future[w] = "pending" /\ CanTransform(Wanted[w][1], Wanted[w][2])

\* A transform that arrives once the waiter is in the list reaches it: if it
\* completes the chain, the future is settled, unless the buffer is cleared
\* first (code: set_transform, _call_new_data_callbacks).
WaiterHears ==
  \A w \in Waiters :
    (Completed(w) /\ bpc[w] = "returned" /\ \E s \in Setters : bpc[s] = "stored") ~> ~Completed(w)
=============================================================================
