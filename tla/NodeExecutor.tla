---------------------------- MODULE NodeExecutor ----------------------------
(***************************************************************************)
(* A Node's callback queue (lwrclpy/node.py), its callback groups          *)
(* (callback_groups.py) and the threads of an executor that serve it       *)
(* (executors.py): the producers that enqueue callbacks, the workers that  *)
(* scan the queue, hold busy items aside, run a callback and sleep on the  *)
(* generation-counted wake event, the destroy_* calls of the entities,     *)
(* destroy_node() and Executor.shutdown().                                 *)
(*                                                                         *)
(* One action is one critical section (or one unlocked read) of the code.  *)
(* A callback is known by its arrival number: the n-th call of             *)
(* _enqueue_callback to get the lock is n.                                 *)
(***************************************************************************)
EXTENDS Naturals, Sequences, FiniteSets

CONSTANTS Workers,        \* threads that run Executor.spin or _worker
          Entities,       \* timers, subscriptions, ... created with a group
          Groups,         \* callback groups
          GroupOf,        \* the group each entity was created with
          Exclusive,      \* the MutuallyExclusiveCallbackGroups among them
          Early,          \* timers and guards: destroy_node ends them first
          MaxCalls,       \* bound: calls of _enqueue_callback in a behaviour
          MaxSize,        \* LWRCLPY_NODE_CALLBACK_QUEUE_MAXSIZE, 0 = unbounded
          DropNewest,     \* LWRCLPY_NODE_CALLBACK_DROP_POLICY = "drop_newest"
          Removable,      \* entities the program may destroy_* one by one
          MayDestroyNode, \* the program may call destroy_node()
          MayShutdown,    \* the program may shut the executor down
          None            \* no callback, no group, no entity

Calls == 1..MaxCalls

ASSUME NodeAssumption ==
    /\ GroupOf \in [Entities -> Groups]
    /\ Exclusive \subseteq Groups
    /\ Early \subseteq Entities
    /\ Removable \subseteq Entities
    /\ MaxCalls \in Nat
    /\ MaxSize \in Nat
    /\ DropNewest \in BOOLEAN
    /\ MayDestroyNode \in BOOLEAN
    /\ MayShutdown \in BOOLEAN
    /\ None \notin Calls \cup Groups \cup Entities

VARIABLES
    arrived,     \* number of calls of _enqueue_callback so far
    owner,       \* owner[c]: the entity callback c belongs to
    enqPc,       \* enqPc[c]: where the call that enqueued c is
    victim,      \* victim[c]: the callback that call must report as dropped
    queue,       \* Node._callback_queue
    dropped,     \* callbacks taken off (or kept off) the queue for good
    notified,    \* callbacks whose _lwrclpy_on_dropped hook has run
    registered,  \* keys of Node._entity_callback_groups
    closed,      \* entities whose destroy()/cancel() has taken effect
    executing,   \* exclusive groups whose _executing flag is set
    wpc,         \* wpc[w]: where worker w is
    hand,        \* hand[w]: the callback w has popped
    skipped,     \* skipped[w]: callbacks of busy groups w holds aside
    left,        \* left[w]: iterations left of w's scan
    grp,         \* grp[w]: the group w has begun, None without one
    woken,       \* workers for which _ExecutorWakeEvent._generation has
                 \* changed since they read it before their scan
    attached,    \* the node holds the executor's wake event
    stopped,     \* Executor._stopped (or the context is no longer ok())
    finished,    \* callbacks that ran to their end (or found a closed entity)
    destroyPc,   \* where destroy_node is
    destroyLeft, \* entities destroy_node has still to tear down
    destroyCur,  \* the entity it has unregistered and not yet closed
    destroyPend  \* callbacks it has cleared and not yet reported

enqVars     == <<arrived, owner, enqPc, victim>>
dropVars    == <<dropped, notified>>
entityVars  == <<registered, closed>>
workerVars  == <<wpc, hand, skipped, left, grp>>
wakeVars    == <<woken, attached, stopped>>
destroyVars == <<destroyPc, destroyLeft, destroyCur, destroyPend>>

vars == <<enqVars, queue, dropVars, entityVars, executing, workerVars,
          wakeVars, finished, destroyVars>>

Arrived == 1..arrived
GroupOfCall(c) == GroupOf[owner[c]]
Range2Set(s) == {s[i] : i \in 1..Len(s)}
SameExclusiveGroup(c, d) ==
    /\ GroupOfCall(c) = GroupOfCall(d)
    /\ GroupOfCall(c) \in Exclusive

Init ==
    /\ arrived = 0
    /\ owner = [c \in Calls |-> None]
    /\ enqPc = [c \in Calls |-> "new"]
    /\ victim = [c \in Calls |-> None]
    /\ queue = <<>>
    /\ dropped = {}
    /\ notified = {}
    /\ registered = Entities
    /\ closed = {}
    /\ executing = {}
    /\ wpc = [w \in Workers |-> "top"]
    /\ hand = [w \in Workers |-> None]
    /\ skipped = [w \in Workers |-> <<>>]
    /\ left = [w \in Workers |-> 0]
    /\ grp = [w \in Workers |-> None]
    /\ woken = {}
    /\ attached = TRUE
    /\ stopped = FALSE
    /\ finished = {}
    /\ destroyPc = "none"
    /\ destroyLeft = {}
    /\ destroyCur = None
    /\ destroyPend = <<>>

-----------------------------------------------------------------------------
(* Producers: _enqueue_callback.  The lock is held for the first step only. *)

Destroyed == destroyPc # "none"
Full == MaxSize # 0 /\ Len(queue) >= MaxSize

\* What the critical section does with the new callback c: append it, refuse
\* it, or evict the oldest one for it.
Admit(c) ==
    \/ /\ ~Destroyed /\ ~Full
       /\ queue' = Append(queue, c)
       /\ victim' = victim
       /\ enqPc' = [enqPc EXCEPT ![c] = "wake"]
       /\ dropped' = dropped
    \/ /\ Destroyed \/ (Full /\ DropNewest)
       /\ queue' = queue
       /\ victim' = [victim EXCEPT ![c] = c]
       /\ enqPc' = [enqPc EXCEPT ![c] = "notify"]
       /\ dropped' = dropped \cup {c}
    \/ /\ ~Destroyed /\ Full /\ ~DropNewest
       /\ queue' = Append(Tail(queue), c)
       /\ victim' = [victim EXCEPT ![c] = Head(queue)]
       /\ enqPc' = [enqPc EXCEPT ![c] = "notify"]
       /\ dropped' = dropped \cup {Head(queue)}

\* A timer thread, DDS listener, ... hands a callback of its entity to the
\* node; one that looked before the entity was closed may do so after.
Enqueue(e) ==
    /\ arrived < MaxCalls
    /\ arrived' = arrived + 1
    /\ owner' = [owner EXCEPT ![arrived + 1] = e]
    /\ Admit(arrived + 1)
    /\ UNCHANGED <<notified, entityVars, executing, workerVars, wakeVars,
                   finished, destroyVars>>

\* (faulty: the hook is not called)
NotifyNobody(c) ==
    /\ enqPc[c] = "notify"
    /\ enqPc' = [enqPc EXCEPT ![c] = IF victim[c] = c THEN "done" ELSE "wake"]
    /\ victim' = [victim EXCEPT ![c] = None]
    /\ UNCHANGED <<arrived, owner, queue, dropVars, entityVars, executing,
                   workerVars, wakeVars, finished, destroyVars>>

\* The drop hook, outside the lock.  A refused callback wakes nobody.
NotifyDropped(c) ==
    /\ enqPc[c] = "notify"
    /\ notified' = notified \cup {victim[c]}
    /\ enqPc' = [enqPc EXCEPT ![c] = IF victim[c] = c THEN "done" ELSE "wake"]
    /\ victim' = [victim EXCEPT ![c] = None]
    /\ UNCHANGED <<arrived, owner, queue, dropped, entityVars,
                   executing, workerVars, wakeVars, finished, destroyVars>>

\* wake.set(), if the node still holds a wake event.
Wake(c) ==
    /\ enqPc[c] = "wake"
    /\ enqPc' = [enqPc EXCEPT ![c] = "done"]
    /\ woken' = IF attached THEN Workers ELSE woken
    /\ UNCHANGED <<arrived, owner, victim, queue, dropVars, entityVars,
                   executing, workerVars, attached, stopped, finished,
                   destroyVars>>

-----------------------------------------------------------------------------
(* Workers: _worker / spin, _pop_any_callback, Node._pop_callback.          *)

Goto(w, from, to) ==
    /\ wpc[w] = from
    /\ wpc' = [wpc EXCEPT ![w] = to]

\* while ok() and not self._is_stopped()
Top(w) ==
    /\ Goto(w, "top", IF stopped THEN "exit" ELSE "gen")
    /\ UNCHANGED <<enqVars, queue, dropVars, entityVars, executing, hand,
                   skipped, left, grp, wakeVars, finished, destroyVars>>

\* wake_generation = get_generation(), before the scan
ReadGeneration(w) ==
    /\ Goto(w, "gen", "len")
    /\ woken' = woken \ {w}
    /\ UNCHANGED <<enqVars, queue, dropVars, entityVars, executing, hand,
                   skipped, left, grp, attached, stopped, finished, destroyVars>>

\* remaining = len(self._callback_queue)
Snapshot(w) ==
    /\ Goto(w, "len", "pop")
    /\ left' = [left EXCEPT ![w] = Len(queue)]
    /\ UNCHANGED <<enqVars, queue, dropVars, entityVars, executing, hand,
                   skipped, grp, wakeVars, finished, destroyVars>>

\* (faulty: reading the head without removing it)
PeekItem(w) ==
    /\ left[w] > 0 /\ queue # <<>>
    /\ Goto(w, "pop", "begin")
    /\ hand' = [hand EXCEPT ![w] = Head(queue)]
    /\ left' = [left EXCEPT ![w] = @ - 1]
    /\ UNCHANGED <<enqVars, queue, dropVars, entityVars, executing, skipped, grp,
                   wakeVars, finished, destroyVars>>

\* One iteration of the scan pops the head of the queue.
PopItem(w) ==
    /\ left[w] > 0 /\ queue # <<>>
    /\ Goto(w, "pop", "begin")
    /\ hand' = [hand EXCEPT ![w] = Head(queue)]
    /\ queue' = Tail(queue)
    /\ left' = [left EXCEPT ![w] = @ - 1]
    /\ UNCHANGED <<enqVars, dropVars, entityVars, executing, skipped, grp,
                   wakeVars, finished, destroyVars>>

\* The snapshot is used up, or other workers have emptied the queue.
ScanEnds(w) ==
    /\ left[w] = 0 \/ queue = <<>>
    /\ Goto(w, "pop", "restore")
    /\ left' = [left EXCEPT ![w] = 0]
    /\ UNCHANGED <<enqVars, queue, dropVars, entityVars, executing, hand,
                   skipped, grp, wakeVars, finished, destroyVars>>

\* _begin_callback_execution: no group, a free group, or a busy one.
HasGroup(w) == owner[hand[w]] \in registered

\* (faulty: can_execute() is asked but the flag is not set)
BeginUnmarked(w) ==
    /\ wpc[w] = "begin"
    /\ LET free == GroupOfCall(hand[w]) \notin executing
       IN \/ /\ ~HasGroup(w)
             /\ Goto(w, "begin", "restore")
             /\ UNCHANGED <<executing, grp>>
          \/ /\ HasGroup(w) /\ free
             /\ Goto(w, "begin", "restore")
             /\ grp' = [grp EXCEPT ![w] = GroupOfCall(hand[w])]
             /\ executing' = executing
          \/ /\ HasGroup(w) /\ ~free
             /\ Goto(w, "begin", "recheck")
             /\ UNCHANGED <<executing, grp>>
    /\ UNCHANGED <<enqVars, queue, dropVars, entityVars, hand, skipped, left,
                   wakeVars, finished, destroyVars>>

BeginExecution(w) ==
    /\ wpc[w] = "begin"
    /\ LET g == GroupOfCall(hand[w])
       IN \/ /\ ~HasGroup(w)
             /\ Goto(w, "begin", "restore")
             /\ UNCHANGED <<executing, grp>>
          \/ /\ HasGroup(w) /\ g \notin executing
             /\ Goto(w, "begin", "restore")
             /\ grp' = [grp EXCEPT ![w] = g]
             /\ executing' = executing \cup ({g} \cap Exclusive)
          \/ /\ HasGroup(w) /\ g \in executing
             /\ Goto(w, "begin", "recheck")
             /\ UNCHANGED <<executing, grp>>
    /\ UNCHANGED <<enqVars, queue, dropVars, entityVars, hand, skipped, left,
                   wakeVars, finished, destroyVars>>

\* The busy item is looked up once more: still grouped, it is held aside;
\* unregistered since, it is taken without a group.
Recheck(w) ==
    /\ wpc[w] = "recheck"
    /\ \/ /\ HasGroup(w)
          /\ Goto(w, "recheck", "pop")
          /\ skipped' = [skipped EXCEPT ![w] = Append(@, hand[w])]
          /\ hand' = [hand EXCEPT ![w] = None]
       \/ /\ ~HasGroup(w)
          /\ Goto(w, "recheck", "restore")
          /\ UNCHANGED <<skipped, hand>>
    /\ UNCHANGED <<enqVars, queue, dropVars, entityVars, executing, left, grp,
                   wakeVars, finished, destroyVars>>

\* (faulty: appended again, behind what has come meanwhile)
RestoreToBack(w) ==
    /\ Goto(w, "restore", IF hand[w] = None THEN "check" ELSE "call")
    /\ queue' = queue \o skipped[w]
    /\ skipped' = [skipped EXCEPT ![w] = <<>>]
    /\ left' = [left EXCEPT ![w] = 0]
    /\ UNCHANGED <<enqVars, dropVars, entityVars, executing, hand, grp,
                   wakeVars, finished, destroyVars>>

\* extendleft(reversed(skipped)): back to the front, no wake.
Restore(w) ==
    /\ Goto(w, "restore", IF hand[w] = None THEN "check" ELSE "call")
    /\ queue' = skipped[w] \o queue
    /\ skipped' = [skipped EXCEPT ![w] = <<>>]
    /\ left' = [left EXCEPT ![w] = 0]
    /\ UNCHANGED <<enqVars, dropVars, entityVars, executing, hand, grp,
                   wakeVars, finished, destroyVars>>

\* The queued wrapper runs the user's callback unless the entity is closed.
CallUser(w) ==
    /\ Goto(w, "call", IF owner[hand[w]] \in closed THEN "inert" ELSE "running")
    /\ UNCHANGED <<enqVars, queue, dropVars, entityVars, executing, hand,
                   skipped, left, grp, wakeVars, finished, destroyVars>>

\* The callback returns or raises; finally: end_callback(entity, group).
EndExecution(w) ==
    /\ Goto(w, "running", "top") \/ Goto(w, "inert", "top")
    /\ executing' = executing \ {grp[w]}
    /\ finished' = finished \cup {hand[w]}
    /\ hand' = [hand EXCEPT ![w] = None]
    /\ grp' = [grp EXCEPT ![w] = None]
    /\ UNCHANGED <<enqVars, queue, dropVars, entityVars, skipped, left,
                   wakeVars, destroyVars>>

\* (faulty: wait() without since, so a wake during the scan is forgotten)
WaitFromNow(w) ==
    /\ Goto(w, "check", IF stopped THEN "top" ELSE "wait")
    /\ woken' = woken \ {w}
    /\ UNCHANGED <<enqVars, queue, dropVars, entityVars, executing, hand,
                   skipped, left, grp, attached, stopped, finished, destroyVars>>

\* Nothing to run: leave when stopped, otherwise wait.
CheckStopped(w) ==
    /\ Goto(w, "check", IF stopped THEN "top" ELSE "wait")
    /\ UNCHANGED <<enqVars, queue, dropVars, entityVars, executing, hand,
                   skipped, left, grp, wakeVars, finished, destroyVars>>

\* wait(): a generation other than the one read before the scan ends it.
WakeUp(w) ==
    /\ w \in woken
    /\ \/ Goto(w, "wait", "gen")
       \/ Goto(w, "wait", "top")
    /\ UNCHANGED <<enqVars, queue, dropVars, entityVars, executing, hand,
                   skipped, left, grp, wakeVars, finished, destroyVars>>

\* wait(): so does the cap of 50 ms.
PollTimeout(w) ==
    /\ w \notin woken
    /\ \/ Goto(w, "wait", "gen")
       \/ Goto(w, "wait", "top")
    /\ UNCHANGED <<enqVars, queue, dropVars, entityVars, executing, hand,
                   skipped, left, grp, wakeVars, finished, destroyVars>>

-----------------------------------------------------------------------------
(* Executor.shutdown                                                        *)

Stop ==
    /\ MayShutdown /\ ~stopped
    /\ stopped' = TRUE
    /\ UNCHANGED <<enqVars, queue, dropVars, entityVars, executing, workerVars,
                   woken, attached, finished, destroyVars>>

\* set() the wake event, then disconnect it from the node.
Disconnect ==
    /\ stopped /\ attached
    /\ woken' = Workers
    /\ attached' = FALSE
    /\ UNCHANGED <<enqVars, queue, dropVars, entityVars, executing, workerVars,
                   stopped, finished, destroyVars>>

-----------------------------------------------------------------------------
(* destroy_timer, destroy_subscription, ...: close, then unregister.        *)

CloseEntity(e) ==
    /\ e \in Removable \ closed
    /\ closed' = closed \cup {e}
    /\ UNCHANGED <<enqVars, queue, dropVars, registered, executing, workerVars,
                   wakeVars, finished, destroyVars>>

UnregisterEntity(e) ==
    /\ e \in Removable \cap closed \cap registered
    /\ registered' = registered \ {e}
    /\ UNCHANGED <<enqVars, queue, dropVars, closed, executing, workerVars,
                   wakeVars, finished, destroyVars>>

-----------------------------------------------------------------------------
(* destroy_node: timers and guards, the queue, then the DDS entities; here  *)
(* an entity is unregistered BEFORE it is closed.                           *)

DestroyNode ==
    /\ MayDestroyNode /\ destroyPc = "none"
    /\ destroyPc' = "early"
    /\ destroyLeft' = Entities
    /\ UNCHANGED <<enqVars, queue, dropVars, entityVars, executing, workerVars,
                   wakeVars, finished, destroyCur, destroyPend>>

DestroyUnregister(e) ==
    /\ destroyCur = None
    /\ \/ destroyPc = "early" /\ e \in Early \cap destroyLeft
       \/ destroyPc = "late" /\ e \in destroyLeft
    /\ destroyCur' = e
    /\ destroyLeft' = destroyLeft \ {e}
    /\ registered' = registered \ {e}
    /\ UNCHANGED <<enqVars, queue, dropVars, closed, executing, workerVars,
                   wakeVars, finished, destroyPc, destroyPend>>

DestroyClose ==
    /\ destroyCur # None
    /\ closed' = closed \cup {destroyCur}
    /\ destroyCur' = None
    /\ UNCHANGED <<enqVars, queue, dropVars, registered, executing, workerVars,
                   wakeVars, finished, destroyPc, destroyLeft, destroyPend>>

DestroyClearQueue ==
    /\ destroyPc = "early" /\ destroyCur = None /\ destroyLeft \cap Early = {}
    /\ destroyPc' = "notify"
    /\ destroyPend' = queue
    /\ dropped' = dropped \cup Range2Set(queue)
    /\ queue' = <<>>
    /\ UNCHANGED <<enqVars, notified, entityVars, executing, workerVars,
                   wakeVars, finished, destroyLeft, destroyCur>>

DestroyNotify ==
    /\ destroyPc = "notify" /\ destroyPend # <<>>
    /\ notified' = notified \cup {Head(destroyPend)}
    /\ destroyPend' = Tail(destroyPend)
    /\ UNCHANGED <<enqVars, queue, dropped, entityVars, executing, workerVars,
                   wakeVars, finished, destroyPc, destroyLeft, destroyCur>>

DestroyAdvance ==
    /\ destroyPend = <<>> /\ destroyCur = None
    /\ \/ destroyPc = "notify" /\ destroyPc' = "late"
       \/ destroyPc = "late" /\ destroyLeft = {} /\ destroyPc' = "done"
    /\ UNCHANGED <<enqVars, queue, dropVars, entityVars, executing, workerVars,
                   wakeVars, finished, destroyLeft, destroyCur, destroyPend>>

-----------------------------------------------------------------------------

Producer(c) == NotifyDropped(c) \/ Wake(c)

Worker(w) ==
    \/ Top(w) \/ ReadGeneration(w) \/ Snapshot(w)
    \/ PopItem(w) \/ ScanEnds(w) \/ BeginExecution(w) \/ Recheck(w) \/ Restore(w)
    \/ CallUser(w) \/ EndExecution(w)
    \/ CheckStopped(w) \/ WakeUp(w) \/ PollTimeout(w)

Destroyer ==
    \/ \E e \in Entities : DestroyUnregister(e)
    \/ DestroyClose \/ DestroyClearQueue \/ DestroyNotify \/ DestroyAdvance

Next ==
    \/ \E e \in Entities : Enqueue(e)
    \/ \E c \in Calls : Producer(c)
    \/ \E w \in Workers : Worker(w)
    \/ Stop \/ Disconnect
    \/ \E e \in Entities : CloseEntity(e) \/ UnregisterEntity(e)
    \/ DestroyNode \/ Destroyer

\* Every thread keeps running: producers finish their call, workers their
\* loop (user callbacks return, waits time out), destroy_node its teardown.
\* Nothing obliges an entity to produce or the program to stop or destroy.
Fairness ==
    /\ \A c \in Calls : WF_vars(Producer(c))
    /\ \A w \in Workers : WF_vars(Worker(w))
    /\ WF_vars(Destroyer)
    /\ WF_vars(Disconnect)

Spec == Init /\ [][Next]_vars
FairSpec == Spec /\ Fairness

-----------------------------------------------------------------------------
(* Properties                                                               *)

WorkerPcs == {"top", "gen", "len", "pop", "begin", "recheck", "restore",
              "call", "running", "inert", "check", "wait", "exit"}

EnqTypeOK ==
    /\ arrived \in 0..MaxCalls
    /\ owner \in [Calls -> Entities \cup {None}]
    /\ \A c \in Calls : c <= arrived <=> owner[c] \in Entities
    /\ enqPc \in [Calls -> {"new", "notify", "wake", "done"}]
    /\ victim \in [Calls -> Arrived \cup {None}]
    /\ \A c \in Calls : enqPc[c] = "notify" => victim[c] # None

QueueTypeOK ==
    /\ queue \in Seq(Arrived)
    /\ destroyPend \in Seq(Arrived)
    /\ dropped \subseteq Arrived
    /\ notified \subseteq Arrived
    /\ finished \subseteq Arrived

EntityTypeOK ==
    /\ registered \subseteq Entities
    /\ closed \subseteq Entities
    /\ destroyPc \in {"none", "early", "notify", "late", "done"}
    /\ destroyLeft \subseteq Entities
    /\ destroyCur \in Entities \cup {None}

WorkerTypeOK ==
    /\ wpc \in [Workers -> WorkerPcs]
    /\ hand \in [Workers -> Arrived \cup {None}]
    /\ \A w \in Workers :
          wpc[w] \in {"begin", "recheck", "call", "running", "inert"}
              => hand[w] # None
    /\ skipped \in [Workers -> Seq(Arrived)]
    /\ left \in [Workers -> Nat]
    /\ grp \in [Workers -> Groups \cup {None}]

SharedTypeOK ==
    /\ executing \subseteq Exclusive
    /\ woken \subseteq Workers
    /\ attached \in BOOLEAN
    /\ stopped \in BOOLEAN

\* Every variable stays in its domain: callbacks everywhere are callbacks that
\* have arrived, and a worker past the pop holds one.
TypeOK == EnqTypeOK /\ QueueTypeOK /\ EntityTypeOK /\ WorkerTypeOK /\ SharedTypeOK

\* Callbacks whose user code a worker is inside of.
Running == {hand[w] : w \in {v \in Workers : wpc[v] = "running"}}

\* MutuallyExclusiveCallbackGroup: two workers are never inside user
\* callbacks of the same exclusive group, whichever entities are destroyed
\* one by one meanwhile (their callbacks run without a group, but are inert).
MutualExclusion ==
    \A v, w \in Workers :
        v # w /\ wpc[v] = "running" /\ wpc[w] = "running"
            => ~SameExclusiveGroup(hand[v], hand[w])

\* Why exclusion holds while destroy_node is not called: a worker that has
\* begun a group owns its flag; one that runs without a group found its entity
\* unregistered, hence closed, and so never gets to the user's code.
GroupInv ==
    /\ destroyPc = "none" /\ destroyCur = None
    /\ Entities \ registered \subseteq closed
    /\ \A w \in Workers :
          /\ wpc[w] \in {"top", "gen", "len", "pop", "check", "wait", "exit"}
                => hand[w] = None
          /\ grp[w] # None
                => /\ wpc[w] \in {"restore", "call", "running", "inert"}
                   /\ hand[w] # None /\ grp[w] = GroupOfCall(hand[w])
          /\ grp[w] \in Exclusive => grp[w] \in executing
          /\ wpc[w] \in {"restore", "call"} /\ hand[w] # None /\ grp[w] = None
                => owner[hand[w]] \notin registered
          /\ wpc[w] = "running" => grp[w] # None
    /\ \A v, w \in Workers : v # w /\ grp[v] = grp[w] => grp[v] \notin Exclusive

\* Every callback that has arrived is in exactly one place: in the queue, held
\* aside by a scan, in a worker's hand, finished, or dropped.
Once(s) == \A i, j \in 1..Len(s) : s[i] = s[j] => i = j
Gone == finished \cup dropped
Holds(w) == Range2Set(skipped[w]) \cup ({hand[w]} \ {None})

HoldingInv ==
    \A w \in Workers :
        /\ Once(skipped[w]) /\ hand[w] \notin Range2Set(skipped[w])
        /\ wpc[w] \in {"top", "gen", "len", "pop", "check", "wait", "exit"}
              => hand[w] = None

Placed ==
    /\ \A c \in Arrived : c \in Gone \cup Range2Set(queue) \/ \E w \in Workers : c \in Holds(w)
    /\ finished \cap dropped = {}
    /\ Range2Set(queue) \cap Gone = {}
    /\ \A w \in Workers : Holds(w) \cap (Gone \cup Range2Set(queue)) = {}
    /\ \A v, w \in Workers : v # w => Holds(v) \cap Holds(w) = {}

PlaceInv == Once(queue) /\ HoldingInv /\ Placed

Started == Running \cup finished

\* The comment in _pop_callback: what a scan keeps aside is not overtaken by a
\* later callback of the same busy group.
AsideNotOvertaken ==
    \A v, w \in Workers :
        wpc[w] = "running"
            => \A c \in Range2Set(skipped[v]) :
                  ~(c < hand[w] /\ SameExclusiveGroup(c, hand[w]))

Asleep(w) == wpc[w] = "wait" /\ w \notin woken
ProducersIdle == \A c \in Calls : enqPc[c] \in {"new", "done"}

NoLostWakeUp ==
    attached /\ ProducersIdle /\ (\A w \in Workers : Asleep(w))
        => \A i \in 1..Len(queue) : GroupOfCall(queue[i]) \in executing

DestroyReleasesAll ==
    destroyPc = "done" /\ ProducersIdle /\ (\A w \in Workers : wpc[w] = "exit")
        => Arrived \subseteq finished \cup notified

\* No callback is stranded.  It never happens that every worker waits for a
\* wake that nobody is about to give while a runnable callback is in the queue
\* (only the 50 ms poll would find it).  And once destroy_node has returned and
\* the workers have left, every callback was either run or reported to its
\* owner, which frees its loans and flags.
NoStrandedCallback == NoLostWakeUp /\ DestroyReleasesAll

\* Why order and wakes are right with a single thread: it never meets a busy
\* group, so it holds nothing aside and takes the callbacks in their order.
Sorted(s) == \A i, j \in 1..Len(s) : i < j => s[i] < s[j]
SoloOrder ==
    /\ Sorted(queue)
    /\ \A w \in Workers :
          /\ skipped[w] = <<>> /\ wpc[w] # "recheck"
          /\ executing \subseteq {grp[w]}
          /\ grp[w] # None => /\ hand[w] # None
                               /\ wpc[w] \in {"restore", "call", "running", "inert"}
          /\ hand[w] # None => \A c \in Range2Set(queue) : hand[w] < c
          /\ \A f \in finished :
                /\ \A c \in Range2Set(queue) : f < c
                /\ hand[w] # None => f < hand[w]

\* What its scan did not count is announced, or somebody is about to announce it.
WillWake(c) == enqPc[c] = "wake" \/ (enqPc[c] = "notify" /\ victim[c] # c)
SoloWake ==
    /\ \A c \in Calls : enqPc[c] # "new" => c \in Arrived
    /\ \A w \in Workers :
          /\ wpc[w] \in {"check", "wait"} \/ (wpc[w] = "restore" /\ hand[w] = None)
                => left[w] = 0
          /\ wpc[w] \in {"pop", "restore", "check", "wait"} /\ attached /\ hand[w] = None
                => Len(queue) <= left[w] \/ w \in woken \/ \E c \in Calls : WillWake(c)

\* What was dropped has been reported, or somebody is about to report it.
Reported ==
    /\ destroyPc \in {"notify", "late", "done"} => queue = <<>>
    /\ destroyPend # <<>> => destroyPc = "notify"
    /\ \A c \in dropped :
          \/ c \in notified \cup Range2Set(destroyPend)
          \/ \E d \in Calls : enqPc[d] = "notify" /\ victim[d] = c

\* The node and its workers implement CallbackService: a callback runs at
\* most once, never after it was dropped, and an exclusive group admits one
\* at a time.
Service ==
    INSTANCE CallbackService WITH
        waiting <- Arrived \ (Started \cup dropped),
        running <- Running,
        ended <- finished
ImplementsService == Service!Spec

\* Every callback handed to the node is eventually run or reported dropped.
Unserved == Arrived \ (finished \cup notified)
EveryCallServed == Unserved # {} ~> Unserved = {}
=============================================================================
