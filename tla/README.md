# lwrclpy: TLA+ models, model checking and proofs

lwrclpy reimplements the `rclpy` API in Python on top of the Fast DDS bindings.
It has no event loop of its own that would put things in order: DDS listener
threads, timer threads and user threads hand callbacks to a node's queue,
executor threads run them, and cancel, destroy and shutdown calls arrive from any
thread at any moment.  What is hard to get right, and hard to test, is what
happens between two lock sections.  The specifications in this directory are
about exactly that.  All paths below are under `src/`.

Contents: [inventory](#inventory), [modules](#modules), [runs](#runs),
[fairness](#fairness), [proofs](#proofs), [findings](#findings),
[known limits](#known-limits), [not modelled](#not-modelled), [plan](#plan).

## Inventory

| part (source) | state it keeps | operations | hard behaviour | what makes it correct | module |
|---|---|---|---|---|---|
| Node callback queue (`lwrclpy/node.py`) | deque of callbacks, bound and drop policy, drop hooks, `_destroyed` | `_enqueue_callback`, `_pop_callback`, `destroy_node`, `destroy_*` | a scan pops, skips and restores with the lock released in between | no callback lost or duplicated, none overtaken in its group but while held aside; drops reported | NodeExecutor, ArrivalOrder |
| Executors (`executors.py`) | node list, `_stopped`, wake generation, task queue | spin loops, `_worker`, `_pop_any_callback`, `create_task`, `shutdown` | wake-ups between scan and wait; shutdown racing create_task | no stranded work, no task left pending | NodeExecutor, ExecutorTasks |
| Callback groups (`callback_groups.py`) | `_executing` flag | begin and end execution | test-and-set by several workers | mutual exclusion | NodeExecutor |
| Future (`future.py`) | outcome, callbacks, event | set, cancel, add, remove, await | completion races | callbacks once, outcome final | Future |
| Timer (`timer.py`) | stop event, pending flag, thread | start, cancel, reset | timer, executor and user threads share the flags | one callback outstanding; a live timer fires | Timer |
| Guard condition (`guard_condition.py`) | pending, destroyed | trigger, destroy | trigger during a callback; drops | no trigger goes unheard | GuardCondition |
| Client, service (`client.py`, `service.py`) | one pending future per client | call, call_async, destroy | late answers, several clients on one reply topic | a future is settled, with its own response | ClientService |
| Actions (`action.py`) | goals, results, waiting requests, FIFO of futures, status table | send, result, cancel, execute | answers out of order, pool threads, retention | each request gets its own answer, once | Actions |
| Subscription (`subscription.py`) | reader, loans, pending and again flags of the drain | listener, drain, take, loans, destroy | samples during a drain; a dropped drain; destroy with loans out | no sample stranded, in order, no loan on a deleted reader | Subscription |
| Publisher (`publisher.py`) | use counts of the writer, loans, exported buffers | publish, borrow, export, destroy | destroy during a write or a loan, and giving up on it | no use after delete | Publisher |
| Side channels (`shared_memory.py`, parts of publisher and subscription) | registration files, matched readers and a cached count of each, blocks, metadata | export, announce, send, match | two topics in no order; registering and matching are independent; a stale count; a process that dies | no payload is missed without a cause | SideChannel |
| Node entities (`node.py`), context (`context.py`) | entity lists; participant, tracked entities | create, destroy, `destroy_node`, init, shutdown | lists that shrink under a loop; init during shutdown; late entities; an endpoint of several that fails; callbacks before an entity is known | nothing open is left behind, no early callback lost | NodeEntities, Construction |
| Spin functions (`executors.py`) | an executor's nodes, the node's one wake event | `spin`, `spin_once`, `spin_some`, `spin_until_future_complete`, add and remove a node | several of them at once around one node, with one or several executors | a callback is taken while somebody spins; a future that is done ends the spin | Spinning |
| Waiting for the other side (`client.py`, `action.py`) | matched counts | `wait_for_service`, `wait_for_server` | endpoints are matched, and read, one by one | ready means matched in every direction; a wait with a limit returns | Readiness |
| Messages (`message_utils.py`, `compat.py`, `buffers.py`, `publisher.py`, `tf2_ros/_message_compat.py`) | Python attributes beside the fields of the C++ message | read, assign, write in place, expose, publish in four ways | two places for one value, and publishes that clear or keep one of them | what was written last is read and goes out | Messages |
| Parameters (`node.py`, `parameters.py`) | values, descriptors | declare, declare in bulk, set, set atomically | a declaration in steps; descriptors that change | a value fits its descriptor | Parameters |
| Node logger (`node.py`) | three bounded memories | `*_throttle`, `*_once`, `*_skipfirst` | look and note are two steps; keys that are forgotten | a repeated message has a reason | NodeLogger |
| QoS (`qos.py`) and data sharing (`publisher.py`, `subscription.py`) | profiles, data sharing of an endpoint | apply, open, open once more | durations that do not fit; the second attempt | endpoints match when their profiles do | Profiles |
| Names (`utils.py`, `node.py`) | namespace, entities | resolve, count, list | names converted back and forth | one topic for one name; queries agree | Names |
| Types (`utils.py`, `typesupport.py`, `service_aliases.py`) | caches, registrations of a participant | resolve, register, open | caches that outlive a participant | an endpoint's type is registered, its class is its own | Types |
| Clock (`clock.py`) | simulated time, jump callbacks | set, clear, sleep | setters and sleepers at once | each jump is told once; sleepers wake | Clocks |
| Blocks of shared memory (`shared_memory.py`, `publisher.py`) | blocks, the table that keeps them, resource trackers | export, keep, attach, release, destroy, end of a process | processes that end in any order | a kept block can be opened, none is left | Blocks |
| CallbackQueue (`_callback_queue.py`) | queue, closed, consumer thread | enqueue, close | close on a full queue | the consumer ends | CallbackQueue |
| Async runner (`_async.py`) | event loop, its thread | run, shutdown | shutdown between start and submit | run returns | AsyncRunner |
| tf2 (`tf2_py`, `tf2_ros`) | transform buffer, waiting futures, listener and static broadcaster | set, clear, lookup, wait, broadcast | a transform arrives while a waiter registers; frames with two parents; a late listener | lookups are right, waiters hear | TransformBuffer |
| launch (`launch`, `launch_ros`) | processes, monitors, timers, scopes | run, visit, shut down, set the environment | exits, timers and signals racing `run()`; an action that raises in a scope; two copies of the environment | no process is left; scopes end; a process gets what was set | Launch, LaunchScopes, LaunchEnvironment |
| Compatibility and bootstrap, build scripts | none | re-exports, loading, patching of generated sources | none | | not modelled |

How they interact: every entity with a callback is created with a group and an
enqueue function of its node; producers call it from their own threads; the node
keeps the callback or drops it (and then calls the producer's
`_lwrclpy_on_dropped` hook, which takes back a pending flag or a loan); an
executor's workers scan the nodes' queues, begin the group, call, end the group,
and sleep on one generation-counted wake event.  Timers, guard conditions,
clients, services and action servers are such producers.  `Future` is what
`create_task`, `call_async` and the action client hand out.

## Modules

One action is one critical section of the code, one unlocked read, or one call
that is visible to another thread.  The program counters (`wpc`, `cpc`, `tpc`,
...) say where each thread is between them.  Definitions marked "(faulty: ...)"
stand before the one they would replace; nothing uses them, they are there
to show what each property notices.

**NodeExecutor** (with `MCNodeExecutor`): the node's deque (`queue`), what
`_pop_callback` holds aside (`skipped`, `left`, `hand`), the groups' flags
(`executing`), the entity-group map (`registered`), the wake event (`woken`: the
generation has changed since the worker read it), and the teardown.
`Admit`/`Enqueue`/`NotifyDropped`/`Wake` are `_enqueue_callback`;
`ReadGeneration`, `Snapshot`, `PopItem`, `BeginExecution`, `Recheck`, `ScanEnds`,
`Restore` and `CheckStopped` are `_pop_any_callback` with `_pop_callback`, item
by item, since the lock is released between items; `CallUser` and `EndExecution`
are `_execute_callback`; `PollTimeout` is the 50 ms wait; `CloseEntity` and
`UnregisterEntity` are `destroy_timer` and its like; `Destroy*` is
`destroy_node`; `Stop` and `Disconnect` are `shutdown`.  Callbacks are numbered
in the order in which they got the lock.

**ArrivalOrder** extends NodeExecutor by one history variable: `passed` holds the
pairs `<<c, d>>` of callbacks of one group of which `d` was taken out of the queue
while a scan held the earlier `c` aside.  The order of the callbacks of a group is
stated with it.

**CallbackService**: what the node and its workers promise, without queue, scans
and workers: a callback waits, then starts once or is given up; an exclusive
group admits one at a time.  `NodeExecutor` implements it (`ImplementsService`;
the mapping is `waiting` = arrived, neither started nor dropped; `running` = in a
worker's hand, inside the user's code).

**ExecutorTasks**: `create_task` (`CreateTask`, `AppendTask`, `Refuse`: the two
looks at `_stopped`), the workers (`PopTask`, `CheckCancelled`, `Invoke`,
`Return`, then a time-limited look at the nodes, `FindCallback` to `Expire`), and
any number of `shutdown()` calls (`Shutdown`, `Drain`, `CancelDrained`), one of
which may be the one at the end of `MultiThreadedExecutor.spin`.  The wake event
only shortens the wait and is in NodeExecutor.

**Future**: `Complete`, `SetEvent`, `TakeCallbacks`, `RunNext` are `set_result`,
`set_exception` or `cancel` of one thread; `AddCallback`/`CallNow` is
`add_done_callback`; `RemoveCallback` is `remove_done_callback`; `Await*` is
`_await_impl`, whose `on_done` is a callback like any other.  `set_result` and
`set_exception` differ in the outcome only, and the outcome is the thread that
decided it (`winner`).

**Timer**: the timer's thread (`Loop` to `Exit` is `_run`), the wrapper it
enqueues as executor threads run it (`TakeWrapper` to `ClearPending`), the node's
drop hook (`Drop`, `OnDropped`), and user threads in `start`, `cancel` and
`reset`.  Time is the order of events: a period may be over at any moment.
`signaled` is set when `_stop.set()` meets a thread inside `_stop.wait()`: it
wakes even if the event is cleared again at once, as Python's `Event` does.

**GuardCondition**: `trigger` (`Trigger`, `Enqueue`), the wrapper, the drop hook
and `destroy`.

**ClientService**: clients of one service name with their single slot
(`_pending_future`), the request topic, the service callback, and the reply topic
as each client reads it.  `Call`, `Publish`, `PublishFails`, `SetException`,
`Answered`, `Timeout`, `CancelTimedOut` are `call_async` and `call`;
`OnResponse`/`Resolve` is the client's callback, `TakeRequest`/`PublishResponse`
the service's; `DestroyClient`/`CancelPending` is `destroy`.  Messages carry the
number of the call they belong to, which the code cannot see.  DDS is external:
topics are in order, and lose their oldest message when `Lossy`.

**Actions**: one `ActionClient` and one `ActionServer`, the three request and
reply topics.  The client registers a future and its key, publishes, and matches
goal and result replies with the oldest key; the server's callbacks run one at a
time (`serving` is where that callback is), its pool runs up to `PoolSize` goals
(`xpc`).  A goal of `Deferred` is not started by the server: `handle_accepted_callback` hands
its handle to the program (`MarkHanded`), which executes it when it likes
(`SubmitHanded`).  `_publish_if_alive` swallows a publish that fails: `Send` may lose
any reply, at most `MaxLost` of them, and `lost` remembers which.  `MaxFaults` bounds,
in a run, the ends destroyed and replies lost together.  `Stale`/`Pruned` is the
retention, which `Expiring` switches on for results, requests, or neither; the
feedback and status topics are left out.

**Subscription**: one subscription, its reader, the group it runs in and the
threads that use it.  Samples are numbered as they arrive: what the reader still
has is between `read` and `arrived`, and a take is a set of numbers.  `Arrive` and
`OnDataAvailable` are the listener;
`ReceiverEnqueues` hands the drain to the node; a worker's drain is `PopItem`,
`CheckClosed`, `TakeCopies` or `TakeLoan` (the two ways of taking), `Offer` per
sample, `HitLimit`, `Finish` and `Requeue`; `BeginCall`/`EndCall` is the user's
callback.  `DropOldest`/`DropHook` is a drain the node drops.  `PollCopies`,
`PollLoan` and `UserReturns` are `take` and `take_loan` from the program's own
threads, `Register` to `EndReturn` a loan's `return_loan`, and `Destroy`,
`Close`, `NoWait`, `LoansAreBack`, `LoanTimeout`, `DeleteReader` is `destroy`.

**SideChannel**: a message travels as metadata on one topic and payload on
another (a block of shared memory, or DDS).  A subscription makes its reader
(`OpenReader`), writes its registration file (`RegisterReader`) and closes
(`CloseReader`); discovery matches and unmatches its reader when it likes (`Match`);
`Recount` is the publisher's cached look at the registration files.  So a reader may
be registered and not matched, or matched and no longer registered.  `Export`, `SkipExport`,
`SignalOnly`, `Announce`, `Send` are `publish`; `Update` and `Receive` are the
subscription, which keeps the metadata and pairs them with the messages; `Crash`
takes away the publisher's process with its blocks.

**Publisher**: the use of one writer.  `BeginWriterUse`, `UseDirectly`, `Loan`,
`Write`, `LoanedWriteFails`, `Release`, `EndWriterUse` is `publish`;
`PublishLoaned`, `Abandon` end a borrowed message; `Export`, `Announce` keep
buffers alive until the keepalive is full; `Destroy`, `WaitForWrites`,
`TakeWriter`, `UseTimeout`, `CloseBuffers`, `DeleteWriter` is `destroy`.

**NodeEntities** with the context: `InitContext`, `BeginShutdown`,
`DestroyTracked`, `EndShutdown` are `init` and `shutdown`; `BeginCreate`,
`GetParticipant`, `Construct`, `TrackEntity` one `create_*`; `DestroyEntity`,
`RemoveEntity` one `destroy_*`; `DestroyNode`, `CloseNext`, `EndPhase` the loops
of `destroy_node` over lists that others shorten.

**Construction** looks inside `Construct`: a `create_*` call as a list of steps
(`ThePlan`) for each of seven kinds of entity, publisher to action client.
`NodeTopic`, `FindTopic`, `OpenEndpoint`, `OpenCompanion`, `ShareCompanion` and
`Start` are the constructors, any step of which may raise; `Group`, `Track`,
`Bind`, `Flush`, `Bound` what the node does with the result; `Enqueue`,
`EnqueueMetadata` and `Pass` a listener or a timer that calls back before that.

**Spinning**: the calls around one node and its queue, `add_node` with its check
and its setting of the wake event in two steps, `remove_node`, and each spin
function's loop.  **Readiness**: `Look`, `Count`, `Sleep` are a call that waits,
`Match` and `Unmatch` discovery.  **Clocks**: `SetOverride`, `CallJump`,
`SetReturns`, `ClearOverride` are the setters, `LookAtContext` to `WaitEnds` one
turn of `sleep_until`.  **Parameters**: one action for each call, since each holds
the lock, except that a declaration in bulk goes on step by step (`DeclareNext`).
**NodeLogger**: a look (`Look`) and a note (`RememberTime`, `RememberOnce`,
`RememberSkipped`).

**Messages**: `native` is the C++ field and `shadow` the attribute of the Python
object, `meant` what the program wrote last.  The writes are `SetAttr`,
`CallSetter`, `InPlace`, `WriteBuffer` and `Assign`; `PublishRegular`,
`PublishLoaned`, `PublishSharedMemory` and the receiving side's `Receive` say
what each path reads, sends, clears and exposes.  `sent` is what went out last:
`main` on the message's topic, and `side` the payload of the side channel with the field it
is of; the next write forgets both.  `PatchMessageClass` and `PatchTf` are imports that change
a class while there are objects of it.

**Profiles**, **Names**, **Types** are algorithms: `ApplyToWriter`, `ApplyToReader`
(with `ApplyDuration`) for all pairs of profiles; `ResolveName`,
`ResolveTopicName`, `ServiceTopics`, `ActionTopics` and the queries, over
sequences of words; `ResolveGeneratedType`, `ResolveServiceType`,
`ResolveActionType` over a directory of generated modules.  Their few actions
make and destroy what the algorithms are asked about.  In Types a node outlives
`shutdown()`: it keeps its participant (`home`) and its `_type_cache`, where `known`
also says which participant was told of the class; `opened` holds each endpoint's
class, the participant it was opened on and the one that was told of its type.  The
entities of Names have identities, so two of the same name are two.

**Blocks**: `ExportBlock`, `AnnounceBlock`, `Keep`, `Send` are the publishing threads;
`BeginDestroy`, `EndDestroy`, `Collect` the publisher's end; `Attach`, `Open`,
`UnregisterBlock`, `TakeView`, `DropView`, `ReleaseBuffer` a reader; `EndProcess` the end of a
process and, with its last one, of the resource tracker that it may share.

**CallbackQueue**: `Enqueue`, `Close`, `Evict`, `PutAgain` (making room for the
sentinel), `Join`, and the consumer's `Get`, `Return`.  **AsyncRunner**:
`EnsureStarted`, `LoopMade`, `Submit`, `Return` are `run`; `MakeLoop`,
`RunForever`, `LoopStops` the thread; `RunCoroutine` one coroutine; `Shutdown`,
`StopLoop`, `CloseLoop` the end.

**TransformBuffer**: `Set`, `CopyCallbacks`, `CallNext`, `RemoveAll` are
`set_transform` and its callbacks; `Ask`, `AppendCallback`, `Hook`, `Cancel`,
`RemoveLater` are `wait_for_transform_async`.  A transform has a value that changes
from message to message (`Readings`): a set replaces what was `Stored` for the same
two frames, and a static transform hides the dynamic one (`AllEdges`).  `recent` is a
history: what the last message says of an edge, with what was on its way beside it.  `Steps`, `Explored` and `Explore` are the
breadth-first search and the composition, a layer at a time: the code takes the
frames of a layer in the order of its queue and keeps the first transform it finds
to each, the model keeps those of every order.  A transform is a sign (a half turn)
and a translation modulo three, enough to tell every order and every inverse
apart.  `Listen`, `Callback`, `StaticCallback`, `Take` and `UnregisterListener` are the
listener, and `Broadcast` the static broadcaster, each of whose messages holds all
it was ever given.

**Launch**: `Begin` to `Return` are `_run_async` and `run`; `Visit*`, `Spawn`,
`Register` the visit of an action; `Wait`, `Sleep`, `Terminate`, `Kill`,
`KillTimeout`, `Forget` the end; `Exit`, `Reap`, `Unregister` a process and its
monitor thread; `Fire`, `Look`, `Thread*` the timers; `Signal` the handler.
**LaunchScopes**: `Enter`, `Leave`, `Raise` around group actions,
`SetConfiguration`, `Declare`, `Substitute`, `Push*`, `Pop*`, `TimerGroup`.
**LaunchEnvironment**: `SetVariable`, `UnsetVariable`, `WriteEnviron` change the
two copies of the environment; `ProcessEnv`, `NodeEnv`, the conditions with their
substitutions, and `FindExecutable` are what a process start makes of them.

**Side by side.**  Components that do not interact share a run.  `MCNode` holds
nine parts: NodeExecutor, NodeEntities, Construction, Parameters, NodeLogger,
Messages, Profiles, Names and Types; `MCThreads` eight: Timer, Future,
GuardCondition, CallbackQueue, AsyncRunner, Clocks, Readiness and ClientService, the
last one in two shapes (`OneClient`, `TwoClients`); `MCHelpers` six:
Publisher, TransformBuffer, Launch, LaunchScopes, LaunchEnvironment and Blocks;
`MCExecutors` three: ExecutorTasks, Spinning and NodeExecutor with two workers;
`MCPubSub` two: Subscription and SideChannel.  A variable `part` picks one of them
in the initial state; its variables move, the others' keep their first value, and
its fairness is assumed when it is the one picked.  Such a run is the union of
the separate instances, not their product.

## Runs

Model-check with `tlc -workers 2 -config X.cfg MCModule`.  Every run explores its
instance completely.

| run | instance | checks | shows |
|---|---|---|---|
| `pool` | 2 workers; a timer in an exclusive group, a subscription in a reentrant one; 3 callbacks; queue of 2, drop_newest; the timer may be destroyed; no shutdown | `MutualExclusion`, `OvertakenAside`, `ImplementsService` | exclusion; a callback is overtaken in its group only while a scan has it off the queue; scans, drops and removal lose and duplicate nothing; the node implements CallbackService |
| `node` | NodeExecutor: 1 worker, two timers of one group, 3 callbacks, queue of 2, drop_oldest, `destroy_node`, shutdown. NodeEntities: 2 clients, 1 publisher, 1 shutdown, 2 inits. Construction: 2 calls in five combinations of kinds, 1 callback each. Parameters: 2 names, 3 values, 2 descriptors, 4 declarations in bulk. NodeLogger: 2 threads, 2 texts, 4 calls, memories of 1, time to 3. Messages: 2 fields, 2 values and a refused one. Profiles: 5 durations around the limit, 4 hosts. Names: 6 paths, 3 namespaces, 2 entities. Types: 4 modules, 2 nodes, 2 inits, 2 endpoints | `NoStrandedCallback`, `EntitiesEnd`, `EarlyCallbacksKept`, `OnlyFailedLeak`, `AsDescribed`, `RepeatsExplained`, `SentAsWritten`, `AppliedAsMeant`, `NamesAgree`, `TypesKnown` | with a `SingleThreadedExecutor` wake-ups and teardown are right; every entity that was known is closed; what a constructor opens and a listener is told is not lost; the rest as in the inventory |
| `executors` | ExecutorTasks: 2 tasks, 2 workers, 2 calls of `shutdown()`, one spin's own, the context may go down. Spinning: 2 calls in six combinations, 2 callbacks. NodeExecutor: 2 workers, a timer, 2 callbacks, queue of 1, drop_oldest, `destroy_node` | `RunsOnce`, `NothingLeftLying`, `EveryCallServed` | no task is lost, run twice, or run after it was refused; spin functions leave no callback to an executor that has gone; a callback handed over is run or reported as dropped |
| `actions` | 2 goals, one of which the program executes itself, a pool of one thread; one goal cancelled, one goal future abandoned; failing publishes of requests; one fault: a reply lost or an end destroyed (`FewFaults`) | `InStep`, `FinalStatusStays`, `EveryRequestEnds` | keys stay in step with the goal replies until one is lost, and a result meets its request; every request ends but for as many as replies were lost |
| `pubsub` | Subscription: 3 samples (one invalid, one the filter rejects), drains of at most 2, one receiver, 2 executor threads, a user thread that takes and borrows, 2 destroying threads, droppable drains. SideChannel: 2 messages, keepalive of 1, a local reader that is made, registered, matched and closed, and a plain subscriber, a crash | `DrainScheduled`, `InOrder`, `NoLoanAtDeletion`, `EveryLoanEnds`, `PayloadsReach` | what is in the reader has a drain on its way; samples keep their order; a reader is deleted only without loans; a payload is missed only for the causes that PayloadsReach names |
| `threads` | all four kinds of timer, 2 executor threads, 1 user with 4 calls, drops; 2 setters, a canceller, 2 callbacks and a coroutine on a future; 4 triggers; a queue with 2 producers, 2 closers and 4 items; 2 runners and 2 stoppers of the event loop, 3 loops; a clock with 2 setters, 1 jump callback, 1 sleeper and 2 points of time; 2 directions, a wait without a limit and one of up to 2 looks; clients of a service: three calls on one (a blocking one, an async one that may be abandoned, an async one), or one on each of two, with losses, failing publishes and destroys | `OneOutstanding`, `OneshotFiresOnce`, `KeepsFiring`, `CalledAtMostOnce`, `OneUnderway`, `JumpsTold`, `NobodyWaitsForEver`, `PendingIsHeld`, `EveryCallEnds` | drops and resets never silence a timer; callbacks of a future run once; every jump is told once; whoever waits, on a future, a trigger, a queue, the event loop, a clock or a server, is answered; whoever takes a client's future from its slot settles it; calls end |
| `helpers` | Publisher: a writing, a borrowing and an exporting thread, 2 destroying threads, keepalive of 1. TransformBuffer: 3 frames, 3 links, 2 waiters, 2 setters, 2 messages whose transforms change and a static one sent before. Launch: 3 processes (one that ignores SIGTERM, two that never end), 1 timer. LaunchScopes: 1 name, 2 values, 4 actions, depth 3. Blocks: 1 publishing thread, 1 reader, 2 blocks. LaunchEnvironment: 1 variable, 4 strings, 2 files | `NoUseAfterDelete`, `LookupRight`, `NothingLeftRunning`, `BlocksKept`, `StartedAsAsked`, `WaitsEnd`, `ScopeEnds` | a deleted writer is not used; lookups compose what was set last; launch leaves no process behind; a kept block can be opened and none stays; processes get the environment that was set; waiters hear and launch stops; scopes end when their group does |
| `crosstalk` | 2 clients | `OwnResponse`, violated | finding 1 |
| `mixed` | 2 goals | `OwnResult`, violated | finding 2 |
| `longgoal` | 1 goal, requests may outlive the retention time | `ResultComes`, violated | finding 3 |
| `overtaken` | 2 workers, a timer, 3 callbacks | `AsideNotOvertaken`, violated | finding 4 |
| `replaced` | 2 variables, 4 strings | `EnvReplaces`, violated | finding 5 |

Bounds, all of them constants.  `MaxCalls` (2 or 3): two callbacks compete for a
queue of one and for a group; three, in `pool` and `node`, are what it takes for one
to run, one to be held aside and another to overtake it.  `MaxOps` (4 user calls on a timer) covers start,
cancel, reset, cancel in any order against a thread anywhere in its loop; the
thread's own loop is not bounded.  Two workers and two executor threads are enough
for every race between two lock sections of the same code, and what must hold for
more is proved (below).  Two calls of `shutdown()`, two setters and a canceller,
four triggers, three calls and two goals are likewise the smallest numbers at
which one actor meets another in each of its steps with a third one's effects in
between.  Three samples with a limit of two make a drain that stops at its limit,
one that ends, and one sample that arrives during either.  Three frames and
three links allow a chain, a change of parent and two disconnected parts.
`MaxLoops` (3) lets the event loop be replaced twice.  Two `create_*` calls share a
topic, or are each other's counterpart.  `MaxWork` (2): one callback completes the
future, another is left for whoever still spins.  `MaxSets` (2) transforms and an
earlier static one make every chain over three frames; the second waiter asks only
while at most one message was sent (`BufferBound`).  `MaxLost` (1) and `MaxFaults` (1):
one reply, or one end, fails against every step of the others; two are left out for
the size of the run.  `MaxLooks` (2), `MaxTime`
(3, longer than a period of 2) and two points of time allow for one change before
and one after a look.  `StateMax` (1) makes a logger forget at the second text.
`MaxBlocks` (2) exceeds a keepalive of 1.  Durations reach from 0 to beyond what
`MaxSecond` seconds hold.  `MaxInits` (2) is one restart of the context.  Everything else (the deque
between the bounds, batches, keys, topics) is bounded by these.

`CHECK_DEADLOCK FALSE` stands where the system really stops: workers that left
after shutdown, executors that have no task left, futures that are done, timers that are canceled, clients whose
calls ended, everything that is destroyed.  `pool` treats workers as
interchangeable: no action tells them apart, and it checks no liveness.  Where a
property is "what waits is answered" for several waiters, it is stated for the set
of all of them (`Unheard # {} ~> Unheard = {}`): each waits once, so the set is
empty in the end exactly if every one was answered.

The type invariants, and the inductive invariants named under
[proofs](#proofs), hold on the same instances; they are stated for the proofs and
the reader, and can be added to the configurations.

## Fairness

Weak fairness of threads that are inside a call: they go on, since user callbacks
return, locks are released at the end of a `with`, and waits either have a limit
(the 50 ms poll, a task wait of `_worker`, `call(timeout)`) or are for something
that some other thread's step provides.  No fairness is assumed of anyone who
calls: nobody has to enqueue, create a task, complete a future, trigger, cancel,
drop, lose, destroy or shut down.

- NodeExecutor (in `MCExecutors`): each producer inside `_enqueue_callback`, each
  worker, and the destroying thread.  The run has no shutdown.
- ExecutorTasks: each call of `create_task`, each worker and its time limit,
  each `shutdown()` under way, and the one that `MultiThreadedExecutor.spin`
  ends with.  `Patient` workers (`spin_once()` with no timeout) have no limit.
- Timer: the timer's thread, executor threads, the drop hook, and user threads
  inside a call.  A period ends, so the thread's wait does.  `Join` has its code's
  time limit only for a timer that runs its callbacks itself.
- GuardCondition, Future, ClientService: each thread inside a call.
- Actions: weak fairness of all system steps together, which is weaker than one
  condition per thread.  It is enough because a behaviour has finitely many system
  steps between two calls of the program.  A goal handed to the program is executed
  by it in the end: without that nobody could promise its result.
- Subscription: the receiver, each executor thread, a user that holds a loan and
  returns it, each destroying thread, the drop hook.
- CallbackQueue: the consumer, and each locked step under way.  AsyncRunner: each
  `run`, each step of a loop's thread, each coroutine on each loop, and the two
  steps of `shutdown` once it began.
- TransformBuffer: each setter and each waiter inside a call.  Launch: `run`'s own
  thread, each monitor, the exit of a process that got SIGKILL, each action
  thread, and a timer's look at the clock.  A process need not end by itself.
  In `MCHelpers` the steps of waiters, setters and hooks of TransformBuffer are
  under one condition, and those of monitors, exits and action threads of Launch
  under another: weaker than one for each, and enough since each takes finitely
  many steps.
- Spinning: each thread inside a spin function.  Nobody has to hand over a
  callback, and the context need not go down.  Clocks: each sleeper, whose waits
  have a limit of 0.1 s; nobody has to set the clock.  Readiness: each call that
  waits; no server has to come.
- Publisher in `MCHelpers`, SideChannel, NodeEntities, Construction, LaunchScopes,
  LaunchEnvironment, Blocks, Parameters, NodeLogger, Messages, Profiles, Names,
  Types: none; only safety is checked (`ScopeEnds` is an action property).

## Proofs

Checked by `tlapm` for every value of the constants that the modules' named
assumptions allow; there are no unproved leaves.

- `NodeExecutorProofs`.  `TypeCorrect`: the type invariant, which also says that a
  worker past the pop holds a callback and that `owner` is defined exactly for the
  callbacks that have arrived.  `ExclusionHolds`: without `destroy_node`, for any
  number of workers, entities, groups and callbacks, `MutualExclusion`.
  Exclusion alone is not inductive: a worker runs a callback *without* any group
  when the entity is no longer registered.  `GroupInv` adds why that is harmless:
  an unregistered entity is closed, so such a worker finds it closed and never
  enters the user's code; a worker that has begun an exclusive group owns its
  flag, and no two own the same.  `destroy_node` unregisters before it closes,
  which breaks the first part: hence the hypothesis `~MayDestroyNode`, and the
  known limit below.
  `NothingLost` (`PlaceInv`): every callback that has arrived is
  in one place, once: queued, held aside or in hand by one worker, dropped, or
  finished.  The lemmas say what `append`, `popleft` and `extendleft` do to a deque
  as a set without repetitions.  `ServiceImplemented` (`ImplementsService`): each
  step of the node and its workers is a step of CallbackService or a stutter, by
  `PlaceInv` and `GroupInv`.  `OvertakenAsideHolds` (`OvertakenAside`), for any number of
  workers, from `OrderInv` (`OrderHeld`): as long as neither the earlier of two
  callbacks of a group was taken nor the pair is in `passed`, the later one is in
  nobody's hand and stands behind it in the queue.  With one worker
  (`SingleThreadedExecutor`): `SoloStrandsNothing` (`NoStrandedCallback`) from
  `SoloKeepsOrder` (the queue, and what the one thread holds, are in order of arrival,
  since it never has to hold a callback aside), `SoloHearsWakes` (what its scan did not
  count has woken it, or a producer is about to) and `SoloReports` (what was dropped
  has been reported, or is about to be).
- `ExecutorTasksProofs`.  `TypeCorrect`, `OnceHolds` (`RunsOnce`: no task runs
  twice, and a refused or drained one never) and `OutcomeFinal` (an outcome
  stays).  The inductive invariant is `OnePlace`: the queue has no repetitions
  and what is in it has not run and is in nobody's hand (`QueueOnce`), two workers
  hold different tasks (`HandOnce`), what a shutdown drained is in nobody's hand
  and has not run (`DrainedOnce`), and the count of runs agrees with the outcome
  (`RunsCounted`).  `QueueElements` is the lemma about taking the head of a queue
  without repetitions.
- `ThreadsProofs`, in four parts.
  Timer: `TimerTypeCorrect`; `OneOutstandingHolds` (`OneOutstanding`, which includes
  that the flag tells the truth) from `Running` (a repeating timer nobody canceled
  has a live thread and an unset stop event, so `reset` never starts a second one)
  and `Token` (the pending flag is a token: exactly one of thread, queue, drop hook
  and executor thread has it while it is set); `OneshotHolds` (`OneshotFiresOnce`)
  from `OneshotInv`.
  Future: `FutureTypeCorrect`; `CalledOnceHolds` (`CalledAtMostOnce`: no callback is
  called twice, and a removed one never) from `OnePlace`: a callback that is listed
  or in a completer's batch has not been called, and is in one of the two; and
  `OutcomeFinal`, directly from the actions.
  GuardCondition: `UnderwayHolds` (`OneUnderway`) from `GuardInv`, the same token
  argument: whoever set `_pending` owns the one callback under way until the flag
  is cleared.
  Clocks: `JumpsToldHolds` (`JumpsTold`) from `ClockInv`: a setter that has not begun
  has nobody to call and has made no jump, and one that has still to call a handle
  has made a jump and not told it to that handle.  Setters are never ordered: the
  jumps are a set of pairs of setter and jump, not a sum.
- `HelpersProofs`, in six parts.
  Publisher: `NoUseHolds` (`NoUseAfterDelete`) from `UseInv`: the two counts are the
  cardinalities of the sets of threads that use or borrow, and the writer is taken
  only when both are zero.  The cardinality facts of `FiniteSetTheorems` do the
  counting.
  Launch: `NothingLeftHolds` (`NothingLeftRunning`) from `EndInv`: once `run` is past
  its stock-taking, what it did not see was started late, and what it saw it has
  waited for, killed or reaped.
  Blocks: `BlocksKeptHolds` (`BlocksKept`) from three invariants.  `HandsInv`: a
  block is in the table, once, or in the hands of the one thread that made it, so
  that what makes room for it, or is closed after a failed announcement, is nobody
  else's.  `NamesInv`: what has a name is owned, what is owned is held, and what is
  held has a name while the publisher's process lives.  `TrackedInv`: every name is
  known to the publisher's resource tracker or was taken from it by a child; it
  needs `NamesInv`, since a reader in the publisher's own process unregisters a
  block exactly if nobody owns it.  `Kept` says what a table with a limit does.
  LaunchEnvironment: `StartedAsAskedHolds` (`StartedAsAsked`) from `AskedInv`: the
  context has what the launch file asked for last, and so has `os.environ` but for
  what others wrote to it since.  The two other conjuncts, about conditions and the
  search for a program, are about operators and hold in every state.
  LaunchScopes: `ScopeEndsHolds` (`ScopeEnds`) from `StackInv`: while pushes and pops
  match, each frame that pushed a scope has, at the height at which it did so, the
  configurations of before it, and the stack is as high as the frames have made it.
  A property about the top frame alone is not inductive, since a `Leave` uncovers
  the one below.
  TransformBuffer: `LookupRightHolds` (`LookupRight`).  Its first part is a theorem
  about the search, for any graph of any frames (`SearchesRight`): where transforms
  agree with some places of the frames in the world, what the search finds does.
  `Turned`, `Chained` and `StepsRight` are the algebra of the transforms; `LayersThere`
  says that the recursion over the layers has a solution; `LayersRange`, by least
  counterexample, that what a layer has found is right and in reach, and that the
  search is over or has found more frames than it has had layers, so that as many
  layers as there are frames are enough (`ExploredRight`).  The rest follows from
  `BufferInv`: a setter that is idle holds nothing (`IdleEmpty`); what is stored of an
  edge is what the last message said of it, or what another thread had in hand when
  that message came, or a setter has still to store it (`RecentRight`); and the last
  message that waits for the listener holds all that was published, and when none
  waits, all is set or in the hands of a setter (`Heard`).
- `ClientServiceProofs`.  `TypeCorrect` and `HeldHolds` (`PendingIsHeld`) from
  `HeldInv`: a new call's future is nowhere, a slot's future is in that slot
  alone, and no two threads settle the same one.  `SettleKeepsHeld` is the lemma
  for every step that settles a future.
- `SubscriptionProofs`, for any number of samples, receivers, executor threads,
  users and destroying threads, and every way of taking.
  `DrainScheduledHolds` (`DrainScheduled`) has three layers.  `OneDrain`: the drain is
  in one place (queue, thread, thread that requeues it, or a drop not yet reported),
  moves from one to the next, and goes with `_drain_pending` while the listener is
  open.  `CountInv`: what a drain got never exceeds the turns it spent.  `DrainInv`:
  a drain that leaves a sample behind after its last take has been asked to go on,
  has used its turns, or met a sample that did not count.  Without the third the
  property is not inductive: `Finish` clears the flag on the strength of what an
  earlier step saw.
  `InOrderHolds` (`InOrder`) from `OrderInv`: the one drain holds samples later than
  those of every queued callback, and nothing queued is later than what was read.
  `NoLoanHolds` (`NoLoanAtDeletion`) from `LoanInv`: the count of active loans covers
  the set of loan objects and the thread about to add to it, of which there is
  one, with the reader's lock; `destroy` refuses new loans before it waits.  It
  assumes `Prompt`, as its run does: the time limit of `destroy` does not end in the
  moment in which a thread has counted its loan and not yet added it to the set.
  SideChannel: `ChannelTypeCorrect` and the action property `PayloadsReach`
  (`PayloadsReachHolds`).  `ChannelInv`, the type invariant with the place of
  the publisher (at a message from the first on while it exports one), gives the half
  about plain subscribers, by counting.  The half about local readers needs `KeptInv`:
  while the publisher lives, the blocks it keeps are open and of growing messages, and
  whatever is known of a block, in the metadata, on their topic or by a reader, is of
  one that is open or that `Keepalive` later ones have followed.
- `ActionsProofs`, for any number of goals and any pool.
  `InStepHolds` (`InStep`, under `Serial`, as its run has it; see known limits; whatever
  replies are lost) from three invariants.  `HeldInv`: only `destroy` takes futures out of the maps without
  resolving them at once, and it does so once.  `MeetInv`: result and request of a
  goal are never both kept, except while the one who saw both publishes; a
  destroyed server has neither.  It needs `OnceInv`: a goal is requested once and
  has no job before its request is served, since a second `Submit` would overwrite
  the first one's job.  `LineInv`: until a goal reply is lost, the client's keys are the goals whose replies are
  on the topic, then the goal being served, then those whose requests wait, then
  the one about to be published.  `InLine` states that of one pair of topics; the
  lemmas `LineJoined` to `LineDead` are what joining, publishing, failing, serving,
  replying, taking and dying do to the line, the lemmas about `RemoveFirst`
  say that a failing publish takes out the right key, and `LostStays` that a lost reply
  stays lost.
  `FinalStatusHolds` (`FinalStatusStays`) from `OnceInv`: nobody sets a status of a
  goal that has one, unless a cancel was requested.
- `NodePartsProofs`, the parts of a node beside its queue.
  NodeEntities: `EntitiesEndHolds` (`EntitiesEnd`) from two invariants.  `TeardownInv`:
  what is being removed from a list is closed already (`RemovedIsClosed`), and until
  its kind's turn has passed an entity the user holds is in its list where the loop
  of `destroy_node` has still to come, unless that list was shortened under the loop
  (`AheadOfLoop`).  `ShutdownInv`: one shutdown at a time destroys what it copied, and
  a live client or service is known to the context or was tracked too late.
  Construction: `OnlyFailedLeakHolds` (`OnlyFailedLeak`) and `EarlyCallbacksKeptHolds`
  (`EarlyCallbacksKept`).  The plans of the seven constructors are data, so the proof
  first says what they have in common (`Shaped`: the group comes first, whatever
  calls back is bound in the last step, nothing is opened after tracking).  `PlaceInv`
  places a call in its plan; `LeftInv` says who is responsible for each open
  endpoint; `KeptInv` says where callbacks may be and which entities are grouped.
  Parameters: `AsDescribedHolds` (`AsDescribed`) from `DescribedInv`: what has been made
  read-only still has a read-only descriptor.
  NodeLogger: `RepeatsExplainedHolds` (`RepeatsExplained`) from `RepeatInv` (a memory
  holds what was logged, as far as it has not been forgotten; and a thread between
  look and note has a key that was new, or that somebody else has in hand too), and
  `LoggerMemoriesBounded`.
  Messages: `SentAsWrittenHolds` (`SentAsWritten`), for the topic and for the side
  channel, from `WrittenInv`: what the program wrote last is what the field reads as, and
  no proxy shadows the memory of a buffer.
  Profiles: `AppliedAsMeantHolds` (`AppliedAsMeant`) from `EndpointsInv`; the work is in
  lemmas about division, for durations of any length.
  Names: `NamesAgreeHolds` (`NamesAgree`) from `NamedInv`: an entity has the topics that
  its name stands for.  The lemmas say that mangling loses nothing: two names, of
  whatever words, whose topics meet are of one family and are the same.
  Types: `TypesKnownHolds` (`TypesKnown`), for nodes that outlive any number of shutdowns,
  from `KnownInv` (what a node remembers of a class is true of the participant that was
  told, which is the node's own or a later one, and likewise for each endpoint) and
  `HalvesInv` (a service that was resolved keeps its wrapper, or stays without).

Hypotheses.  `~MayDestroyNode` (exclusion and refinement), `Workers = {only}`
(stranding), `Prompt` and `Serial` restrict constants whose other values
are states of the program.  They are not there to ease a proof: without each, TLC
finds the behaviour that breaks the property, and known limits tells how.  Each
run that checks the property satisfies them.

Assumptions.  The named assumptions on constants say of which kind they are
(`KindAssumption`: an entity has one of the kinds that have a list;
`ConstructionAssumption`: only what has a constructor is asked for), keep markers
such as `Absent` or `NoTime` apart from values, and bound what the code bounds (the
keepalive is at least one, as `env_int` makes it).  Those of Parameters, Messages,
Names and LaunchEnvironment say no more of the data than the code can be given: a
name has at least one part, what the setters refuse is no value of the field, what
tf2_ros makes properties of is a number or a message, `"true"`, `"false"` and the
empty string are strings, a transform joins two of the frames (`BufferAssumption`).
TLC evaluates each of them on a run.

Only model-checked: all liveness (`EveryCallServed`, `NothingLeftLying`,
`EveryCallEnds`, `EveryRequestEnds`, `EveryLoanEnds`, `KeepsFiring`,
`NobodyWaitsForEver`, `WaitsEnd`), which is out of the proof system's reach;
CallbackQueue, AsyncRunner, Readiness and Spinning have no other properties. Every other
property of a passing run has its theorem.
`LookupRight` is proved of the small group of transforms that TransformBuffer
computes with, not of quaternions and vectors in floating point.

## Findings

1. `crosstalk`: `Client._on_response` (`lwrclpy/client.py:65`) gives whatever
   response it reads to whatever future is pending.  All clients of a service read
   the same reply topic, and a reply names neither client nor request, so a
   client that waits gets another client's response.
2. `mixed`: `ActionClient._on_result_response` (`lwrclpy/action.py:1177`) matches
   results by the order in which they were requested; the server publishes them in
   the order in which goals complete.  With two goals in progress the futures get
   each other's results.
3. `longgoal`: `_prune_results_locked` (`lwrclpy/action.py:642`) drops requests
   that have waited for longer than `_RESULT_RETENTION_SEC`, and `_complete_goal`
   calls it before it looks whether the result was asked for.  The result of a
   goal that runs longer than 15 minutes is never sent to the client that has been
   waiting for it, and `get_result` waits without a limit.
4. `overtaken`: `Node._pop_callback` (`lwrclpy/node.py:1425`) restores what it held
   aside to the front when its scan ends.  The comment at line 1421 says "Keep skipped
   items aside and restore them to the FRONT after the scan" since otherwise a later
   callback of the same busy group would overtake this one.  With two workers it does
   so all the same: while one holds the earlier callback aside, the group is released
   and the other takes the later one.
5. `replaced`: `launch/actions/execute_process.py:57` and `launch_ros/actions/node.py:96`
   document `env` as replacing the current environment; `execute_process.py:127`
   merges it into that environment.

## Known limits

Some properties hold under a condition only.  The condition is in the property or
in the constants of its run; without it TLC finds a behaviour of the code that
breaks it.  Each can be reproduced by changing constants as said.

Executor:

- The order of a group's callbacks with two workers: finding 4.  `OvertakenAside` says
  that this is the only way to be overtaken.
- `NoStrandedCallback` with two workers (`Workers = {w1, w2}`, `Entities = {e1, e2}`,
  `GroupOf <- OneGroup`, `MaxSize = 0`): what a scan puts back wakes
  nobody, so a runnable callback waits for the 50 ms poll.
- `NoStrandedCallback`, also with two workers, `MayDestroyNode` and `MayShutdown`:
  `destroy_node` clears the queue while a worker holds a callback aside; the
  worker puts it back and leaves with the executor, and nobody runs or reports it.
- `MutualExclusion` with `MayDestroyNode` (`Entities = Early = {e1, e2}`,
  `OneGroup`): `destroy_node` unregisters an entity before it closes it, so a
  worker runs its callback without its group, beside another of the group.
- The node's queue outgrows its bound with two workers: callbacks that are put
  back are not counted against it.
- `NothingLeftLying` with a `Patient` worker (`spin_once()` without a timeout): a wait
  for node callbacks that `create_task` wakes does not look at the task queue.

- Spin functions: a `spin_once` with an executor of its own that takes the node's
  wake event first leaves an executor added meanwhile without one, which then only
  polls; two `add_node` race between the look and the set, and one takes the
  event although the comment says "Do not steal".  When two calls share an
  executor, the first to end removes the node, and the other spins without it: the
  property is about executors of their own there.
  `spin_until_future_complete` with an executor that is shut down loops without
  waiting until the future is done or the context ends.

Timer and guard condition:

- A oneshot timer may miss a `reset()`: its thread sets the stop event after it has
  enqueued the callback, so a reset that comes in between (from that callback, say)
  is lost.  A timer without a queue: `cancel()`'s wait for the thread times out,
  `reset()` sees it still alive and starts none.  With two user threads: one's
  `reset()` between the other's `cancel()` and the thread's end.  `KeepsFiring`
  leaves these out.
- `OneOutstanding` after `cancel()` and `reset()` with a callback still queued: the
  old callback runs early beside the new one.
- `NobodyWaitsForEver` counts a trigger that comes while the callback runs as
  lost: `_pending` is cleared after the callback, so it enqueues nothing.

Client, action:

- `OwnResponse` with a single client (`Clients = {k1}`, `ClientOf <- OneClient`,
  one call in `Blocking`): the late reply to a call that timed out resolves the
  next one.
- A future that the program cancelled itself stays in the slot: the client goes on
  refusing calls until a reply comes.
- `InStep` with `Serial = FALSE`: `send_goal_async` registers the key and
  publishes in two steps; two threads that send goals may publish in the other
  order, and get each other's replies.
- `_publish_if_alive` swallows a publish that fails.  A lost goal reply leaves its key
  with the client, so each later goal reply resolves the future of the goal before;
  a lost result (its request was popped already) or cancel reply never comes.  Those
  futures wait for ever.  `InStep` and `EveryRequestEnds` allow exactly that.
- `FinalStatusStays` leaves out goals that somebody asked to cancel: the cancel
  handler may mark a goal CANCELING after it completed, and re-create its entry.
- `wait_for_service()` without a limit on a client that is destroyed, or after the
  context's shutdown, never returns.  Counts are read one by one, so a server that
  restarts may look ready when it never was in every direction.

Subscription, publisher, side channels:

- `NoLoanAtDeletion` with `Prompt = FALSE`: when the time limit of `destroy` ends
  between a thread's `_register_loan` and the statement after it, the loan is added
  to a set that has been given up, and the next `destroy` deletes the reader under
  it.  A drain may
  still take from a reader another thread has just deleted.  Samples without
  valid data make a drain stop short of its limit; the property excuses these.
- `return_loan` is documented to keep a sample valid until it is called
  (`lwrclpy/subscription.py:405`); with a content filter or several loans in one
  batch the native loan goes back with the last of the batch that is dropped.
  The failure of the native return, and the collection of a loan by the garbage
  collector, are left out.
- `PayloadsReach` names the causes for which a payload is missed.  The publisher's count
  of local readers is out of date.  Or it is right, and a registered reader that is
  not matched yet hides a matched plain subscriber: the comparison of the two numbers
  takes the one for the other.  For a local reader: the publisher died, or `Keepalive`
  later blocks were kept.
  A message may be paired with another's payload when one topic overtakes the
  other; the docstring of `_side_channel_matches_payload` says what it compares.
  Deciding and sending are one step here, though `publish` decides on one line and
  writes on another: a subscriber that matches in between is missed as one that
  matches before the next count is.
- `publish_loaned` after `destroy` leaves the message borrowed; an export does not
  look at `_destroyed`, so a buffer kept alive after `destroy` stays open.

- The topics of the metadata are named after the topic with every "/" replaced, so
  "/foo/bar" and "/foo_bar" share their metadata and the count of their readers; a
  subscription counts itself as a reader of the side channel even when its
  companion could not be made.
- Blocks: `SharedMemoryBuffer.close()` or `release()` while a view is held leaves the
  buffer unusable (the next `open_memoryview` raises TypeError).  Before Python
  3.13 a reader's process that ends between opening and unregistering makes its
  tracker remove the publisher's block (`taken`), and a child process that shares
  the tracker takes the publisher's entry out, so a crash leaves the block
  (`forgotten`).  A `publish_shared_memory` under way when `destroy` empties the
  table keeps its block until the Publisher object goes (`overdue`).

Node and context:

- Only clients and services call `track_entity`.  `init()` during `shutdown()`
  returns at once and leaves no context.  `destroy_*` by another thread during
  `destroy_node`'s loop makes it skip an entity (`skipped`); an entity tracked
  during `shutdown` is forgotten (`late`).
- A constructor that raises leaves open the endpoints it had opened
  (`OnlyFailedLeak` allows exactly that), and those of an action go on handing
  over callbacks.  `bind` of deferred callbacks flushes them beside newer ones.
- `Node._create_topic` takes a topic from the cache without comparing types, where
  `get_or_create_topic` refuses a mismatch.
- A node that is older than a shutdown and the next `init` registers a type with the
  new participant and opens the endpoint on its old one, which does not know it; and
  since the class is then in its `_type_cache`, it never tells the old one: that
  `create_*` call fails for ever.  `TypesKnown` allows exactly this (`e.on < e.by`).
- Parameters: that `set_parameters_atomically` sets all or nothing is the shape of its
  one action, taken from its one lock section, and no property.  A descriptor that replaces another does not check the stored value;
  `get_parameters` of several names is not atomic; a declaration in bulk that
  raises leaves the first ones declared.  NodeLogger: the memories forget by age of
  insertion, and two threads may pass one look (`raced`).

Names, types, profiles, messages:

- A resolved name that begins with `rt` or `ra` is taken for a name of DDS; an
  entity with `avoid_ros_namespace_conventions` is listed and not counted.
- `resolve_service_type` looks for `FooRequest` where its comment says
  `Foo_Request`, and falls back to the first class of the module that ends in
  `Request`, which in a module of two services may be the other's.
- `QoSProfile.best_available` does not adapt, as its docstring says it does: it is
  RELIABLE and VOLATILE.
- Messages: a value that the setter refuses is dropped silently when it is
  published; an attribute assigned before `tf2_ros` is imported is hidden by the
  properties it installs; a `RosidlBuffer` writes past an attribute, which wins at
  the next publish.  `_get_value` returns the view of a buffer's memory before it
  looks for the attribute that its comment lets win ("Instance attribute wins",
  `lwrclpy/message_utils.py:400`), and `publish` leaves such a view as an attribute:
  in a message that is published a second time, `msg.data = payload` is an attribute
  beside the memory.  So the side channel shares the old payload while the message on
  its topic has the new one (`side.overlooked`); and a copy of a message with two
  buffers, which goes without the payload of one, has the old payload of the other
  (`Overlooked`).  `SentAsWritten` leaves out these two.

Helpers:

- `CallbackQueue.close` on a full queue drops a callback.  `_AsyncRunner.run` whose
  loop is stopped between start and submit waits for ever (`doomed`).
- TransformBuffer: the stamp of a result is always zero; a frame that gets another
  parent keeps its old edge, and a lookup that reaches it is right only if it agrees
  with the others; two threads that have messages at once may store them in the other
  order, and the older transform stays; a transform that arrives between a waiter's
  check (with its lookup one step here) and its append wakes nobody until the next one;
  a transform of a message that is invalid raises, and the rest of the message is lost.
- Clocks: thresholds of jump callbacks are ignored, and a callback that is removed
  while it is about to be called is called once more.
- Launch: `shutdown_when_idle` as True does not wait at all, contrary to its
  docstring; a signal before `_run_async` begins is lost; `respawn` is ignored;
  timers and exit handlers may start processes after `run` took stock (`late`).
  Entities nested in a group are still visited after a Shutdown; those that
  `execute()` returns in a timer's or exit handler's thread are not visited.
- LaunchEnvironment: `env` is merged (finding 5), and `StartedAsAsked` says into what;
  the empty string is false to a condition and an error to a
  boolean substitution; what an OpaqueFunction writes to `os.environ` is hidden by
  the context's copy for variables that were there at the start; SetParameter is
  stored and not read by a Node; `Node` and `ExecutableInPackage` search different
  places.
- LaunchScopes: the ROS namespace stack is not restored; a TimerAction with a
  group pushes a scope and never pops it; an explicit push left open leaks.

Places that deserve care and that no model covers: the node scan always
starts at the first node; `MultiThreadedExecutor.shutdown` from a worker's own
callback joins its own thread; one cancel reply resolves the cancel futures of all
goals; `get_result_async` twice for a goal replaces the first future; status
snapshots are published outside the lock, so with several goals the last one
published may be stale.

## Not modelled

- DDS discovery, matching, QoS, transport: external; topics are queues here.
- Several nodes per executor, the performance counters.
- Feedback and status topics; a second request of one kind for the same goal.
- CUDA memory (the side channel's protocol without registrations), several shared
  fields in one message, nested submessages, the arithmetic of Time and Duration,
  rates, YAML, the formatting of logs.
- `rclpy` re-exports, the loading of libraries, and `scripts/`, which patch
  generated sources as text before there is a program.

## Plan

1. Several nodes in one executor: the order of the scan and the binding of wake
   events to each; feedback and status topics of actions.
2. Proofs: a refinement of Subscription (samples that arrive are offered once, in
   order, or given up), and of ClientService by a table of calls.
3. Larger instances of what shares a run: two jump callbacks, two readers of a
   block, three calls around one node.
