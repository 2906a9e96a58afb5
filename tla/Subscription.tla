---------------------------- MODULE Subscription ----------------------------
(* A subscription (lwrclpy/subscription.py): the DDS threads that announce    *)
(* samples, the drain that moves samples from the reader's cache to the       *)
(* node's callback queue, the loans on the reader's memory, polling users,    *)
(* and destroy().  The node's queue and its executors are seen as NodeExecutor *)
(* promises: in order, each item run, or dropped and reported to its hook.    *)
(* Samples are numbered as they arrive, so a batch is known by its set.       *)
EXTENDS Integers, Sequences, FiniteSets

CONSTANTS
  None,
  MaxSamples,   \* how many samples arrive (a bound)
  Limit,        \* _MAX_CALLBACKS_PER_DRAIN, and the batch size
  Invalid,      \* samples without valid data (an instance was disposed)
  Rejected,     \* samples the content filter rejects
  Modes,        \* how the subscription may be configured
  Receivers,    \* DDS threads that deliver
  Executors,    \* executor threads
  Users,        \* threads that poll with take() and _loaned_take()
  Destroyers,   \* threads that call destroy()
  Droppable,    \* whether the node may drop what is queued
  Prompt        \* destroy's time limit never ends between _register_loan and the
                \* next statement of the thread that called it

Samples == 1..MaxSamples
AllModes == [callback : BOOLEAN, batch : BOOLEAN, loan : BOOLEAN, filter : BOOLEAN]

ASSUME SamplesAssumption == MaxSamples \in Nat /\ Limit \in Nat \ {0}
ASSUME ModesAssumption   == Modes \subseteq AllModes
ASSUME ThreadsAssumption == Executors \cap Users = {}

Items == [kind : {"drain", "call"}, samples : SUBSET Samples, loan : Samples \cup {None}]
ASSUME NoneAssumption    == None \notin Executors \cup Users \cup Samples \cup Items

VARIABLES
  mode,       \* how it is configured
  read,       \* the last sample that was taken out of the reader's cache
  arrived,    \* the last sample that has got into it
  pending,    \* _callback_pending
  again,      \* _reschedule_requested
  closed,     \* the listener's _closed
  destroyed,  \* the subscription's _destroyed
  deleted,    \* the DDS reader is deleted
  queue,      \* this subscription's items in the node's queue
  dropping,   \* an item off the queue whose drop hook is still to run
  rpc,        \* where a receiver is
  xpc,        \* where an executor or user thread is
  hand,       \* the samples it has taken or is called with
  held,       \* the loan it works with
  got,        \* samples its drain has counted
  spent,      \* turns its drain has used
  loan,       \* the state of each loan, named by its first sample
  active,     \* _active_loans
  objects,    \* _active_loan_objects
  lock,       \* _reader_lock
  dpc,        \* where a destroyer is
  excused     \* history: unread samples may wait for the next arrival

flags  == <<pending, again>>
loans  == <<loan, active, objects>>
drain  == <<hand, held, got, spent>>
entity == <<closed, destroyed, deleted>>
cache  == <<read, arrived>>
vars   == <<mode, cache, flags, entity, queue, dropping, rpc, xpc, drain, loans, lock, dpc, excused>>

Threads == Executors \cup Users
Unread  == read + 1..arrived
Drain   == [kind |-> "drain", samples |-> {}, loan |-> None]
Call(samples, l) == [kind |-> "call", samples |-> samples, loan |-> l]

Init ==
  /\ mode \in Modes
  /\ read = 0 /\ arrived = 0
  /\ pending = FALSE /\ again = FALSE
  /\ closed = FALSE /\ destroyed = FALSE /\ deleted = FALSE
  /\ queue = <<>> /\ dropping = None
  /\ rpc = [r \in Receivers |-> "idle"]
  /\ xpc = [t \in Threads |-> "idle"]
  /\ hand = [t \in Threads |-> {}]
  /\ held = [t \in Threads |-> None]
  /\ got = [t \in Threads |-> 0] /\ spent = [t \in Threads |-> 0]
  /\ loan = [s \in Samples |-> "none"]
  /\ active = 0 /\ objects = {}
  /\ lock = None
  /\ dpc = [d \in Destroyers |-> "idle"]
  /\ excused = FALSE

------------------------------------------------------------------------------
(* Arrival: the DDS thread puts the sample into the cache, then calls         *)
(* on_data_available.                                                         *)

Arrive(r) ==
  /\ rpc[r] = "idle" /\ arrived < MaxSamples /\ ~deleted
  /\ arrived' = arrived + 1
  /\ rpc' = [rpc EXCEPT ![r] = "notify"]
  /\ UNCHANGED <<mode, read, flags, entity, queue, dropping, xpc, drain, loans, lock, dpc, excused>>

\* (faulty: a sample that comes while a drain is pending is not remembered)
OnDataForgets(r) ==
  /\ rpc[r] = "notify"
  /\ rpc' = [rpc EXCEPT ![r] = IF closed \/ ~mode.callback \/ pending THEN "idle" ELSE "enqueue"]
  /\ pending' = (pending \/ (~closed /\ mode.callback))
  /\ excused' = (excused /\ pending' = pending)
  /\ UNCHANGED <<mode, cache, again, entity, queue, dropping, xpc, drain, loans, lock, dpc>>

\* (faulty: every sample starts a drain of its own)
OnDataAlways(r) ==
  /\ rpc[r] = "notify"
  /\ rpc' = [rpc EXCEPT ![r] = IF closed \/ ~mode.callback THEN "idle" ELSE "enqueue"]
  /\ pending' = (pending \/ (~closed /\ mode.callback))
  /\ excused' = (excused /\ pending' = pending)
  /\ UNCHANGED <<mode, cache, again, entity, queue, dropping, xpc, drain, loans, lock, dpc>>

\* Under _pending_lock: start a drain, or ask the pending one to go on.
OnDataAvailable(r) ==
  /\ rpc[r] = "notify"
  /\ \/ /\ closed \/ ~mode.callback
        /\ rpc' = [rpc EXCEPT ![r] = "idle"]
        /\ UNCHANGED <<flags, excused>>
     \/ /\ ~closed /\ mode.callback /\ pending
        /\ again' = TRUE
        /\ rpc' = [rpc EXCEPT ![r] = "idle"]
        /\ UNCHANGED <<pending, excused>>
     \/ /\ ~closed /\ mode.callback /\ ~pending
        /\ pending' = TRUE /\ excused' = FALSE
        /\ rpc' = [rpc EXCEPT ![r] = "enqueue"]
        /\ UNCHANGED again
  /\ UNCHANGED <<mode, cache, entity, queue, dropping, xpc, drain, loans, lock, dpc>>

\* _enqueue_drain: nothing once closed (close() has cleared the flags); the
\* node takes the drain, or refuses it and calls its hook.
EnqueueDrain ==
  \/ closed /\ UNCHANGED <<queue, dropping>>
  \/ ~closed /\ queue' = Append(queue, Drain) /\ UNCHANGED dropping
  \/ ~closed /\ Droppable /\ dropping = None /\ dropping' = Drain /\ UNCHANGED queue

ReceiverEnqueues(r) ==
  /\ rpc[r] = "enqueue"
  /\ EnqueueDrain
  /\ rpc' = [rpc EXCEPT ![r] = "idle"]
  /\ UNCHANGED <<mode, cache, flags, entity, xpc, drain, loans, lock, dpc, excused>>

------------------------------------------------------------------------------
(* Loans.                                                                     *)

\* A take of n samples: all of them if there are fewer.
UpTo(n) == IF read + n <= arrived THEN read + n ELSE arrived
Taken(n) == read + 1..UpTo(n)
Valid(samples) == samples \ Invalid

\* What return_loan does to the loan and the counts: the release callback is
\* there once the loan is activated and until it has run or is taken away.
Returned(l) ==
  /\ loan' = [loan EXCEPT ![l] = IF @ = "leaked" THEN @ ELSE "returned"]
  /\ objects' = objects \ {l}
  /\ active' = IF l \in objects /\ active > 0 THEN active - 1 ELSE active

IsOut(l) == l # None /\ loan[l] = "held"

\* _register_loan, still with the reader's lock: refused once destroyed, and
\* the loan goes back at once.
Register(t) ==
  /\ xpc[t] = "register"
  /\ \/ /\ ~destroyed
        /\ active' = active + 1
        /\ xpc' = [xpc EXCEPT ![t] = "activate"]
        /\ UNCHANGED <<loan, objects, held, hand, lock>>
     \/ /\ destroyed
        /\ Returned(held[t])
        /\ held' = [held EXCEPT ![t] = None]
        /\ hand' = [hand EXCEPT ![t] = {}]
        /\ lock' = None
        /\ xpc' = [xpc EXCEPT ![t] = IF t \in Executors THEN "finish" ELSE "idle"]
  /\ UNCHANGED <<mode, cache, flags, entity, queue, dropping, rpc, got, spent, dpc, excused>>

\* _activate_loaned_samples: the loan gets into the set and gets its release
\* callback; the reader's lock is released.
Activate(t) ==
  /\ xpc[t] = "activate"
  /\ objects' = objects \cup {held[t]}
  /\ lock' = None
  /\ xpc' = [xpc EXCEPT ![t] = IF t \in Executors THEN "offer" ELSE "hold"]
  /\ UNCHANGED <<mode, cache, flags, entity, queue, dropping, rpc, drain, loan, active, dpc, excused>>

\* return_loan, first half: a loan that was returned or invalidated is left.
BeginReturn(t) ==
  /\ xpc[t] = "return"
  /\ xpc' = [xpc EXCEPT ![t] = IF IsOut(held[t]) THEN "native" ELSE "idle"]
  /\ held' = [held EXCEPT ![t] = IF IsOut(@) THEN @ ELSE None]
  /\ UNCHANGED <<mode, cache, flags, entity, queue, dropping, rpc, hand, got, spent, loans, lock, dpc, excused>>

\* Second half: the native return, then the release callback.
EndReturn(t) ==
  /\ xpc[t] = "native"
  /\ Returned(held[t])
  /\ held' = [held EXCEPT ![t] = None]
  /\ xpc' = [xpc EXCEPT ![t] = "idle"]
  /\ UNCHANGED <<mode, cache, flags, entity, queue, dropping, rpc, hand, got, spent, lock, dpc, excused>>

------------------------------------------------------------------------------
(* The drain, in an executor thread.                                          *)

PopItem(x) ==
  /\ xpc[x] = "idle" /\ queue # <<>>
  /\ queue' = Tail(queue)
  /\ LET item == Head(queue) IN
       /\ hand' = [hand EXCEPT ![x] = item.samples]
       /\ held' = [held EXCEPT ![x] = item.loan]
       /\ xpc' = [xpc EXCEPT ![x] = IF item.kind = "drain" THEN "drain" ELSE "call"]
  /\ got' = [got EXCEPT ![x] = 0] /\ spent' = [spent EXCEPT ![x] = 0]
  /\ UNCHANGED <<mode, cache, flags, entity, dropping, rpc, loans, lock, dpc, excused>>

\* A drain that finds the listener closed ends before its try block.
CheckClosed(x) ==
  /\ xpc[x] = "drain"
  /\ xpc' = [xpc EXCEPT ![x] = IF closed THEN "idle" ELSE "take"]
  /\ UNCHANGED <<mode, cache, flags, entity, queue, dropping, rpc, drain, loans, lock, dpc, excused>>

\* How many samples one take of the drain asks for.
Turns == IF mode.loan /\ ~mode.batch THEN 1 ELSE Limit

\* One take with the reader's lock.  Copies: everything at once.  Loans: a
\* loan for the batch, or one for each sample until the turns are used.
TakeCopies(x) ==
  /\ xpc[x] = "take" /\ lock = None /\ ~mode.loan
  /\ LET valid == Valid(Taken(Limit)) IN
       /\ hand' = [hand EXCEPT ![x] = valid]
       /\ got' = [got EXCEPT ![x] = Cardinality(valid)]
       /\ xpc' = [xpc EXCEPT ![x] = IF valid = {} THEN "finish" ELSE "offer"]
  /\ read' = UpTo(Limit)
  /\ spent' = [spent EXCEPT ![x] = UpTo(Limit) - read]
  /\ UNCHANGED <<mode, arrived, flags, entity, queue, dropping, rpc, held, loans, lock, dpc, excused>>

TakeLoan(x) ==
  /\ xpc[x] = "take" /\ lock = None /\ mode.loan
  /\ spent[x] < Limit
  /\ read' = UpTo(Turns)
  /\ spent' = [spent EXCEPT ![x] = @ + (UpTo(Turns) - read)]
  /\ LET valid == Valid(Taken(Turns)) IN
       \/ /\ valid # {}
          /\ held' = [held EXCEPT ![x] = read + 1]
          /\ loan' = [loan EXCEPT ![read + 1] = "held"]
          /\ hand' = [hand EXCEPT ![x] = valid]
          /\ lock' = x
          /\ xpc' = [xpc EXCEPT ![x] = "register"]
       \/ \* nothing valid: the loan goes back, a single take is a turn used
          /\ valid = {}
          /\ xpc' = [xpc EXCEPT ![x] = IF Unread = {} \/ mode.batch THEN "finish" ELSE "take"]
          /\ UNCHANGED <<held, loan, hand, lock>>
  /\ UNCHANGED <<mode, arrived, flags, entity, queue, dropping, rpc, got, active, objects, dpc, excused>>

\* The loop of single loans has used its turns.
TurnsUsed(x) ==
  /\ xpc[x] = "take" /\ mode.loan /\ spent[x] >= Limit
  /\ xpc' = [xpc EXCEPT ![x] = "finish"]
  /\ UNCHANGED <<mode, cache, flags, entity, queue, dropping, rpc, drain, loans, lock, dpc, excused>>

\* What is offered at once: the batch, or the next sample.
First(samples) == {s \in samples : \A r \in samples : s <= r}
Offered(x) == IF mode.batch THEN hand[x] ELSE First(hand[x])
Accepted(x) == IF mode.filter THEN Offered(x) \ Rejected ELSE Offered(x)
Counts(x) == IF mode.loan THEN got[x] + Cardinality(Offered(x)) ELSE got[x]

AfterOffer(x) ==
  IF mode.batch THEN "finish"
  ELSE IF mode.loan THEN "take"
  ELSE IF hand[x] # Offered(x) THEN "offer" ELSE "finish"

\* _enqueue_user_callback and _enqueue_user_batch_callback: the content filter,
\* then the node's queue.  The loan of a rejected sample is returned, also when
\* other samples of the same loan are accepted; a callback that the node
\* refuses has its hook called.
Offer(x) ==
  /\ xpc[x] = "offer"
  /\ IF Accepted(x) # {}
     THEN \/ queue' = Append(queue, Call(Accepted(x), held[x])) /\ UNCHANGED dropping
          \/ /\ Droppable /\ dropping = None
             /\ dropping' = Call(Accepted(x), held[x]) /\ UNCHANGED queue
     ELSE UNCHANGED <<queue, dropping>>
  /\ IF held[x] # None /\ Accepted(x) # Offered(x) THEN Returned(held[x]) ELSE UNCHANGED loans
  /\ got' = [got EXCEPT ![x] = Counts(x)]
  /\ hand' = [hand EXCEPT ![x] = @ \ Offered(x)]
  /\ held' = [held EXCEPT ![x] = None]
  /\ xpc' = [xpc EXCEPT ![x] = AfterOffer(x)]
  /\ UNCHANGED <<mode, cache, flags, entity, rpc, spent, lock, dpc, excused>>

HitLimit(x) == got[x] >= Limit

\* The finally block: under _pending_lock, go on or clear the flag.
Finish(x) ==
  /\ xpc[x] = "finish"
  /\ \/ /\ closed
        /\ pending' = FALSE /\ again' = FALSE
        /\ xpc' = [xpc EXCEPT ![x] = "idle"]
        /\ UNCHANGED excused
     \/ /\ ~closed /\ (HitLimit(x) \/ again)
        /\ again' = FALSE
        /\ xpc' = [xpc EXCEPT ![x] = "requeue"]
        /\ UNCHANGED <<pending, excused>>
     \/ /\ ~closed /\ ~HitLimit(x) /\ ~again
        /\ pending' = FALSE
        /\ excused' = (excused \/ spent[x] > got[x])
        /\ xpc' = [xpc EXCEPT ![x] = "idle"]
        /\ UNCHANGED again
  /\ UNCHANGED <<mode, cache, entity, queue, dropping, rpc, drain, loans, lock, dpc>>

Requeue(x) ==
  /\ xpc[x] = "requeue"
  /\ EnqueueDrain
  /\ xpc' = [xpc EXCEPT ![x] = "idle"]
  /\ UNCHANGED <<mode, cache, flags, entity, rpc, drain, loans, lock, dpc, excused>>

------------------------------------------------------------------------------
(* User callbacks, drops, and polling of a subscription without a callback.   *)

\* The wrapper looks whether the listener is closed, then calls the user.
BeginCall(x) ==
  /\ xpc[x] = "call"
  /\ xpc' = [xpc EXCEPT ![x] = IF closed THEN "return" ELSE "user"]
  /\ UNCHANGED <<mode, cache, flags, entity, queue, dropping, rpc, drain, loans, lock, dpc, excused>>

\* The user's code returns or raises; the loan is returned either way.
EndCall(x) ==
  /\ xpc[x] = "user"
  /\ xpc' = [xpc EXCEPT ![x] = "return"]
  /\ UNCHANGED <<mode, cache, flags, entity, queue, dropping, rpc, drain, loans, lock, dpc, excused>>

\* The node evicts its oldest item.
DropOldest ==
  /\ Droppable /\ dropping = None /\ queue # <<>>
  /\ dropping' = Head(queue)
  /\ queue' = Tail(queue)
  /\ UNCHANGED <<mode, cache, flags, entity, rpc, xpc, drain, loans, lock, dpc, excused>>

\* (faulty: a dropped callback keeps its loan)
DropHookKeepsLoan ==
  /\ dropping # None
  /\ dropping' = None
  /\ IF dropping.kind = "drain"
     THEN pending' = FALSE /\ again' = FALSE /\ excused' = TRUE
     ELSE UNCHANGED <<flags, excused>>
  /\ UNCHANGED <<mode, cache, entity, queue, rpc, xpc, drain, loans, lock, dpc>>

\* _lwrclpy_on_dropped: of a drain it clears the flags, of a callback it
\* returns the loan.
DropHook ==
  /\ dropping # None
  /\ dropping' = None
  /\ \/ /\ dropping.kind = "drain"
        /\ pending' = FALSE /\ again' = FALSE /\ excused' = TRUE
        /\ UNCHANGED loans
     \/ /\ dropping.kind = "call"
        /\ IF IsOut(dropping.loan)
           THEN Returned(dropping.loan) ELSE UNCHANGED loans
        /\ UNCHANGED <<flags, excused>>
  /\ UNCHANGED <<mode, cache, entity, queue, rpc, xpc, drain, lock, dpc>>

\* take(): copies, with the reader's lock, nothing once destroyed.
PollCopies(u) ==
  /\ ~mode.callback /\ xpc[u] = "idle" /\ lock = None /\ ~destroyed /\ Unread # {}
  /\ read' = read + 1
  /\ UNCHANGED <<mode, arrived, flags, entity, queue, dropping, rpc, xpc, drain, loans, lock, dpc, excused>>

\* _loaned_take(): the user gets a loan to return.
PollLoan(u) ==
  /\ ~mode.callback /\ xpc[u] = "idle" /\ lock = None /\ ~destroyed /\ Unread # {}
  /\ read' = read + 1
  /\ held' = [held EXCEPT ![u] = read + 1]
  /\ loan' = [loan EXCEPT ![read + 1] = "held"]
  /\ lock' = u
  /\ xpc' = [xpc EXCEPT ![u] = "register"]
  /\ UNCHANGED <<mode, arrived, flags, entity, queue, dropping, rpc, hand, got, spent, active, objects, dpc, excused>>

UserReturns(u) ==
  /\ xpc[u] = "hold"
  /\ xpc' = [xpc EXCEPT ![u] = "return"]
  /\ UNCHANGED <<mode, cache, flags, entity, queue, dropping, rpc, drain, loans, lock, dpc, excused>>

------------------------------------------------------------------------------
(* destroy().                                                                 *)

Destroy(d) ==
  /\ dpc[d] = "idle"
  /\ dpc' = [dpc EXCEPT ![d] = IF destroyed /\ deleted THEN "done" ELSE "close"]
  /\ destroyed' = TRUE
  /\ UNCHANGED <<mode, cache, flags, closed, deleted, queue, dropping, rpc, xpc, drain, loans, lock, excused>>

Close(d) ==
  /\ dpc[d] = "close"
  /\ closed' = TRUE /\ pending' = FALSE /\ again' = FALSE
  /\ dpc' = [dpc EXCEPT ![d] = "wait"]
  /\ UNCHANGED <<mode, cache, destroyed, deleted, queue, dropping, rpc, xpc, drain, loans, lock, excused>>

\* (faulty: the wait for the loans is left out)
NoWait(d) ==
  /\ dpc[d] = "wait"
  /\ dpc' = [dpc EXCEPT ![d] = "delete"]
  /\ UNCHANGED <<mode, cache, flags, entity, queue, dropping, rpc, xpc, drain, loans, lock, excused>>

LoansAreBack(d) ==
  /\ dpc[d] = "wait" /\ active = 0
  /\ dpc' = [dpc EXCEPT ![d] = "delete"]
  /\ UNCHANGED <<mode, cache, flags, entity, queue, dropping, rpc, xpc, drain, loans, lock, excused>>

\* LWRCLPY_DESTROY_LOAN_TIMEOUT: the loans in the set are given up, their
\* native objects kept for ever; the reader stays.
LoanTimeout(d) ==
  /\ dpc[d] = "wait" /\ active > 0
  /\ Prompt => \A t \in Threads : xpc[t] # "activate"
  /\ loan' = [l \in Samples |-> IF l \in objects /\ loan[l] = "held" THEN "leaked" ELSE loan[l]]
  /\ active' = 0 /\ objects' = {}
  /\ dpc' = [dpc EXCEPT ![d] = "done"]
  /\ UNCHANGED <<mode, cache, flags, entity, queue, dropping, rpc, xpc, drain, lock, excused>>

DeleteReader(d) ==
  /\ dpc[d] = "delete" /\ lock = None
  /\ deleted' = TRUE /\ read' = arrived
  /\ dpc' = [dpc EXCEPT ![d] = "done"]
  /\ UNCHANGED <<mode, arrived, flags, closed, destroyed, queue, dropping, rpc, xpc, drain, loans, lock, excused>>

------------------------------------------------------------------------------

ReceiverStep(r) == OnDataAvailable(r) \/ ReceiverEnqueues(r)
LoanStep(t) == Register(t) \/ Activate(t) \/ BeginReturn(t) \/ EndReturn(t)
DrainStep(x) ==
  \/ CheckClosed(x) \/ TakeCopies(x) \/ TakeLoan(x) \/ TurnsUsed(x)
  \/ Offer(x) \/ Finish(x) \/ Requeue(x)
ExecutorStep(x) == PopItem(x) \/ DrainStep(x) \/ BeginCall(x) \/ EndCall(x) \/ LoanStep(x)
UserStep(u) == PollCopies(u) \/ PollLoan(u) \/ UserReturns(u)
DestroyStep(d) == Close(d) \/ LoansAreBack(d) \/ LoanTimeout(d) \/ DeleteReader(d)

Next ==
  \/ \E r \in Receivers : Arrive(r) \/ ReceiverStep(r)
  \/ \E x \in Executors : ExecutorStep(x)
  \/ \E u \in Users : UserStep(u) \/ LoanStep(u)
  \/ \E d \in Destroyers : Destroy(d) \/ DestroyStep(d)
  \/ DropOldest \/ DropHook

\* Executors run what is queued, calls end, hooks are called; nobody has to
\* send, poll, return a polled loan, drop or destroy.
Fairness ==
  /\ \A r \in Receivers : WF_vars(ReceiverStep(r))
  /\ \A x \in Executors : WF_vars(ExecutorStep(x))
  /\ \A u \in Users : WF_vars(LoanStep(u))
  /\ \A d \in Destroyers : WF_vars(DestroyStep(d))
  /\ WF_vars(DropHook)

Spec == Init /\ [][Next]_vars
FairSpec == Spec /\ Fairness

------------------------------------------------------------------------------
(* Properties.                                                                *)

TypeOK ==
  /\ mode \in AllModes
  /\ arrived \in 0..MaxSamples /\ read \in 0..arrived
  /\ {pending, again, closed, destroyed, deleted, excused} \subseteq BOOLEAN
  /\ queue \in Seq(Items) /\ dropping \in Items \cup {None}
  /\ rpc \in [Receivers -> {"idle", "notify", "enqueue"}]
  /\ xpc \in [Threads -> {"idle", "drain", "take", "register", "activate", "offer", "finish",
                          "requeue", "call", "user", "hold", "return", "native"}]
  /\ hand \in [Threads -> SUBSET Samples] /\ held \in [Threads -> Samples \cup {None}]
  /\ \A t \in Threads : xpc[t] \in {"register", "activate"} => held[t] # None
  /\ got \in [Threads -> Nat] /\ spent \in [Threads -> Nat]
  /\ loan \in [Samples -> {"none", "held", "returned", "leaked"}]
  /\ active \in Nat /\ objects \subseteq Samples
  /\ lock \in Threads \cup {None}
  /\ dpc \in [Destroyers -> {"idle", "close", "wait", "delete", "done"}]

\* Where a drain can be: in the queue, in the hands of an executor thread, about
\* to be enqueued, or dropped with its hook still to run.
Draining(x) ==
  x \in Executors /\ xpc[x] \in {"drain", "take", "register", "activate", "offer", "finish",
                                 "requeue"}
DropsDrain == dropping # None /\ dropping.kind = "drain"
Drains(items) == {i \in 1..Len(items) : items[i].kind = "drain"}
Drainers == {x \in Executors : Draining(x)}
Askers   == {r \in Receivers : rpc[r] = "enqueue"}
DrainsUnderway ==
  {<<"queue", i>> : i \in Drains(queue)}
    \cup {<<"thread", x>> : x \in Drainers}
    \cup {<<"receiver", r>> : r \in Askers}
    \cup (IF DropsDrain THEN {<<"hook", 0>>} ELSE {})

\* While the listener is open there is one drain if the pending flag is set, and
\* none if it is not: the flag is never left behind by a drain that was dropped,
\* refused or cut short, and two threads never drain at once.  And a sample that
\* lies in the reader's cache has a drain to come for it, or a DDS thread about
\* to ask for one.  Excused are samples whose drain the node dropped, and those
\* behind a sample without valid data (a drain that meets one stops short of its
\* limit and is not repeated): they wait for the next arrival (code:
\* on_data_available, _drain_reader_callbacks, _on_drain_dropped).
DrainScheduled ==
  ~closed =>
    /\ Cardinality(DrainsUnderway) = (IF pending THEN 1 ELSE 0)
    /\ Unread # {} /\ mode.callback /\ ~excused
         => pending \/ \E r \in Receivers : rpc[r] = "notify"

\* Why: the drain moves from one place to the next, closed or not, and it goes
\* with the flag while the listener is open.
AtMostOne(S) == \A a, b \in S : a = b
OneDrain ==
  /\ AtMostOne(Drains(queue)) /\ AtMostOne(Drainers) /\ AtMostOne(Askers)
  /\ Drains(queue) # {} => Drainers = {} /\ Askers = {} /\ ~DropsDrain
  /\ Drainers # {} => Askers = {} /\ ~DropsDrain
  /\ DropsDrain => Askers = {}
  /\ pending => mode.callback
  /\ ~closed => (pending <=> Drains(queue) # {} \/ Drainers # {} \/ Askers # {} \/ DropsDrain)

\* Why: a drain that leaves a sample behind after its last take, without being
\* asked to go on, has used its turns, or has met a sample that did not count.
Prompted == again \/ \E r \in Receivers : rpc[r] = "notify"
LastTake(x) ==
  \/ xpc[x] = "finish"
  \/ xpc[x] \in {"register", "activate", "offer"} /\ (mode.batch \/ ~mode.loan)
CountInv ==
  \A x \in Executors :
    /\ xpc[x] \in {"register", "activate"} => mode.loan
    /\ mode.loan /\ xpc[x] \in {"drain", "take"} => got[x] <= spent[x]
    /\ mode.loan /\ xpc[x] \in {"register", "activate", "offer"} => got[x] < spent[x]
DrainInv ==
  /\ \A x \in Executors : LastTake(x) =>
       \/ closed \/ Unread = {} \/ Prompted \/ spent[x] >= Limit
       \/ xpc[x] = "finish" /\ spent[x] > got[x]
  /\ ~closed /\ Unread # {} /\ mode.callback /\ ~excused
       => pending \/ \E r \in Receivers : rpc[r] = "notify"

\* Callbacks are queued in the order in which their samples arrived.
InOrder ==
  \A i, j \in DOMAIN queue :
    i < j /\ queue[i].kind = "call" /\ queue[j].kind = "call"
      => \A s \in queue[i].samples, r \in queue[j].samples : s < r

\* Why: the one drain has taken its samples after those of every queued callback.
Waiting(items) ==
  {n \in Samples : \E i \in 1..Len(items) : items[i].kind = "call" /\ n \in items[i].samples}
OrderInv ==
  /\ InOrder
  /\ \A n \in Waiting(queue) : n <= read
  /\ \A x \in Executors : xpc[x] \in {"register", "activate", "offer"} =>
       \A s \in hand[x] : s <= read /\ \A n \in Waiting(queue) : n < s

\* When the reader is deleted, no loan on its memory is out: each has been
\* returned, or was given up after the time limit and is kept for ever (code:
\* the wait in destroy, the refusal in _register_loan).
NoLoanAtDeletion == deleted => \A l \in Samples : loan[l] # "held"

\* Why: the count covers the set and the thread about to add to it, one at a
\* time with the reader's lock; destroy() refuses new loans before it waits.
Registering == {t \in Threads : xpc[t] \in {"register", "activate"}}
Activating  == {t \in Threads : xpc[t] = "activate"}
LoanInv ==
  /\ \A t \in Registering : lock = t
  /\ active >= Cardinality(objects) + (IF Activating = {} THEN 0 ELSE 1)
  /\ \A l \in Samples : loan[l] = "held" => l \in objects \/ \E t \in Registering : held[t] = l
  /\ deleted \/ (\E d \in Destroyers : dpc[d] # "idle") => destroyed
  /\ (\E d \in Destroyers : dpc[d] = "delete") => active = 0
  /\ deleted => active = 0 /\ Registering = {} /\ Unread = {}

\* A loan that was taken for a callback ends: the callback returns it, or the
\* hook of a drop, or the filter, or destroy gives it up.
EveryLoanEnds ==
  \A l \in Samples :
    loan[l] = "held" /\ ~(\E u \in Users : held[u] = l) ~> loan[l] # "held"
=============================================================================
