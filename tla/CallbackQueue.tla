----------------------------- MODULE CallbackQueue -----------------------------
(* The queue of a client or service that was given no node                     *)
(* (lwrclpy/_callback_queue.py): DDS threads put callbacks in, one thread of    *)
(* the queue's own takes them out, close() ends it with a marker.  The queue    *)
(* may be bounded; enqueue and close hold the lock, the consumer does not.      *)
EXTENDS Naturals, Sequences

CONSTANTS
  Producers,   \* threads that call enqueue()
  Closers,     \* threads that call close()
  MaxItems,    \* how many items are put in (a bound)
  Limits       \* what it may be made with: bound, the maxsize (0 is unbounded),
               \* and newest, whether a full queue drops what comes last

Stop == 0      \* the marker; items are numbered from 1
Threads == Producers \cup Closers

VARIABLES
  limit,     \* what it was made with
  queue,     \* the items and perhaps the marker
  offered,   \* how many items were offered
  closed,    \* _closed
  lock,      \* who is inside a lock section of several steps: a set of at most one
  qpc,       \* where a client is
  item,      \* what it puts in
  consumer   \* "get", "call" or "ended"

qvars == <<limit, queue, offered, closed, lock, qpc, item, consumer>>

Init ==
  /\ limit \in Limits
  /\ queue = <<>> /\ offered = 0 /\ closed = FALSE /\ lock = {}
  /\ qpc = [c \in Threads |-> "idle"] /\ item = [c \in Threads |-> Stop]
  /\ consumer = "get"

Full == limit.bound > 0 /\ Len(queue) >= limit.bound

\* enqueue: nothing once closed; a full queue refuses the item or goes on to
\* make room, with the lock held.
Enqueue(p) ==
  /\ qpc[p] = "idle" /\ lock = {} /\ offered < MaxItems
  /\ offered' = offered + 1
  /\ IF ~closed /\ Full /\ ~limit.newest
     THEN /\ lock' = {p} /\ qpc' = [qpc EXCEPT ![p] = "evict"]
          /\ item' = [item EXCEPT ![p] = offered + 1]
          /\ UNCHANGED queue
     ELSE /\ queue' = IF closed \/ Full THEN queue ELSE Append(queue, offered + 1)
          /\ UNCHANGED <<lock, qpc, item>>
  /\ UNCHANGED <<limit, closed, consumer>>

\* close: the marker goes in, as an item does with drop_oldest.
Close(c) ==
  /\ qpc[c] = "idle" /\ lock = {}
  /\ closed' = TRUE
  /\ IF ~closed /\ Full
     THEN /\ lock' = {c} /\ qpc' = [qpc EXCEPT ![c] = "evict"]
          /\ item' = [item EXCEPT ![c] = Stop]
          /\ UNCHANGED queue
     ELSE /\ queue' = IF closed THEN queue ELSE Append(queue, Stop)
          /\ qpc' = [qpc EXCEPT ![c] = "join"]
          /\ UNCHANGED <<lock, item>>
  /\ UNCHANGED <<limit, offered, consumer>>

\* The oldest item goes, unless the consumer has emptied the queue meanwhile.
Evict(c) ==
  /\ qpc[c] = "evict"
  /\ queue' = IF queue = <<>> THEN queue ELSE Tail(queue)
  /\ qpc' = [qpc EXCEPT ![c] = "put"]
  /\ UNCHANGED <<limit, offered, closed, lock, item, consumer>>

PutAgain(c) ==
  /\ qpc[c] = "put"
  /\ queue' = IF Full THEN queue ELSE Append(queue, item[c])
  /\ lock' = {}
  /\ qpc' = [qpc EXCEPT ![c] = IF c \in Closers THEN "join" ELSE "idle"]
  /\ UNCHANGED <<limit, offered, closed, item, consumer>>

\* close waits 200 ms for the consumer: until it ends, or not.
Join(c) ==
  /\ qpc[c] = "join"
  /\ qpc' = [qpc EXCEPT ![c] = "done"]
  /\ UNCHANGED <<limit, queue, offered, closed, lock, item, consumer>>

\* _run: an item is called, whatever it raises; the marker ends the thread.
Get ==
  /\ consumer = "get" /\ queue # <<>>
  /\ consumer' = IF Head(queue) = Stop THEN "ended" ELSE "call"
  /\ queue' = Tail(queue)
  /\ UNCHANGED <<limit, offered, closed, lock, qpc, item>>

Return ==
  /\ consumer = "call" /\ consumer' = "get"
  /\ UNCHANGED <<limit, queue, offered, closed, lock, qpc, item>>

LockedStep(c) == Evict(c) \/ PutAgain(c) \/ Join(c)

Next ==
  \/ \E p \in Producers : Enqueue(p)
  \/ \E c \in Closers : Close(c)
  \/ \E c \in Threads : LockedStep(c)
  \/ Get \/ Return

\* Threads inside a lock section and the consumer go on, callbacks return.
Fairness == WF_qvars(Get \/ Return) /\ \A c \in Threads : WF_qvars(LockedStep(c))

Spec == Init /\ [][Next]_qvars /\ Fairness

\* A queue that was closed has its thread ended once the callback at hand
\* returns, and the items before the marker are through: the marker is not lost
\* to a full queue, nor evicted by an item that comes later (code: the two
\* tries of close, the look at _closed in enqueue).
ConsumerEnds == closed ~> consumer = "ended"
=============================================================================
