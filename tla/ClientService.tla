--------------------------- MODULE ClientService ---------------------------
(***************************************************************************)
(* lwrclpy/client.py and service.py: clients of one service name, each with *)
(* a single slot for the future it waits for, the request topic all their   *)
(* requests go to, the service's callback, and the reply topic every client *)
(* reads.  Neither requests nor replies carry an identity: a message is     *)
(* known here by the call it belongs to, which the code cannot see.         *)
(* Topics deliver in order; when lossy they may drop their oldest message.  *)
(***************************************************************************)
EXTENDS Sequences

CONSTANTS Clients,            \* Client objects of one service name
          Calls,              \* calls of call() and call_async()
          ClientOf,           \* the client each call is made on
          Blocking,           \* calls of call() with a timeout; the others are async
          Lossy,              \* KEEP_LAST queues may overflow
          MayFail,            \* publish() of a request may raise
          Abandonable,        \* calls whose future the program may cancel itself
          DestroyableClients, \* clients the program may destroy
          MayDestroyService,
          None                \* no call

ASSUME ClientAssumption ==
    /\ ClientOf \in [Calls -> Clients]
    /\ Blocking \subseteq Calls
    /\ Abandonable \subseteq Calls \ Blocking
    /\ DestroyableClients \subseteq Clients
    /\ Lossy \in BOOLEAN /\ MayFail \in BOOLEAN /\ MayDestroyService \in BOOLEAN
    /\ None \notin Calls
    /\ Calls \cap {"pending", "cancelled", "error"} = {}

VARIABLES
    callPc,    \* callPc[c]: where the thread of call c is
    fut,       \* fut[c]: "pending", "cancelled", "error", or the call whose
               \* response it got
    slot,      \* slot[k]: Client._pending_future
    resolving, \* resolving[k]: <<call, response>> _on_response has in hand
    destroyed, \* clients whose _destroyed is set
    ending,    \* ending[k]: the future destroy() has taken and not yet cancelled
    requests,  \* the request topic, oldest first
    replies,   \* replies[k]: the reply topic as client k reads it
    spc,       \* where the service's callback is
    serving,   \* the request it is about
    serviceUp, \* Service._destroyed is not set
    intact     \* no message was lost and the service is up so far

callVars    == <<callPc, fut>>
clientVars  == <<slot, resolving, destroyed, ending>>
topicVars   == <<requests, replies, intact>>
serviceVars == <<spc, serving, serviceUp>>
vars == <<callVars, clientVars, topicVars, serviceVars>>

Init ==
    /\ callPc = [c \in Calls |-> "new"]
    /\ fut = [c \in Calls |-> "pending"]
    /\ slot = [k \in Clients |-> None]
    /\ resolving = [k \in Clients |-> <<>>]
    /\ destroyed = {}
    /\ ending = [k \in Clients |-> None]
    /\ requests = <<>>
    /\ replies = [k \in Clients |-> <<>>]
    /\ spc = "idle"
    /\ serving = None
    /\ serviceUp = TRUE
    /\ intact = TRUE

\* A done future keeps its outcome (module Future).
Settle(c, outcome) ==
    fut' = [fut EXCEPT ![c] = IF @ = "pending" THEN outcome ELSE @]

Advance(c, from, to) ==
    /\ callPc[c] = from
    /\ callPc' = [callPc EXCEPT ![c] = to]

-----------------------------------------------------------------------------
(* call_async and call                                                      *)

\* (faulty: a pending request is overwritten)
CallOver(c) ==
    /\ Advance(c, "new", "publish")
    /\ slot' = [slot EXCEPT ![ClientOf[c]] = c]
    /\ UNCHANGED <<fut, resolving, destroyed, ending, topicVars, serviceVars>>

\* The lock section of call_async: a destroyed client's future gets an error,
\* a client that waits already makes the call raise.
CallAsync(c) ==
    LET k == ClientOf[c]
    IN /\ \/ /\ k \in destroyed
             /\ Advance(c, "new", "returned")
             /\ Settle(c, "error")
             /\ slot' = slot
          \/ /\ k \notin destroyed /\ slot[k] # None
             /\ Advance(c, "new", "raised")
             /\ UNCHANGED <<fut, slot>>
          \/ /\ k \notin destroyed /\ slot[k] = None
             /\ Advance(c, "new", "publish")
             /\ slot' = [slot EXCEPT ![k] = c]
             /\ fut' = fut
       /\ UNCHANGED <<resolving, destroyed, ending, topicVars, serviceVars>>

Sent(c) == IF c \in Blocking THEN "wait" ELSE "returned"

Publish(c) ==
    /\ ClientOf[c] \notin destroyed
    /\ Advance(c, "publish", Sent(c))
    /\ requests' = IF serviceUp THEN Append(requests, c) ELSE requests
    /\ UNCHANGED <<fut, clientVars, replies, intact, serviceVars>>

\* publish() raises, or the publisher is gone: give the slot back ...
PublishFails(c) ==
    LET k == ClientOf[c]
    IN /\ MayFail \/ k \in destroyed
       /\ Advance(c, "publish", "fail")
       /\ slot' = [slot EXCEPT ![k] = IF @ = c THEN None ELSE @]
       /\ UNCHANGED <<fut, resolving, destroyed, ending, topicVars, serviceVars>>

\* ... and set the exception, outside the lock.
SetException(c) ==
    /\ Advance(c, "fail", "returned")
    /\ Settle(c, "error")
    /\ UNCHANGED <<clientVars, topicVars, serviceVars>>

\* call(): future._event.wait(timeout)
Answered(c) ==
    /\ fut[c] # "pending"
    /\ Advance(c, "wait", "returned")
    /\ UNCHANGED <<fut, clientVars, topicVars, serviceVars>>

Timeout(c) ==
    LET k == ClientOf[c]
    IN /\ fut[c] = "pending"
       /\ Advance(c, "wait", "cancel")
       /\ slot' = [slot EXCEPT ![k] = IF @ = c THEN None ELSE @]
       /\ UNCHANGED <<fut, resolving, destroyed, ending, topicVars, serviceVars>>

CancelTimedOut(c) ==
    /\ Advance(c, "cancel", "returned")
    /\ Settle(c, "cancelled")
    /\ UNCHANGED <<clientVars, topicVars, serviceVars>>

\* future.cancel() by the program: the client is not told.
Abandon(c) ==
    /\ c \in Abandonable /\ callPc[c] = "returned" /\ fut[c] = "pending"
    /\ Settle(c, "cancelled")
    /\ UNCHANGED <<callPc, clientVars, topicVars, serviceVars>>

-----------------------------------------------------------------------------
(* The service: _on_request                                                 *)

\* The first look at _destroyed, then the user's callback.
TakeRequest ==
    /\ spc = "idle" /\ requests # <<>>
    /\ requests' = Tail(requests)
    /\ \/ serviceUp /\ spc' = "callback" /\ serving' = Head(requests)
       \/ ~serviceUp /\ UNCHANGED <<spc, serving>>
    /\ UNCHANGED <<callVars, clientVars, replies, intact, serviceUp>>

\* (faulty: a callback that raises is not answered)
SkipResponse ==
    /\ spc = "callback"
    /\ spc' = "idle"
    /\ serving' = None
    /\ UNCHANGED <<callVars, clientVars, topicVars, serviceUp>>

\* The callback returns or raises (the default response is sent then); the
\* second look at _destroyed; the reply topic reaches every client.
PublishResponse ==
    /\ spc = "callback"
    /\ spc' = "idle"
    /\ serving' = None
    /\ replies' = [k \in Clients |->
                      IF serviceUp /\ k \notin destroyed
                      THEN Append(replies[k], serving) ELSE replies[k]]
    /\ UNCHANGED <<callVars, clientVars, requests, intact, serviceUp>>

DestroyService ==
    /\ MayDestroyService /\ serviceUp
    /\ serviceUp' = FALSE
    /\ intact' = FALSE
    /\ UNCHANGED <<callVars, clientVars, requests, replies, spc, serving>>

LoseRequest ==
    /\ Lossy /\ requests # <<>>
    /\ requests' = Tail(requests)
    /\ intact' = FALSE
    /\ UNCHANGED <<callVars, clientVars, replies, serviceVars>>

LoseReply(k) ==
    /\ Lossy /\ replies[k] # <<>>
    /\ replies' = [replies EXCEPT ![k] = Tail(@)]
    /\ intact' = FALSE
    /\ UNCHANGED <<callVars, clientVars, requests, serviceVars>>

-----------------------------------------------------------------------------
(* The client's _on_response and destroy()                                  *)

\* The lock section: whatever future is in the slot takes the response.
OnResponse(k) ==
    /\ replies[k] # <<>> /\ resolving[k] = <<>>
    /\ replies' = [replies EXCEPT ![k] = Tail(@)]
    /\ IF k \in destroyed \/ slot[k] = None
       THEN UNCHANGED <<slot, resolving>>
       ELSE /\ resolving' = [resolving EXCEPT ![k] = <<slot[k], Head(replies[k])>>]
            /\ slot' = [slot EXCEPT ![k] = None]
    /\ UNCHANGED <<callVars, destroyed, ending, requests, intact, serviceVars>>

Resolve(k) ==
    /\ resolving[k] # <<>>
    /\ Settle(resolving[k][1], resolving[k][2])
    /\ resolving' = [resolving EXCEPT ![k] = <<>>]
    /\ UNCHANGED <<callPc, slot, destroyed, ending, topicVars, serviceVars>>

DestroyClient(k) ==
    /\ k \in DestroyableClients \ destroyed
    /\ destroyed' = destroyed \cup {k}
    /\ ending' = [ending EXCEPT ![k] = slot[k]]
    /\ slot' = [slot EXCEPT ![k] = None]
    /\ UNCHANGED <<callVars, resolving, topicVars, serviceVars>>

CancelPending(k) ==
    /\ ending[k] # None
    /\ Settle(ending[k], "cancelled")
    /\ ending' = [ending EXCEPT ![k] = None]
    /\ UNCHANGED <<callPc, slot, resolving, destroyed, topicVars, serviceVars>>

-----------------------------------------------------------------------------

CallStep(c) ==
    \/ Publish(c) \/ PublishFails(c) \/ SetException(c)
    \/ Answered(c) \/ Timeout(c) \/ CancelTimedOut(c)
ClientStep(k) == OnResponse(k) \/ Resolve(k) \/ CancelPending(k)
ServiceStep == TakeRequest \/ PublishResponse

Next ==
    \/ \E c \in Calls : CallAsync(c) \/ CallStep(c) \/ Abandon(c)
    \/ \E k \in Clients : ClientStep(k) \/ DestroyClient(k) \/ LoseReply(k)
    \/ ServiceStep \/ DestroyService \/ LoseRequest

Spec == Init /\ [][Next]_vars

\* Calls go on (their timeouts pass), executors run the callbacks of clients
\* and service, and a callback returns; nobody has to call or destroy.
Fairness ==
    /\ \A c \in Calls : WF_vars(CallStep(c))
    /\ \A k \in Clients : WF_vars(ClientStep(k))
    /\ WF_vars(ServiceStep)

FairSpec == Spec /\ Fairness

-----------------------------------------------------------------------------
(* Properties                                                               *)

\* Every variable stays in its domain.
TypeOK ==
    /\ callPc \in [Calls -> {"new", "raised", "publish", "fail", "wait", "cancel",
                             "returned"}]
    /\ fut \in [Calls -> Calls \cup {"pending", "cancelled", "error"}]
    /\ slot \in [Clients -> Calls \cup {None}]
    /\ resolving \in [Clients -> {<<>>} \cup (Calls \X Calls)]
    /\ destroyed \subseteq Clients
    /\ ending \in [Clients -> Calls \cup {None}]
    /\ requests \in Seq(Calls)
    /\ replies \in [Clients -> Seq(Calls)]
    /\ spc \in {"idle", "callback"}
    /\ serving \in Calls \cup {None}
    /\ spc = "callback" => serving # None
    /\ serviceUp \in BOOLEAN /\ intact \in BOOLEAN

\* A future resolved with a response has the response to its own request.
OwnResponse == \A c \in Calls : fut[c] \in Calls => fut[c] = c

\* A pending future that was handed out is never forgotten: the client's slot
\* holds it, or a thread that is about to settle it does.  And the slot never
\* holds a future that is done, unless the program cancelled it itself: a client
\* refuses a call only while it waits for a response.
PendingIsHeld ==
    /\ \A c \in Calls :
          LET k == ClientOf[c]
          IN fut[c] = "pending" /\ callPc[c] \notin {"new", "raised"}
               => \/ slot[k] = c
                  \/ resolving[k] # <<>> /\ resolving[k][1] = c
                  \/ ending[k] = c
                  \/ callPc[c] \in {"fail", "cancel"}
    /\ \A k \in Clients :
          slot[k] \notin Abandonable \cup {None} => fut[slot[k]] = "pending"

Inside == {c \in Blocking : callPc[c] \notin {"new", "raised", "returned"}}
Open ==
    {c \in Calls :
        callPc[c] \notin {"new", "raised"} /\ (callPc[c] # "returned" \/ fut[c] = "pending")}

\* A call() returns, whatever is lost or destroyed; and every call ends, with a
\* response, an error or by being cancelled, unless a message of the service was
\* lost or the service destroyed.
EveryCallEnds ==
    /\ Inside # {} ~> Inside = {}
    /\ Open # {} ~> Open = {} \/ ~intact
=============================================================================
