----------------------------- MODULE Readiness -----------------------------
(***************************************************************************)
(* Waiting for the other side: Client.wait_for_service (lwrclpy/client.py) *)
(* and ActionClient.wait_for_server (action.py).  Discovery matches the    *)
(* endpoints of the client one at a time; a look at them reads one count   *)
(* after the other, and a call of wait_for looks again every 50 ms until   *)
(* its limit.  The client may be destroyed and the server may go (and come *)
(* back) meanwhile.                                                        *)
(***************************************************************************)
EXTENDS Naturals, Sequences

CONSTANTS Looked,    \* the endpoints, in the order in which their counts are read
          Waits,     \* calls of wait_for_service and wait_for_server
          Unlimited, \* those of wait_for_service without a timeout
          MaxLooks   \* how many looks fit in the limit of the others

ReadinessAssumption == Unlimited \subseteq Waits /\ MaxLooks \in Nat

Endpoints == {Looked[i] : i \in 1..Len(Looked)}

VARIABLES
    matched, \* endpoints that have a counterpart
    steady,  \* no endpoint has lost its counterpart so far
    gone,    \* the client is destroyed
    wpc,     \* wpc[w]: "new", "look", "count", "sleep", "ready" or "not ready"
    at,      \* at[w]: which count is read next
    looks    \* looks[w]: looks that w has left

vars == <<matched, steady, gone, wpc, at, looks>>

Init ==
    /\ matched = {} /\ steady = TRUE /\ gone = FALSE
    /\ wpc = [w \in Waits |-> "new"]
    /\ at = [w \in Waits |-> 1]
    /\ looks \in [Waits -> 0..MaxLooks]

Goto(w, from, to) ==
    /\ wpc[w] = from
    /\ wpc' = [wpc EXCEPT ![w] = to]

\* A limit of zero or less allows for one look, as the end of every limit does.
Wait(w) ==
    /\ Goto(w, "new", "look")
    /\ UNCHANGED <<matched, steady, gone, at, looks>>

Last(w) == w \notin Unlimited /\ looks[w] = 0
NotReady(w) == IF Last(w) THEN "not ready" ELSE "sleep"

\* service_is_ready: a destroyed client is not.
Look(w) ==
    /\ Goto(w, "look", IF gone THEN NotReady(w) ELSE "count")
    /\ at' = [at EXCEPT ![w] = 1]
    /\ UNCHANGED <<matched, steady, gone, looks>>

\* One count; those of a destroyed publisher or subscription are zero, or raise.
Count(w) ==
    /\ Goto(w, "count", IF gone \/ Looked[at[w]] \notin matched THEN NotReady(w)
                        ELSE IF at[w] = Len(Looked) THEN "ready" ELSE "count")
    /\ at' = [at EXCEPT ![w] = IF @ = Len(Looked) THEN @ ELSE @ + 1]
    /\ UNCHANGED <<matched, steady, gone, looks>>

Sleep(w) ==
    /\ Goto(w, "sleep", "look")
    /\ looks' = [looks EXCEPT ![w] = IF w \in Unlimited THEN @ ELSE @ - 1]
    /\ UNCHANGED <<matched, steady, gone, at>>

\* Discovery, in any order.
Match(e) ==
    /\ e \notin matched
    /\ matched' = matched \cup {e}
    /\ UNCHANGED <<steady, gone, wpc, at, looks>>

Unmatch(e) ==
    /\ e \in matched
    /\ matched' = matched \ {e}
    /\ steady' = FALSE
    /\ UNCHANGED <<gone, wpc, at, looks>>

Destroy ==
    /\ ~gone
    /\ gone' = TRUE
    /\ UNCHANGED <<matched, steady, wpc, at, looks>>

WaitStep(w) == Look(w) \/ Count(w) \/ Sleep(w)

Next ==
    \/ \E w \in Waits : Wait(w) \/ WaitStep(w)
    \/ \E e \in Endpoints : Match(e) \/ Unmatch(e)
    \/ Destroy

Spec == Init /\ [][Next]_vars

\* The calling threads go on; nobody has to start a server.
Fairness == \A w \in Waits : WF_vars(WaitStep(w))

FairSpec == Spec /\ Fairness

-----------------------------------------------------------------------------
(* Properties                                                               *)

\* A client that finds the other side ready does not lose what it sends next:
\* every direction is matched, although the counts were read one by one, if the
\* server has not gone meanwhile (service_is_ready, server_is_ready).
ReadyMeansMatched ==
    steady => \A w \in Waits : wpc[w] = "ready" => matched = Endpoints

\* A call with a limit is under way, or one without although the other side is
\* there and stays.
Overdue(w) ==
    /\ wpc[w] \in {"look", "count", "sleep"}
    /\ w \in Unlimited => matched = Endpoints /\ steady /\ ~gone

\* Such a call returns (wait_for_service, wait_for_server).
WaitsReturn == (\E w \in Waits : Overdue(w)) ~> \A w \in Waits : ~Overdue(w)
=============================================================================
