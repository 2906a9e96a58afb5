------------------------------- MODULE Future -------------------------------
(***************************************************************************)
(* lwrclpy/future.py: a Future completed by any of several threads, done   *)
(* callbacks added and removed meanwhile, threads blocked on its event and *)
(* coroutines awaiting it.  The lock covers one action each; what the code *)
(* does between two lock sections is an action of its own.                 *)
(***************************************************************************)
EXTENDS Naturals, FiniteSets

CONSTANTS Setters,    \* threads that call set_result or set_exception
          Cancellers, \* threads that call cancel
          Callbacks,  \* done callbacks, each added by a thread of its own
          Removable,  \* those another thread may try to remove
          Awaiters,   \* coroutines that await the future
          NoOne        \* nobody

Completers == Setters \cup Cancellers
Listeners  == Callbacks \cup Awaiters  \* an awaiter adds its own on_done

ASSUME FutureAssumption ==
    /\ Setters \cap Cancellers = {}
    /\ Callbacks \cap Awaiters = {}
    /\ Removable \subseteq Callbacks
    /\ NoOne \notin Completers

VARIABLES
    winner,   \* the completer whose outcome the future has (_done, _result...)
    event,    \* _event is set
    listed,   \* _callbacks
    cpc,      \* cpc[t]: where completer t is
    batch,    \* batch[t]: callbacks t has taken off the list and not yet run
    lpc,      \* lpc[l]: where the thread of listener l is
    calls,     \* calls[l]: how often callback l has been called
    removed,  \* callbacks remove_done_callback has reported as removed
    notices   \* awaiters whose asyncio event has been set

futureVars == <<winner, event, listed, cpc, batch, lpc, calls, removed, notices>>

Done == winner # NoOne

FutureInit ==
    /\ winner = NoOne
    /\ event = FALSE
    /\ listed = {}
    /\ cpc = [t \in Completers |-> "idle"]
    /\ batch = [t \in Completers |-> {}]
    /\ lpc = [l \in Listeners |-> "idle"]
    /\ calls = [l \in Listeners |-> 0]
    /\ removed = {}
    /\ notices = {}

-----------------------------------------------------------------------------
(* set_result, set_exception, cancel                                        *)

Complete(t) ==
    /\ cpc[t] = "idle"
    /\ winner' = IF Done THEN winner ELSE t
    /\ cpc' = [cpc EXCEPT ![t] = IF Done THEN "lost" ELSE "event"]
    /\ UNCHANGED <<event, listed, batch, lpc, calls, removed, notices>>

SetEvent(t) ==
    /\ cpc[t] = "event"
    /\ event' = TRUE
    /\ cpc' = [cpc EXCEPT ![t] = "take"]
    /\ UNCHANGED <<winner, listed, batch, lpc, calls, removed, notices>>

\* _run_callbacks, its lock section
TakeCallbacks(t) ==
    /\ cpc[t] = "take"
    /\ batch' = [batch EXCEPT ![t] = listed]
    /\ listed' = {}
    /\ cpc' = [cpc EXCEPT ![t] = "run"]
    /\ UNCHANGED <<winner, event, lpc, calls, removed, notices>>

\* cb(self): an awaiter's on_done sets its asyncio event through the loop.
Call(l) ==
    /\ calls' = [calls EXCEPT ![l] = @ + 1]
    /\ notices' = notices \cup ({l} \cap Awaiters)

\* _run_callbacks, its loop
RunNext(t) ==
    /\ cpc[t] = "run"
    /\ \E l \in batch[t] :
          Call(l) /\ batch' = [batch EXCEPT ![t] = @ \ {l}]
    /\ UNCHANGED <<winner, event, listed, cpc, lpc, removed>>

-----------------------------------------------------------------------------
(* add_done_callback, remove_done_callback                                  *)

\* (faulty: listed first and looked at then)
AddThenLook(l) ==
    /\ lpc' = [lpc EXCEPT ![l] = IF Done THEN "now"
                                 ELSE IF l \in Awaiters THEN "recheck" ELSE "added"]
    /\ listed' = listed \cup {l}

Add(l) ==
    IF Done
    THEN lpc' = [lpc EXCEPT ![l] = "now"] /\ UNCHANGED listed
    ELSE /\ lpc' = [lpc EXCEPT ![l] = IF l \in Awaiters THEN "recheck" ELSE "added"]
         /\ listed' = listed \cup {l}

AddCallback(l) ==
    /\ l \in Callbacks /\ lpc[l] = "idle"
    /\ Add(l)
    /\ UNCHANGED <<winner, event, cpc, batch, calls, removed, notices>>

\* The future was done: the adding thread calls the callback itself.
CallNow(l) ==
    /\ lpc[l] = "now"
    /\ Call(l)
    /\ lpc' = [lpc EXCEPT ![l] = IF l \in Awaiters THEN "recheck" ELSE "added"]
    /\ UNCHANGED <<winner, event, listed, cpc, batch, removed>>

\* It returns the number removed: 0 for one that is not on the list (any more).
RemoveCallback(l) ==
    /\ l \in Removable \cap listed
    /\ listed' = listed \ {l}
    /\ removed' = removed \cup {l}
    /\ UNCHANGED <<winner, event, cpc, batch, lpc, calls, notices>>

-----------------------------------------------------------------------------
(* _await_impl: check, add on_done, check again, wait for the asyncio event. *)

AwaitCheck(a) ==
    /\ a \in Awaiters /\ lpc[a] = "idle"
    /\ lpc' = [lpc EXCEPT ![a] = IF Done THEN "recheck" ELSE "add"]
    /\ UNCHANGED <<winner, event, listed, cpc, batch, calls, removed, notices>>

AwaitAdd(a) ==
    /\ a \in Awaiters /\ lpc[a] = "add"
    /\ Add(a)
    /\ UNCHANGED <<winner, event, cpc, batch, calls, removed, notices>>

AwaitRecheck(a) ==
    /\ lpc[a] = "recheck"
    /\ lpc' = [lpc EXCEPT ![a] = IF Done THEN "returned" ELSE "wait"]
    /\ UNCHANGED <<winner, event, listed, cpc, batch, calls, removed, notices>>

AwaitResume(a) ==
    /\ lpc[a] = "wait" /\ a \in notices
    /\ lpc' = [lpc EXCEPT ![a] = "returned"]
    /\ UNCHANGED <<winner, event, listed, cpc, batch, calls, removed, notices>>

-----------------------------------------------------------------------------

Completer(t) == SetEvent(t) \/ TakeCallbacks(t) \/ RunNext(t)
Awaiter(a) == AwaitAdd(a) \/ AwaitRecheck(a) \/ AwaitResume(a)

FutureNext ==
    \/ \E t \in Completers : Complete(t) \/ Completer(t)
    \/ \E l \in Callbacks : AddCallback(l) \/ RemoveCallback(l)
    \/ \E l \in Listeners : CallNow(l)
    \/ \E a \in Awaiters : AwaitCheck(a) \/ Awaiter(a)

FutureSpec == FutureInit /\ [][FutureNext]_futureVars

\* A thread inside a method of the future goes on; nobody has to complete it.
FutureFairness ==
    /\ \A t \in Completers : WF_futureVars(Completer(t))
    /\ \A l \in Listeners : WF_futureVars(CallNow(l))
    /\ \A a \in Awaiters : WF_futureVars(Awaiter(a))

FutureFairSpec == FutureSpec /\ FutureFairness

-----------------------------------------------------------------------------
(* Properties                                                               *)

FutureTypeOK ==
    /\ winner \in Completers \cup {NoOne}
    /\ event \in BOOLEAN
    /\ listed \subseteq Listeners
    /\ cpc \in [Completers -> {"idle", "lost", "event", "take", "run"}]
    /\ batch \in [Completers -> SUBSET Listeners]
    /\ lpc \in [Listeners -> {"idle", "add", "now", "added", "recheck", "wait",
                              "returned"}]
    /\ calls \in [Listeners -> Nat]
    /\ removed \subseteq Removable
    /\ notices \subseteq Awaiters

\* The first completer decides: a later set_result, set_exception or cancel
\* changes neither the outcome nor the callbacks.
FirstOutcomeStays == [][Done => winner' = winner]_futureVars

\* A done callback is called at most once, though the thread that completes the
\* future and the thread that adds the callback race for it; and never once
\* remove_done_callback has reported it as removed.
CalledAtMostOnce ==
    \A l \in Listeners : calls[l] <= IF l \in removed THEN 0 ELSE 1

Entered(l) == lpc[l] \in {"added", "recheck", "wait", "returned"}

\* No callback is called before the outcome and the event are there to be
\* read, other than by a thread that found the future done.
CalledWhenDone ==
    \A l \in Listeners : calls[l] > 0 \/ lpc[l] = "now" => Done

\* Why a callback runs once: until it has run it is in one place only, on the
\* list, in the batch of the one completer that won, or with its adder.
OnePlace ==
    /\ \A t \in Completers : t # winner => batch[t] = {} /\ cpc[t] \in {"idle", "lost"}
    /\ winner # NoOne => cpc[winner] # "idle"
    /\ \A t \in Completers : cpc[t] # "run" => batch[t] = {}
    /\ winner = NoOne => \A l \in Listeners : calls[l] = 0 /\ lpc[l] # "now"
    /\ \A l \in Listeners :
          /\ lpc[l] \in {"idle", "add", "now"}
                => l \notin listed /\ calls[l] = 0 /\ \A t \in Completers : l \notin batch[t]
          /\ l \in listed => calls[l] = 0 /\ \A t \in Completers : l \notin batch[t]
          /\ \A t \in Completers : l \in batch[t] => calls[l] = 0
          /\ calls[l] \in {0, 1}
    /\ \A l \in removed : /\ l \notin listed /\ calls[l] = 0
                          /\ lpc[l] \notin {"idle", "add", "now"}
                          /\ \A t \in Completers : l \notin batch[t]

\* Every callback added and not removed is called once the future is done, and
\* every awaiting coroutine resumes.
Unanswered ==
    {l \in Listeners : /\ Done
                       /\ lpc[l] # "idle"
                       /\ l \in Awaiters => lpc[l] # "returned"
                       /\ l \in Awaiters \/ (calls[l] = 0 /\ l \notin removed)}

EveryListenerHears == Unanswered # {} ~> Unanswered = {}
=============================================================================
