------------------------------ MODULE Spinning ------------------------------
(***************************************************************************)
(* The spin functions of lwrclpy/executors.py around one node: spin,       *)
(* spin_once, spin_some and spin_until_future_complete, each call with a   *)
(* throwaway executor of its own or with one executor they share, and that *)
(* executor's own spin_some().  Several calls run at once: they add the    *)
(* node to their executors, compete for the node's one wake event, take    *)
(* callbacks off its queue and give all of it back.  One of the callbacks  *)
(* completes the future somebody spins for.  Groups and several workers    *)
(* are in module NodeExecutor, tasks in ExecutorTasks.                     *)
(***************************************************************************)
EXTENDS Naturals, Sequences

CONSTANTS Calls,     \* threads that call one of the functions, once each
          Shared,    \* the executor the program made itself
          Jobs,      \* which functions they call, with or without the shared executor
          MaxWork,   \* bound: callbacks handed to the node
          NoEvent    \* the node holds no wake event

Kinds == {"spin", "once", "some", "until", "ready"}

SpinAssumption ==
    /\ Shared \notin Calls /\ NoEvent \notin Calls \cup {Shared}
    /\ Jobs \subseteq [Calls -> [kind : Kinds, shared : BOOLEAN, timed : BOOLEAN]]
    /\ \A j \in Jobs, c \in Calls : /\ j[c].kind = "ready" => j[c].shared
                                    /\ j[c].kind \in {"once", "some"} => ~j[c].shared
    /\ MaxWork \in Nat

VARIABLES
    job,      \* job[c]: which function c calls
    pc,       \* pc[c]: where it is
    added,    \* calls that have to remove the node again
    lists,    \* executors whose _nodes lists the node
    event,    \* Node._executor_wake_event: the executor it belongs to
    seen,     \* calls whose copy of _nodes lists the node
    hand,     \* hand[c]: the callback c has popped
    stopped,  \* executors that were shut down
    work,     \* Node._callback_queue
    offered,  \* callbacks handed over so far
    done,     \* the future is done
    okay      \* ok(): the context is up

execVars == <<lists, event, stopped>>
nodeVars == <<work, offered, done>>
vars == <<job, pc, added, execVars, seen, hand, nodeVars, okay>>

ExecutorOf(c) == IF job[c].shared THEN Shared ELSE c
Is(c, kind) == job[c].kind = kind
CallsOn(x) == {c \in Calls : ExecutorOf(c) = x}

Init ==
    /\ job \in Jobs
    /\ pc = [c \in Calls |-> "start"]
    /\ added = {} /\ lists = {} /\ event = NoEvent
    /\ seen = {} /\ stopped = {}
    /\ hand = [c \in Calls |-> "nothing"]
    /\ work = <<>> /\ offered = 0 /\ done = FALSE
    /\ okay = TRUE

Goto(c, from, to) ==
    /\ pc[c] = from
    /\ pc' = [pc EXCEPT ![c] = to]

-----------------------------------------------------------------------------
(* add_node, with the lock of the executor's _nodes; the node's event is    *)
(* guarded by no lock that two executors share.                             *)

Locked(x) == \E d \in CallsOn(x) : pc[d] \in {"look", "take", "owner", "drop"}

\* if node not in executor.get_nodes(): spin_some() of an executor does not ask
Start(c) ==
    /\ ~Locked(ExecutorOf(c))
    /\ Goto(c, "start", IF Is(c, "ready") THEN "begin"
                        ELSE IF ExecutorOf(c) \in lists THEN "loop" ELSE "add")
    /\ UNCHANGED <<job, added, execVars, seen, hand, nodeVars, okay>>

AddNode(c) ==
    /\ ~Locked(ExecutorOf(c))
    /\ Goto(c, "add", IF ExecutorOf(c) \in lists THEN "loop" ELSE "look")
    /\ added' = added \cup {c}
    /\ lists' = lists \cup {ExecutorOf(c)}
    /\ UNCHANGED <<job, event, stopped, seen, hand, nodeVars, okay>>

\* The event of another executor is left alone ...
LookForEvent(c) ==
    /\ Goto(c, "look", IF event = NoEvent THEN "take" ELSE "loop")
    /\ UNCHANGED <<job, added, execVars, seen, hand, nodeVars, okay>>

\* ... unless it came after the look.
TakeEvent(c) ==
    /\ Goto(c, "take", "loop")
    /\ event' = ExecutorOf(c)
    /\ UNCHANGED <<job, added, lists, stopped, seen, hand, nodeVars, okay>>

-----------------------------------------------------------------------------
(* The loops, _spin_once_impl and _pop_any_callback                         *)

Leaving(c) == ~okay \/ ExecutorOf(c) \in stopped

\* spin: ok() and not stopped; spin_until_future_complete: ok() and not done,
\* stopped or not; spin_some: until its deadline.
Loop(c) ==
    /\ \/ Goto(c, "loop", IF \/ Is(c, "spin") /\ Leaving(c)
                             \/ Is(c, "until") /\ (~okay \/ done)
                          THEN "end" ELSE "begin")
       \/ Is(c, "some") /\ job[c].timed /\ Goto(c, "loop", "end")
    /\ UNCHANGED <<job, added, execVars, seen, hand, nodeVars, okay>>

\* What follows a look that found nothing, and one whose callback was run;
\* the caller's own timeout may have come.
AfterNothing(c) ==
    IF Is(c, "ready") THEN {"over"}
    ELSE IF job[c].kind \in {"once", "some"} THEN {"end"}
    ELSE IF Is(c, "until") /\ job[c].timed THEN {"loop", "end"} ELSE {"loop"}
AfterRun(c) ==
    IF Is(c, "ready") THEN {"scan"}
    ELSE IF Is(c, "once") THEN {"end"}
    ELSE IF Is(c, "until") /\ job[c].timed THEN {"loop", "end"} ELSE {"loop"}

\* A copy of the list of nodes; nothing is popped once the executor stops.
Begin(c) ==
    /\ ~Locked(ExecutorOf(c))
    /\ \E next \in (IF Leaving(c) THEN AfterNothing(c) ELSE {"scan"}) :
          Goto(c, "begin", next)
    /\ seen' = IF ExecutorOf(c) \in lists THEN seen \cup {c} ELSE seen \ {c}
    /\ UNCHANGED <<job, added, execVars, hand, nodeVars, okay>>

PopCallback(c) ==
    /\ c \in seen /\ work # <<>>
    /\ Goto(c, "scan", "run")
    /\ hand' = [hand EXCEPT ![c] = Head(work)]
    /\ work' = Tail(work)
    /\ UNCHANGED <<job, added, execVars, seen, offered, done, okay>>

FindNothing(c) ==
    /\ ~(c \in seen /\ work # <<>>)
    /\ Goto(c, "scan", IF Is(c, "ready") THEN "over" ELSE "rest")
    /\ UNCHANGED <<job, added, execVars, seen, hand, nodeVars, okay>>

\* A callback that raises is reported and counts as run.
RunCallback(c) ==
    /\ \E next \in AfterRun(c) : Goto(c, "run", next)
    /\ hand' = [hand EXCEPT ![c] = "nothing"]
    /\ done' = (done \/ hand[c] = "answer")
    /\ UNCHANGED <<job, added, execVars, seen, work, offered, okay>>

\* Nothing was ready: the wait ends with a wake or after 50 ms at most (module
\* NodeExecutor has the wake).  spin() and spin_until_future_complete() give a
\* look 10 ms and look again, spin_some() without a timeout does not wait at
\* all, spin_once() without one looks until there is a callback.
Rest(c) ==
    /\ \E next \in (IF Leaving(c) \/ job[c].kind \in {"spin", "until"} THEN AfterNothing(c)
                    ELSE IF Is(c, "once") /\ ~job[c].timed THEN {"scan"}
                    ELSE IF job[c].timed THEN {"scan", "end"} ELSE {"end"}) :
          Goto(c, "rest", next)
    /\ UNCHANGED <<job, added, execVars, seen, hand, nodeVars, okay>>

-----------------------------------------------------------------------------
(* finally: remove_node if this call added it, and shutdown of the executor *)
(* if it is a throwaway.                                                    *)

RemoveNode(c) ==
    /\ ~Locked(ExecutorOf(c))
    /\ Goto(c, "end", IF c \in added /\ ExecutorOf(c) \in lists THEN "owner" ELSE "shut")
    /\ lists' = IF c \in added THEN lists \ {ExecutorOf(c)} ELSE lists
    /\ UNCHANGED <<job, added, event, stopped, seen, hand, nodeVars, okay>>

LookAtOwner(c) ==
    /\ Goto(c, "owner", IF event = ExecutorOf(c) THEN "drop" ELSE "shut")
    /\ UNCHANGED <<job, added, execVars, seen, hand, nodeVars, okay>>

DropEvent(c) ==
    /\ Goto(c, "drop", "shut")
    /\ event' = NoEvent
    /\ UNCHANGED <<job, added, lists, stopped, seen, hand, nodeVars, okay>>

\* The throwaway lists no node any more: shutdown() has no event to take away.
ShutDown(c) ==
    /\ Goto(c, "shut", "over")
    /\ stopped' = IF job[c].shared THEN stopped ELSE stopped \cup {c}
    /\ UNCHANGED <<job, added, lists, event, seen, hand, nodeVars, okay>>

CallStep(c) ==
    \/ Start(c) \/ AddNode(c) \/ LookForEvent(c) \/ TakeEvent(c)
    \/ Loop(c) \/ Begin(c) \/ PopCallback(c) \/ FindNothing(c)
    \/ RunCallback(c) \/ Rest(c)
    \/ RemoveNode(c) \/ LookAtOwner(c) \/ DropEvent(c) \/ ShutDown(c)

-----------------------------------------------------------------------------
(* The node's producers, and the end of the context                         *)

Offer ==
    /\ offered < MaxWork
    /\ offered' = offered + 1
    /\ \E i \in {"other", "answer"} : work' = Append(work, i)
    /\ UNCHANGED <<job, pc, added, execVars, seen, hand, done, okay>>

LoseContext ==
    /\ okay
    /\ okay' = FALSE
    /\ UNCHANGED <<job, pc, added, execVars, seen, hand, nodeVars>>

Next == (\E c \in Calls : CallStep(c)) \/ Offer \/ LoseContext

Spec == Init /\ [][Next]_vars

\* Every call is made by a running thread; a wait ends by itself after 50 ms.
FairSpec == Spec /\ \A c \in Calls : WF_vars(CallStep(c))

-----------------------------------------------------------------------------
(* Properties                                                               *)

\* The node never keeps the wake event of an executor that has let it go: only
\* one that lists it, or is just taking it back (add_node, remove_node).
EventOfMember ==
    event # NoEvent => \/ event \in lists
                       \/ \E c \in CallsOn(event) : pc[c] \in {"owner", "drop"}

\* A call of spin_until_future_complete with a throwaway executor is under way
\* although the future is done, the callback that completes it waits or runs, or
\* the context is shut down.
Overdue(c) ==
    /\ Is(c, "until") /\ ~job[c].shared /\ pc[c] # "over"
    /\ \/ done \/ ~okay
       \/ \E i \in 1..Len(work) : work[i] = "answer"
       \/ \E d \in Calls : hand[d] = "answer"

\* A callback waits while somebody spins with a throwaway executor.
CallbackWaits ==
    work # <<>> /\ \E c \in Calls : Is(c, "spin") /\ ~job[c].shared /\ pc[c] # "over"

\* None of this lasts, whoever holds the node's wake event and whoever takes the
\* callbacks (MCExecutorTasks checks it).
SomethingWaits == CallbackWaits \/ \E c \in Calls : Overdue(c)
=============================================================================
