--------------------------- MODULE GuardCondition ---------------------------
(***************************************************************************)
(* lwrclpy/guard_condition.py: threads that trigger a guard condition, the *)
(* wrapper it hands to the node, the node that runs or drops it, and       *)
(* destroy().                                                              *)
(***************************************************************************)
EXTENDS Integers

CONSTANTS Triggers,    \* calls of trigger(), each in a thread of its own
          GuardExecutors,   \* threads that run queued callbacks
          GuardDroppable,   \* the node's queue may refuse or evict the wrapper
          Destroyable  \* the program may destroy the guard condition

GuardAssumption ==
    /\ GuardDroppable \in BOOLEAN
    /\ Destroyable \in BOOLEAN

VARIABLES
    gpc,       \* tpc[t]: where the call of trigger() is
    gpending,   \* _pending
    gdestroyed, \* _destroyed
    gqueued,    \* number of wrappers in the node's queue
    gdropping,  \* number dropped, the hook not yet called
    gxpc,       \* xpc[x]: where executor thread x is
    heard,     \* triggers followed by the start of a callback
    lost       \* triggers whose callback the node dropped, that came after
               \* destroy(), or came with no callback left to start

guardVars == <<gpc, gpending, gdestroyed, gqueued, gdropping, gxpc, heard, lost>>

GuardInit ==
    /\ gpc = [t \in Triggers |-> "new"]
    /\ gpending = FALSE
    /\ gdestroyed = FALSE
    /\ gqueued = 0
    /\ gdropping = 0
    /\ gxpc = [x \in GuardExecutors |-> "idle"]
    /\ heard = {}
    /\ lost = {}

Called == {t \in Triggers : gpc[t] # "new"}
Enqueuing == {t \in Triggers : gpc[t] = "enqueue"}
GuardBusy == {x \in GuardExecutors : gxpc[x] # "idle"}

\* A callback is on its way and has not begun.
Coming == Enqueuing # {} \/ gqueued > 0 \/ \E x \in GuardExecutors : gxpc[x] = "check"

-----------------------------------------------------------------------------

\* (faulty: the pending flag is not looked at)
TriggerAlways(t) ==
    /\ gpc[t] = "new"
    /\ gpc' = [gpc EXCEPT ![t] = IF gdestroyed THEN "done" ELSE "enqueue"]
    /\ gpending' = (gpending \/ ~gdestroyed)
    /\ lost' = IF gdestroyed THEN lost \cup {t} ELSE lost
    /\ UNCHANGED <<gdestroyed, gqueued, gdropping, gxpc, heard>>

\* trigger(), its lock section
Trigger(t) ==
    /\ gpc[t] = "new"
    /\ \/ /\ gdestroyed \/ gpending
          /\ gpc' = [gpc EXCEPT ![t] = "done"]
          /\ gpending' = gpending
       \/ /\ ~gdestroyed /\ ~gpending
          /\ gpc' = [gpc EXCEPT ![t] = "enqueue"]
          /\ gpending' = TRUE
    /\ lost' = IF gdestroyed \/ (gpending /\ ~Coming) THEN lost \cup {t} ELSE lost
    /\ UNCHANGED <<gdestroyed, gqueued, gdropping, gxpc, heard>>

EnqueueTrigger(t) ==
    /\ gpc[t] = "enqueue"
    /\ gpc' = [gpc EXCEPT ![t] = "done"]
    /\ gqueued' = gqueued + 1
    /\ UNCHANGED <<gpending, gdestroyed, gdropping, gxpc, heard, lost>>

TakeTrigger(x) ==
    /\ gxpc[x] = "idle" /\ gqueued > 0
    /\ gqueued' = gqueued - 1
    /\ gxpc' = [gxpc EXCEPT ![x] = "check"]
    /\ UNCHANGED <<gpc, gpending, gdestroyed, gdropping, heard, lost>>

\* _run_callback: a destroyed guard's callback is not called.  Every trigger
\* so far is answered by this call.
CheckDestroyed(x) ==
    /\ gxpc[x] = "check"
    /\ gxpc' = [gxpc EXCEPT ![x] = IF gdestroyed THEN "clear" ELSE "calling"]
    /\ heard' = IF gdestroyed THEN heard ELSE heard \cup Called
    /\ UNCHANGED <<gpc, gpending, gdestroyed, gqueued, gdropping, lost>>

TriggerReturns(x) ==
    /\ gxpc[x] = "calling"
    /\ gxpc' = [gxpc EXCEPT ![x] = "clear"]
    /\ UNCHANGED <<gpc, gpending, gdestroyed, gqueued, gdropping, heard, lost>>

\* finally: self._pending = False
ClearTriggered(x) ==
    /\ gxpc[x] = "clear"
    /\ gpending' = FALSE
    /\ gxpc' = [gxpc EXCEPT ![x] = "idle"]
    /\ UNCHANGED <<gpc, gdestroyed, gqueued, gdropping, heard, lost>>

\* The node drops the wrapper, with every trigger it stood for.
DropTrigger ==
    /\ GuardDroppable /\ gqueued > 0
    /\ gqueued' = gqueued - 1
    /\ gdropping' = gdropping + 1
    /\ lost' = lost \cup (Called \ heard)
    /\ UNCHANGED <<gpc, gpending, gdestroyed, gxpc, heard>>

\* _lwrclpy_on_dropped
OnTriggerDropped ==
    /\ gdropping > 0
    /\ gdropping' = gdropping - 1
    /\ gpending' = FALSE
    /\ UNCHANGED <<gpc, gdestroyed, gqueued, gxpc, heard, lost>>

DestroyGuard ==
    /\ Destroyable /\ ~gdestroyed
    /\ gdestroyed' = TRUE
    /\ gpending' = FALSE
    /\ UNCHANGED <<gpc, gqueued, gdropping, gxpc, heard, lost>>

-----------------------------------------------------------------------------

GuardExecutor(x) ==
    TakeTrigger(x) \/ CheckDestroyed(x) \/ TriggerReturns(x) \/ ClearTriggered(x)

GuardNext ==
    \/ \E t \in Triggers : Trigger(t) \/ EnqueueTrigger(t)
    \/ \E x \in GuardExecutors : GuardExecutor(x)
    \/ DropTrigger \/ OnTriggerDropped \/ DestroyGuard

GuardSpec == GuardInit /\ [][GuardNext]_guardVars

\* Threads go on and callbacks return; nobody has to trigger, drop or destroy.
GuardFairness ==
    /\ \A t \in Triggers : WF_guardVars(EnqueueTrigger(t))
    /\ \A x \in GuardExecutors : WF_guardVars(GuardExecutor(x))
    /\ WF_guardVars(OnTriggerDropped)

GuardFairSpec == GuardSpec /\ GuardFairness

-----------------------------------------------------------------------------
(* Properties                                                               *)

\* Every variable stays in its domain.
TriggersTypeOK ==
    /\ gpc \in [Triggers -> {"new", "enqueue", "done"}]
    /\ gpending \in BOOLEAN /\ gdestroyed \in BOOLEAN
    /\ gqueued \in Nat /\ gdropping \in Nat
    /\ gxpc \in [GuardExecutors -> {"idle", "check", "calling", "clear"}]
    /\ heard \subseteq Called
    /\ lost \subseteq Called

\* However many threads trigger at once, the guard has one callback underway,
\* queued, dropped or running, until it is destroyed.
OneUnderway ==
    ~gdestroyed =>
        /\ gqueued + gdropping <= 1
        /\ gqueued + gdropping = 1 => GuardBusy = {} /\ Enqueuing = {}
        /\ GuardBusy # {} => Enqueuing = {}
        /\ \A x, y \in GuardBusy : x = y
        /\ \A s, t \in Enqueuing : s = t

\* A trigger that finds the guard idle, or its callback not yet begun, is
\* answered: a callback begins after it, unless the node drops that callback or
\* the guard is destroyed.  One that comes while the callback runs is not.
Unheard == IF gdestroyed THEN {} ELSE Called \ (heard \cup lost)

EveryTriggerHeard == Unheard # {} ~> Unheard = {}
=============================================================================
