---------------------------- MODULE ArrivalOrder ----------------------------
(***************************************************************************)
(* In which order the workers of NodeExecutor begin the callbacks of an    *)
(* exclusive group.  With several workers a later one may come first: the  *)
(* module keeps, beside the state of NodeExecutor, which callbacks were    *)
(* taken off the queue while an earlier one was off it.                    *)
(***************************************************************************)
EXTENDS NodeExecutor

VARIABLE passed  \* <<c, d>>: d was taken while some scan had the earlier c

orderVars == <<vars, passed>>

\* What scans have in hand or hold aside, and what this step takes.
Off == UNION {Holds(w) : w \in Workers}
Taken == {hand'[w] : w \in {v \in Workers : hand[v] = None}} \ {None}

Overtaking ==
    {p \in Off \X Taken :
        p[1] < p[2] /\ SameExclusiveGroup(p[1], p[2]) /\ p[1] \notin Started}

OrderInit == Init /\ passed = {}
OrderNext == Next /\ passed' = passed \cup Overtaking
OrderSpec == OrderInit /\ [][OrderNext]_orderVars

\* A callback is overtaken by a later one of its exclusive group only if that
\* was taken off the queue while a scan had the earlier one: in hand, or aside
\* since the group was busy.  What a scan gives back comes before everything
\* that was behind it (code: Node._pop_callback, which restores to the front).
OvertakenAside ==
    \A c, d \in Arrived :
        c < d /\ SameExclusiveGroup(c, d) /\ d \in Started
            => c \in Started \cup dropped \/ <<c, d>> \in passed

\* Why: as long as neither the earlier one was taken nor the pair is in passed,
\* the later one stands behind it in the queue.
Behind(c, d) ==
    \A i, j \in 1..Len(queue) : queue[i] = c /\ queue[j] = d => i < j
OrderInv ==
    \A c, d \in Arrived :
        c < d /\ SameExclusiveGroup(c, d)
        /\ c \notin Started \cup dropped /\ <<c, d>> \notin passed
            => d \notin Off /\ d \notin finished /\ Behind(c, d)
=============================================================================
