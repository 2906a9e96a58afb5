----------------------------- MODULE MCActions -----------------------------
(* Instances of Actions for TLC: the goals g1 and g2 of one client.  The    *)
(* program may cancel the future that waits for g2 to be accepted.          *)
EXTENDS Actions

CONSTANTS g1, g2,
          MaxFaults \* bound: ends destroyed and replies lost in a behaviour

OneGoalFuture == {<<"goal", g2>>}

Faults == One(gone) + One(down) + Cardinality(lost)
FewFaults == Init /\ [][Next /\ Faults' =< MaxFaults]_vars /\ Fairness
=============================================================================
