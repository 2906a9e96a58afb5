--------------------------- MODULE MCNodeExecutor ---------------------------
(* Instances of ArrivalOrder for TLC.  The timer e1 is in the exclusive      *)
(* group gx, the subscription e3 in the reentrant group gr.                  *)
EXTENDS ArrivalOrder, TLC

CONSTANTS w1, w2, e1, e3, gx, gr

OneTimer  == e1 :> gx
TwoGroups == OneTimer @@ e3 :> gr

\* The threads are interchangeable.
WorkerSymmetry == Permutations(Workers)
=============================================================================
