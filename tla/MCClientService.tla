-------------------------- MODULE MCClientService --------------------------
(* Instances of ClientService for TLC: the calls c1..c3 on one client, or   *)
(* c3 on a second client of the same service.                               *)
EXTENDS ClientService, TLC

CONSTANTS c1, c2, c3, k1, k2

TwoClients == [c \in Calls |-> IF c = c3 THEN k2 ELSE k1]
=============================================================================
