------------------------------- MODULE MCPubSub -------------------------------
(* Subscription and SideChannel side by side, for one run of TLC.  They share  *)
(* no state, so a behaviour is about one of them: `part` says which, and the   *)
(* other stays where it began.                                                 *)
EXTENDS Subscription, SideChannel

CONSTANTS x1, x2, u1

VARIABLE part

\* Payloads of different lengths.
Lengths == [m \in 1..Messages |-> m]

\* Without a callback nothing drains, and the other options are idle.  A
\* rejected sample matters when it is on a loan, so loans come with the filter.
Configurations ==
  {m \in AllModes : m.callback /\ m.filter = m.loan}
    \cup {[callback |-> FALSE, batch |-> FALSE, loan |-> FALSE, filter |-> FALSE]}

PubSubInit ==
  /\ part \in {"subscription", "channel"}
  /\ Init /\ ChannelInit
  /\ part # "subscription" => mode = CHOOSE m \in Modes : TRUE

PubSubNext ==
  /\ UNCHANGED part
  /\ \/ part = "subscription" /\ Next /\ UNCHANGED channelVars
     \/ part = "channel" /\ ChannelNext /\ UNCHANGED vars

\* A subscription that stays where it began has nothing under way, so fairness
\* asks nothing of it.
PubSubSpec == PubSubInit /\ [][PubSubNext]_<<part, vars, channelVars>> /\ Fairness
=============================================================================
