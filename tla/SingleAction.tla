---------------------------- MODULE SingleAction ----------------------------
(***************************************************************************)
(* What DecisionGate promises its callers: one action at a time.  An action*)
(* is claimed by one request, handed to the game once, and only afterwards *)
(* makes room for the next one.                                            *)
(***************************************************************************)
CONSTANTS Requests, NoReq

VARIABLES owner, fate

vars == <<owner, fate>>

Init == owner = NoReq /\ fate = "none"

Claim(r) ==
  /\ owner = NoReq
  /\ owner' = r /\ fate' = "claimed"

(* The action reaches the game, which carries it out or refuses it.        *)
Attempt ==
  /\ fate = "claimed"
  /\ fate' \in {"played", "failed"}
  /\ owner' = owner

Release ==
  /\ fate \in {"played", "failed"}
  /\ owner' = NoReq /\ fate' = "none"

Next == (\E r \in Requests : Claim(r)) \/ Attempt \/ Release

Spec == Init /\ [][Next]_vars /\ WF_vars(Attempt) /\ WF_vars(Release)
=============================================================================
