---------------------------- MODULE MCMobileApp ----------------------------
(* As many messages as run_peer's defaults from one side, fewer from the other. *)
EXTENDS MobileApp

MCMessages == [p \in Peers |-> IF p = Initiator THEN 1 ELSE 2]
=============================================================================
