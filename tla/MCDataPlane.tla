---------------------------- MODULE MCDataPlane ----------------------------
(* One kind of noise at a time, under sends and openings from either side. *)
EXTENDS DataPlane

Calls(i, r) == [p \in Peers |-> IF p = Initiator THEN i ELSE r]

MCSettings ==
  {[noise |-> {"corrupt"}, sends |-> Calls(1, 1), opens |-> Calls(0, 0)],
   [noise |-> {"loss", "dup"}, sends |-> Calls(2, 0), opens |-> Calls(0, 0)],
   [noise |-> {"degrade"}, sends |-> Calls(1, 0), opens |-> Calls(0, 0)],
   [noise |-> {"reorder"}, sends |-> Calls(1, 0), opens |-> Calls(0, 0)],
   [noise |-> {}, sends |-> Calls(1, 1), opens |-> Calls(1, 1)]}
=============================================================================
