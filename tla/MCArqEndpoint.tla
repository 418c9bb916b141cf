---------------------------- MODULE MCArqEndpoint ----------------------------
(***************************************************************************)
(* ArqEndpoint with the constants of the .cfg files.  Every instance       *)
(* starts just below the wrap, so that numbers on both sides of it meet in *)
(* the windows, the buffers and the packets.                               *)
(***************************************************************************)
EXTENDS ArqEndpoint

=============================================================================
