------------------------------ MODULE MCSession ------------------------------
(***************************************************************************)
(* SessionStateMachine with the constants of the .cfg files.               *)
(***************************************************************************)
EXTENDS SessionStateMachine

=============================================================================
