--------------------------- MODULE ReliableStream ---------------------------
(***************************************************************************)
(* What one direction of a PhotonTCP stream promises, without windows,     *)
(* sequence numbers or packets: there is a log of chunks that only grows,  *)
(* the receiving application is handed a prefix of it, and the sender      *)
(* takes for confirmed no more than the receiver has been handed.          *)
(***************************************************************************)
EXTENDS Naturals, Sequences

CONSTANT Chunk

VARIABLES
    log,        \* chunks in transmission order
    received,   \* chunks handed to the receiving application
    confirmed   \* number of chunks the sender knows to be received

vars == <<log, received, confirmed>>

Init ==
    /\ log = << >>
    /\ received = << >>
    /\ confirmed = 0

Extends(s, t) == Len(s) <= Len(t) /\ \A i \in 1 .. Len(s) : t[i] = s[i]

(* Chunks are appended, possibly together with a confirmation that made    *)
(* room for them.                                                          *)
Write ==
    /\ log' \in Seq(Chunk)
    /\ Extends(log, log')
    /\ confirmed' \in confirmed .. Len(received)
    /\ UNCHANGED received

(* The application is handed the next chunks of the log.                   *)
Read ==
    /\ Extends(received, received')
    /\ Extends(received', log)
    /\ UNCHANGED <<log, confirmed>>

Next == Write \/ Read

Spec == Init /\ [][Next]_vars
=============================================================================
