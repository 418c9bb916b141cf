--------------------------- MODULE TransferOutcome ---------------------------
(***************************************************************************)
(* What a file transfer promises its two ends (app/file.py, "Completion    *)
(* handshake"), without frames, chunks or a session: the receiver reaches  *)
(* one verdict, the sender may come to know it, and knows nothing else.    *)
(***************************************************************************)

VARIABLES
    verdict,  \* of the receiver: "open", "complete" or "failed"
    known     \* what the sender takes for the verdict

vars == <<verdict, known>>

Init == verdict = "open" /\ known = "open"

Decide ==
    /\ verdict = "open"
    /\ verdict' \in {"complete", "failed"}
    /\ UNCHANGED known

Learn ==
    /\ known = "open"
    /\ verdict # "open"
    /\ known' = verdict
    /\ UNCHANGED verdict

Next == Decide \/ Learn

Spec == Init /\ [][Next]_vars
=============================================================================
