--------------------------- MODULE SessionLifecycle ---------------------------
(***************************************************************************)
(* What one endpoint of a session promises the layer above it, without     *)
(* packets, timers or a peer: attempts to open follow one another, each    *)
(* ends with one verdict, and the events surfaced (SessionEvent, states.py)*)
(* tell which phase the session is in.  Nothing is surfaced by a session   *)
(* that is down.                                                           *)
(***************************************************************************)

VARIABLES
    phase,  \* "down", "opening", "up" or "closing"
    event   \* the event surfaced last, "none" before the first

vars == <<phase, event>>

Init == phase = "down" /\ event = "none"

(* An attempt starts silently, and either comes up or fails.               *)
Open == phase = "down" /\ phase' = "opening" /\ UNCHANGED event

ComeUp == phase = "opening" /\ phase' = "up" /\ event' = "ESTABLISHED"

FailToOpen ==
    phase = "opening" /\ phase' = "down" /\ event' \in {"CONNECT_FAILED", "TIMED_OUT"}

(* A session that is up is closed from here, closed by the peer, or dies.  *)
Close == phase = "up" /\ phase' = "closing" /\ UNCHANGED event

PeerClose == phase = "up" /\ phase' = "closing" /\ event' = "PEER_CLOSED"

Die == phase = "up" /\ phase' = "down" /\ event' = "TIMED_OUT"

(* Closing ends, by agreement or because the peer has gone silent.         *)
FinishClosing ==
    phase = "closing" /\ phase' = "down" /\ event' \in {"CLOSED", "TIMED_OUT"}

Next ==
    Open \/ ComeUp \/ FailToOpen \/ Close \/ PeerClose \/ Die \/ FinishClosing

Spec == Init /\ [][Next]_vars
=============================================================================
