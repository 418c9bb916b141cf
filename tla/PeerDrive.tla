----------------------------- MODULE PeerDrive -----------------------------
(***************************************************************************)
(* run_peer (src/photontcp/optical/peer.py): two peers drive a session     *)
(* through handshake, chat and close, each on a thread of its own.  The    *)
(* session below is what SessionStateMachine.tla lets a peer see of the    *)
(* other one: a control packet that was once sent may be heard, late or    *)
(* repeated, or never, and any session may end by its timers.  Chat        *)
(* messages arrive in order, each once (ArqEndpoint.tla), or not at all.   *)
(* The round caps and the deadline show as a loop that may be given up     *)
(* before any of its rounds.                                               *)
(***************************************************************************)
EXTENDS Naturals

CONSTANTS
  Initiator, Responder,
  Messages  \* how many messages each peer sends

Peers == {Initiator, Responder}
Other(p) == IF p = Initiator THEN Responder ELSE Initiator

ASSUME PeerAssumption == Initiator # Responder /\ Messages \in [Peers -> Nat]

Stages == {"idle", "handshake", "chat", "close", "over"}
SessionStates == {"CLOSED", "SYN_SENT", "SYN_RCVD", "ESTABLISHED", "FIN_WAIT", "CLOSE_WAIT"}
ControlPackets == {"SYN", "SYN_ACK", "ACK", "FIN", "FIN_ACK"}

VARIABLE drive  \* of each peer: the locals of run_peer, its session, and history

PeerResult == [established : BOOLEAN, messages_match : BOOLEAN, closed : BOOLEAN]

(* pumping: inside chat.pump; said: the control packets sent so far;       *)
(* cancelled: the channel raises from now on; gave_up: left the chat loop  *)
(* early; expired: a timer ended the session; outcome: how run_peer ended. *)
Drive(p) ==
  [stage : Stages, pumping : BOOLEAN, session : SessionStates, said : SUBSET ControlPackets,
   sent : 0..Messages[p], got : 0..Messages[Other(p)], result : PeerResult, timed_out : BOOLEAN,
   cancelled : BOOLEAN, gave_up : BOOLEAN, expired : BOOLEAN,
   outcome : {"none", "returned", "refused", "cancelled"}]

NewDrive ==
  [stage |-> "idle", pumping |-> FALSE, session |-> "CLOSED", said |-> {}, sent |-> 0, got |-> 0,
   result |-> [established |-> FALSE, messages_match |-> FALSE, closed |-> FALSE],
   timed_out |-> FALSE, cancelled |-> FALSE, gave_up |-> FALSE, expired |-> FALSE, outcome |-> "none"]

Init == drive = [p \in Peers |-> NewDrive]

Become(p, d) == drive' = [drive EXCEPT ![p] = d]

\* The drive ends; the channel is closed by finally, and done is emitted only by a return.
Ended(d, how) == [d EXCEPT !.stage = "over", !.pumping = FALSE, !.outcome = how]

----------------------------------------------------------------------------
(* The session, one frame or one timer at a time.                          *)

\* In session state s, hearing packet k: the next state and what is sent.  fin_acked is
\* the flag of that name; _peer_fin_acked of a FIN_WAIT is to have said FIN_ACK.
Reaction(p, s, k, fin_acked) ==
  CASE s = "CLOSED" /\ p = Responder /\ k = "SYN" -> <<"SYN_RCVD", {"SYN_ACK"}>>
    [] s = "SYN_SENT" /\ k = "SYN_ACK" -> <<"ESTABLISHED", {"ACK"}>>
    [] s = "SYN_RCVD" /\ k = "ACK" -> <<"ESTABLISHED", {}>>
    [] s = "ESTABLISHED" /\ k = "FIN" -> <<"CLOSE_WAIT", {"FIN_ACK", "FIN"}>>
    [] s = "FIN_WAIT" /\ k = "FIN" -> <<IF fin_acked THEN "CLOSED" ELSE s, {"FIN_ACK"}>>
    [] s = "FIN_WAIT" /\ k = "FIN_ACK" /\ "FIN_ACK" \in drive[p].said -> <<"CLOSED", {}>>
    [] s = "CLOSE_WAIT" /\ k = "FIN_ACK" -> <<"CLOSED", {}>>
    [] OTHER -> <<s, {}>>

Transports(p) == drive[p].pumping /\ ~drive[p].cancelled

\* A FIN_ACK that was said may have been heard before k, or lost.
Hear(p) ==
  /\ Transports(p)
  /\ \E k \in drive[Other(p)].said, fin_acked \in BOOLEAN :
       /\ fin_acked => "FIN_ACK" \in drive[Other(p)].said
       /\ LET r == Reaction(p, drive[p].session, k, fin_acked)
          IN  Become(p, [drive[p] EXCEPT !.session = r[1], !.said = @ \cup r[2]])

\* DATA is delivered in every session state.
Receive(p) ==
  /\ Transports(p)
  /\ drive[p].got < drive[Other(p)].sent
  /\ Become(p, [drive[p] EXCEPT !.got = @ + 1])

\* An idle timeout, or a control packet retransmitted too often.
Expire(p) ==
  /\ drive[p].pumping
  /\ drive[p].session # "CLOSED"
  /\ Become(p, [drive[p] EXCEPT !.session = "CLOSED", !.expired = TRUE])

----------------------------------------------------------------------------
(* The drive.                                                              *)

\* send_frame and recv_frame raise once the channel has been cancelled.
Unwind(p) == drive[p].cancelled /\ Become(p, Ended(drive[p], "cancelled"))

ConnectAndWait(p) ==
  /\ drive[p].stage = "idle"
  /\ \/ p = Initiator /\ Unwind(p)
     \/ /\ p = Initiator /\ ~drive[p].cancelled
        /\ Become(p, [drive[p] EXCEPT !.stage = "handshake", !.session = "SYN_SENT", !.said = {"SYN"}])
     \/ p = Responder /\ Become(p, [drive[p] EXCEPT !.stage = "handshake"])

Looping(p) == drive[p].stage \in {"handshake", "chat", "close"} /\ ~drive[p].pumping

\* slip: a message every round
MoreToSendForEver(p) == drive[p].stage = "chat"

MoreToSend(p) == drive[p].stage = "chat" /\ drive[p].sent < Messages[p]

RoundBegins(p) ==
  /\ Looping(p) /\ ~drive[p].timed_out
  /\ ~MoreToSend(p)
  /\ Become(p, [drive[p] EXCEPT !.pumping = TRUE])

\* A chat round sends before it pumps; send_on refuses unless ESTABLISHED.
RoundSends(p) ==
  /\ Looping(p) /\ ~drive[p].timed_out
  /\ MoreToSend(p)
  /\ IF drive[p].session # "ESTABLISHED" THEN Become(p, Ended(drive[p], "refused"))
     ELSE \/ Unwind(p)
          \/ /\ ~drive[p].cancelled
             /\ Become(p, [drive[p] EXCEPT !.sent = @ + 1, !.pumping = TRUE])

PumpRaises(p) == drive[p].pumping /\ Unwind(p)

\* slip: either peer closes
ClosesEither(p) == drive[p].session = "ESTABLISHED"

Closes(p) == p = Initiator /\ drive[p].session = "ESTABLISHED"

\* The comparison with the messages expected, and the close of the initiator,
\* whose FIN is sent before anything is looked at again.
LeaveChat(p, d) ==
  LET left == [d EXCEPT !.pumping = FALSE, !.stage = "close",
                        !.result.messages_match = (d.got = Messages[Other(p)])]
  IN  IF ~Closes(p) THEN Become(p, left)
      ELSE IF d.cancelled THEN Become(p, Ended(left, "cancelled"))
      ELSE Become(p, [left EXCEPT !.session = "FIN_WAIT", !.said = @ \cup {"FIN"}])

\* slip: leaves as soon as everything has been sent
ExchangeDoneOnceSent(p) == drive[p].sent = Messages[p]

ExchangeDone(p) == drive[p].sent = Messages[p] /\ drive[p].got >= Messages[Other(p)]

LoopGoesOn(p) == Become(p, [drive[p] EXCEPT !.pumping = FALSE])

HandshakePumped(p) ==
  /\ drive[p].pumping /\ drive[p].stage = "handshake"
  /\ IF drive[p].session = "ESTABLISHED"
     THEN Become(p, [drive[p] EXCEPT !.pumping = FALSE, !.stage = "chat", !.result.established = TRUE])
     ELSE LoopGoesOn(p)

ChatPumped(p) ==
  /\ drive[p].pumping /\ drive[p].stage = "chat"
  /\ IF ExchangeDone(p) THEN LeaveChat(p, drive[p]) ELSE LoopGoesOn(p)

ClosePumped(p) ==
  /\ drive[p].pumping /\ drive[p].stage = "close"
  /\ IF drive[p].session = "CLOSED"
     THEN Become(p, Ended([drive[p] EXCEPT !.result.closed = TRUE], "returned"))
     ELSE LoopGoesOn(p)

PumpReturns(p) == HandshakePumped(p) \/ ChatPumped(p) \/ ClosePumped(p)

\* The round cap or the deadline; a deadline that has passed ends every later loop too.
GiveUp(p) ==
  /\ Looping(p)
  /\ \E late \in {drive[p].timed_out, TRUE} :
       LET d == [drive[p] EXCEPT !.timed_out = late]
       IN  IF d.stage = "chat" THEN LeaveChat(p, [d EXCEPT !.gave_up = TRUE])
           ELSE Become(p, Ended(d, "returned"))

Step(p) ==
  \/ ConnectAndWait(p) \/ RoundBegins(p) \/ RoundSends(p) \/ Hear(p) \/ Receive(p) \/ Expire(p)
  \/ PumpRaises(p) \/ PumpReturns(p) \/ GiveUp(p)

passed(p) ==
  drive[p].result.established /\ drive[p].result.messages_match /\ drive[p].result.closed
----------------------------------------------------------------------------

\* Types; a message is sent once, and received only after it was sent (peer.py:278-291).
DrivesTyped ==
  \A p \in Peers : drive[p] \in Drive(p) /\ drive[p].got <= drive[Other(p)].sent

\* send_message raises in the middle of an exchange (peer.py:281-283) only when a
\* timer has ended this peer's session or the other one left its loop early.
RefusedOnlyAfterGiveUp ==
  \A p \in Peers : drive[p].outcome = "refused" => drive[p].expired \/ drive[Other(p)].gave_up

\* A responder that passes (peer.py:343) after a close that was agreed on speaks for
\* both: the initiator, unless it gave up the exchange, has everything too.
PassIsShared ==
  passed(Responder) /\ ~drive[Responder].expired /\ ~drive[Initiator].gave_up
    => drive[Initiator].result.messages_match
=============================================================================
