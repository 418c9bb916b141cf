-------------------------- MODULE MobileAppProofs --------------------------
(***************************************************************************)
(* Proofs about MobileApp: for any number of messages of either peer and   *)
(* any number of permission requests, one drive at a time, and verdicts    *)
(* that the two peers can agree on.                                        *)
(*                                                                         *)
(* The verdicts speak of what the peers have when they are through.  What  *)
(* links the two is the FIN of the initiator: without it no session leaves *)
(* ESTABLISHED but by a timer, and it is sent only on leaving the chat.    *)
(***************************************************************************)
EXTENDS MobileApp, FiniteSetTheorems, TLAPS

Closing == "FIN" \in drive[Initiator].said

\* What drive d has behind it, if the initiator has sent a FIN or has not.
Course(d, closing) ==
  /\ d.stage \in {"idle", "handshake"} => ~d.result.established
  /\ d.stage = "chat" => d.result.established
  /\ d.result.established /\ ~d.expired /\ d.session # "ESTABLISHED" => closing
  /\ d.result.closed => d.stage = "over" /\ (d.expired \/ ~d.result.established \/ closing)

\* The initiator d has left the chat, early or with everything.
Left(d) ==
  /\ d.stage \in {"close", "over"}
  /\ d.gave_up \/ (d.result.messages_match /\ d.got = Messages[Responder])

DriveInv ==
  /\ DOMAIN drive = Peers /\ DrivesTyped
  /\ \A p \in Peers : Course(drive[p], Closing)
  /\ "FIN" \in drive[Responder].said => Closing
  /\ Closing => Left(drive[Initiator])
  /\ RefusedOnlyAfterGiveUp

\* What a step of p may make of its drive.
Move(p, d) ==
  /\ d \in Drive(p) /\ d.got <= drive[Other(p)].sent /\ drive[p].sent <= d.sent
  /\ Course(d, Closing \/ (p = Initiator /\ "FIN" \in d.said))
  /\ "FIN" \in drive[p].said => "FIN" \in d.said
  /\ "FIN" \in d.said => IF p = Initiator THEN Left(d) ELSE Closing
  /\ drive[p].gave_up => d.gave_up
  /\ d.outcome = "refused" => d.expired \/ drive[Other(p)].gave_up

LEMMA OtherPeer ==
  ASSUME NEW p \in Peers
  PROVE  /\ Other(p) \in Peers /\ Other(p) # p /\ Other(Other(p)) = p /\ Peers = {p, Other(p)}
         /\ (p = Initiator <=> Other(p) = Responder) /\ Initiator # Responder
  BY PeerAssumption DEF Peers, Other

\* A move keeps the invariant.
LEMMA MoveKeeps ==
  ASSUME DriveInv, NEW p \in Peers, NEW d, Move(p, d), Become(p, d)
  PROVE  DriveInv'
<1> USE OtherPeer
<1>1. drive'[p] = d /\ drive'[Other(p)] = drive[Other(p)] /\ DOMAIN drive' = Peers
  BY DEF Become, DriveInv
<1>2. Closing => Closing'
  BY <1>1 DEF Closing, Move, Peers, Other
<1>3. Closing' <=> Closing \/ (p = Initiator /\ "FIN" \in d.said)
  BY <1>1, <1>2 DEF Closing, Peers, Other
<1>4. DrivesTyped'
  <2>1. d \in Drive(p) /\ d.got <= drive'[Other(p)].sent
    BY <1>1 DEF Move
  <2>2. drive[Other(p)] \in Drive(Other(p)) /\ drive[Other(p)].got <= drive[p].sent
    BY DEF DriveInv, DrivesTyped
  <2>3. drive[p].sent \in Nat /\ d.sent \in Nat /\ drive[Other(p)].got \in Nat
    BY PeerAssumption DEF DriveInv, DrivesTyped, Drive, Move
  <2>4. drive'[Other(p)].got <= drive'[p].sent
    BY <1>1, <2>2, <2>3 DEF Move
  <2> QED
    BY <1>1, <2>1, <2>2, <2>4 DEF DrivesTyped, Drive
<1>5. \A q \in Peers : Course(drive'[q], Closing')
  <2>1. Course(drive'[p], Closing')
    BY <1>1, <1>3 DEF Move
  <2>2. Course(drive'[Other(p)], Closing')
    BY <1>1, <1>2 DEF DriveInv, Course
  <2> QED
    BY <2>1, <2>2
<1>6. "FIN" \in drive'[Responder].said => Closing'
  BY <1>1, <1>2, <1>3 DEF DriveInv, Move, Peers, Other
<1>7. Closing' => Left(drive'[Initiator])
  BY <1>1, <1>3 DEF DriveInv, Move, Closing, Peers, Other
<1>8. \A q \in Peers : drive'[q].outcome = "refused" => drive'[q].expired \/ drive'[Other(q)].gave_up
  <2>1. drive'[p].outcome = "refused" => drive'[p].expired \/ drive'[Other(p)].gave_up
    BY <1>1 DEF Move
  <2>2. drive'[Other(p)].outcome = "refused" => drive'[Other(p)].expired \/ drive'[p].gave_up
    BY <1>1 DEF DriveInv, RefusedOnlyAfterGiveUp, Move
  <2> QED
    BY <2>1, <2>2
<1>9. QED
  <2>1. (\A q \in Peers : Course(drive[q], Closing))'
    BY <1>5
  <2>2. RefusedOnlyAfterGiveUp'
    BY <1>8 DEF RefusedOnlyAfterGiveUp
  <2> QED
    BY <1>1, <1>4, <1>6, <1>7, <2>1, <2>2 DEF DriveInv

----------------------------------------------------------------------------
(* Each step of a drive is a move.  d is what it makes of drive[p].        *)

\* What the invariant says of drive[p], for the lemmas below.
LEMMA Now ==
  ASSUME DriveInv, NEW p \in Peers
  PROVE  /\ drive[p] \in Drive(p) /\ drive[p].got <= drive[Other(p)].sent
         /\ Course(drive[p], Closing)
         /\ "FIN" \in drive[p].said => IF p = Initiator THEN Left(drive[p]) ELSE Closing
         /\ "FIN" \in drive[p].said => Closing
         /\ drive[p].outcome = "refused" => drive[p].expired \/ drive[Other(p)].gave_up
         /\ drive[p].sent \in Nat /\ drive[p].got \in Nat /\ drive[Other(p)].sent \in Nat
         /\ Messages[p] \in Nat /\ Messages[Other(p)] \in Nat
  BY OtherPeer, PeerAssumption DEF DriveInv, DrivesTyped, RefusedOnlyAfterGiveUp, Closing, Drive, Peers

\* run_peer ends, by raising or returning.
LEMMA EndedMoves ==
  ASSUME DriveInv, NEW p \in Peers, NEW how \in {"returned", "refused", "cancelled"}, NEW late \in BOOLEAN,
         how = "refused" => drive[p].expired \/ drive[Other(p)].gave_up
  PROVE  Move(p, Ended([drive[p] EXCEPT !.timed_out = late], how))
<1> DEFINE d == Ended([drive[p] EXCEPT !.timed_out = late], how)
<1>1. drive[p] \in Drive(p)
  BY Now
<1>2. d \in Drive(p)
  BY <1>1 DEF Drive, Ended, Stages
<1>3. d.stage = "over" /\ d.outcome = how /\ d.got = drive[p].got /\ d.sent = drive[p].sent
      /\ d.said = drive[p].said /\ d.result = drive[p].result /\ d.gave_up = drive[p].gave_up
      /\ d.expired = drive[p].expired /\ d.session = drive[p].session
  BY <1>1 DEF Drive, Ended
<1>4. Move(p, d)
  <2> HIDE DEF d
  <2> QED
    BY <1>2, <1>3, Now DEF Move, Course, Left
<1> QED
  BY <1>4

LEMMA UnwindMoves ==
  ASSUME DriveInv, NEW p \in Peers, Unwind(p)
  PROVE  \E d : Move(p, d) /\ Become(p, d)
<1>1. drive[p].timed_out \in BOOLEAN /\ [drive[p] EXCEPT !.timed_out = drive[p].timed_out] = drive[p]
  BY Now DEF Drive
<1>2. Move(p, Ended(drive[p], "cancelled"))
  BY <1>1, EndedMoves
<1> QED
  BY <1>2 DEF Unwind

LEMMA ConnectMoves ==
  ASSUME DriveInv, NEW p \in Peers, ConnectAndWait(p)
  PROVE  \E d : Move(p, d) /\ Become(p, d)
<1>1. drive[p] \in Drive(p) /\ drive[p].stage = "idle"
  BY Now DEF ConnectAndWait
<1>2. CASE p = Initiator /\ Become(p, [drive[p] EXCEPT !.stage = "handshake", !.session = "SYN_SENT", !.said = {"SYN"}])
  <2> DEFINE d == [drive[p] EXCEPT !.stage = "handshake", !.session = "SYN_SENT", !.said = {"SYN"}]
  <2>1. d \in Drive(p)
    BY <1>1 DEF Drive, Stages, SessionStates, ControlPackets
  <2>2. d.stage = "handshake" /\ d.said = {"SYN"} /\ d.got = drive[p].got /\ d.sent = drive[p].sent
        /\ d.result = drive[p].result /\ d.gave_up = drive[p].gave_up /\ d.outcome = drive[p].outcome
        /\ d.expired = drive[p].expired
    BY <1>1 DEF Drive
  <2>3. Move(p, d)
    <3> HIDE DEF d
    <3> QED
      BY <1>1, <1>2, <2>1, <2>2, Now DEF Move, Course, Left
  <2> QED
    BY <1>2, <2>3
<1>3. CASE p = Responder /\ Become(p, [drive[p] EXCEPT !.stage = "handshake"])
  <2> DEFINE d == [drive[p] EXCEPT !.stage = "handshake"]
  <2>1. d \in Drive(p)
    BY <1>1 DEF Drive, Stages
  <2>2. d.stage = "handshake" /\ d.said = drive[p].said /\ d.got = drive[p].got /\ d.sent = drive[p].sent
        /\ d.result = drive[p].result /\ d.gave_up = drive[p].gave_up /\ d.outcome = drive[p].outcome
        /\ d.expired = drive[p].expired /\ d.session = drive[p].session
    BY <1>1 DEF Drive
  <2>3. Move(p, d)
    <3> HIDE DEF d
    <3> QED
      BY <1>1, <1>3, <2>1, <2>2, Now, OtherPeer DEF Move, Course, Left
  <2> QED
    BY <1>3, <2>3
<1> QED
  BY <1>2, <1>3, UnwindMoves DEF ConnectAndWait

\* A pump begins or the loop goes on.
LEMMA PumpingMoves ==
  ASSUME DriveInv, NEW p \in Peers, NEW b \in BOOLEAN
  PROVE  Move(p, [drive[p] EXCEPT !.pumping = b])
<1> DEFINE d == [drive[p] EXCEPT !.pumping = b]
<1>1. drive[p] \in Drive(p)
  BY Now
<1>2. d \in Drive(p)
  BY <1>1 DEF Drive
<1>3. d.got = drive[p].got /\ d.sent = drive[p].sent /\ d.said = drive[p].said /\ d.gave_up = drive[p].gave_up
      /\ d.expired = drive[p].expired /\ d.outcome = drive[p].outcome /\ d.stage = drive[p].stage
      /\ d.result = drive[p].result /\ d.session = drive[p].session
  BY <1>1 DEF Drive
<1>4. Move(p, d)
  <2> HIDE DEF d
  <2> QED
    BY <1>2, <1>3, Now DEF Move, Course, Left
<1> QED
  BY <1>4

LEMMA RoundMoves ==
  ASSUME DriveInv, NEW p \in Peers, RoundBegins(p)
  PROVE  \E d : Move(p, d) /\ Become(p, d)
  BY PumpingMoves DEF RoundBegins

\* A refused message: the session was established and is not, so a timer has ended it
\* or the initiator has sent its FIN, and then without what is still to be sent.
LEMMA SendsMoves ==
  ASSUME DriveInv, NEW p \in Peers, RoundSends(p)
  PROVE  \E d : Move(p, d) /\ Become(p, d)
<1>1. drive[p] \in Drive(p) /\ drive[p].stage = "chat" /\ drive[p].sent < Messages[p]
  BY Now DEF RoundSends, MoreToSend
<1>2. CASE drive[p].session # "ESTABLISHED" /\ Become(p, Ended(drive[p], "refused"))
  <2>1. Closing \/ drive[p].expired
    BY <1>1, <1>2, Now DEF Course
  <2>2. Closing => Left(drive[Initiator])
    BY DEF DriveInv
  <2>3. Left(drive[p]) => FALSE
    BY <1>1 DEF Left
  <2>4. Closing => drive[Other(p)].gave_up
    <3>1. SUFFICES ASSUME Closing PROVE drive[Other(p)].gave_up
      OBVIOUS
    <3>2. p = Responder /\ Other(p) = Initiator
      BY <3>1, <2>2, <2>3, OtherPeer DEF Peers, Other
    <3>3. drive[Other(p)].got <= drive[p].sent /\ drive[Other(p)].got \in Nat
      BY <3>2, OtherPeer, Now
    <3>4. drive[Other(p)].got # Messages[Responder]
      BY <1>1, <3>2, <3>3, Now
    <3> QED
      BY <2>2, <3>1, <3>2, <3>4 DEF Left
  <2>5. drive[p].timed_out \in BOOLEAN /\ [drive[p] EXCEPT !.timed_out = drive[p].timed_out] = drive[p]
    BY <1>1 DEF Drive
  <2>6. Move(p, Ended(drive[p], "refused"))
    BY <2>1, <2>4, <2>5, EndedMoves
  <2> QED
    BY <1>2, <2>6
<1>3. CASE Become(p, [drive[p] EXCEPT !.sent = @ + 1, !.pumping = TRUE])
  <2> DEFINE d == [drive[p] EXCEPT !.sent = @ + 1, !.pumping = TRUE]
  <2>1. drive[p].sent \in Nat /\ Messages[p] \in Nat /\ drive[p].sent + 1 \in 0..Messages[p]
    BY <1>1, Now
  <2>2. d \in Drive(p)
    BY <1>1, <2>1 DEF Drive
  <2>3. d.got = drive[p].got /\ d.sent = drive[p].sent + 1 /\ d.said = drive[p].said /\ d.gave_up = drive[p].gave_up
        /\ d.expired = drive[p].expired /\ d.outcome = drive[p].outcome /\ d.stage = drive[p].stage
        /\ d.result = drive[p].result /\ d.session = drive[p].session
    BY <1>1 DEF Drive
  <2>4. Move(p, d)
    <3> HIDE DEF d
    <3> QED
      BY <2>1, <2>2, <2>3, Now DEF Move, Course, Left
  <2> QED
    BY <1>3, <2>4
<1> QED
  BY <1>2, <1>3, UnwindMoves DEF RoundSends

\* Hearing a packet.  ESTABLISHED is left, and a FIN sent, only for a FIN of the other
\* peer, and that goes back to the one the initiator sent first.
LEMMA ReactionFacts ==
  ASSUME NEW p \in Peers, NEW s \in SessionStates, NEW k \in ControlPackets, NEW acked \in BOOLEAN
  PROVE  LET r == Reaction(p, s, k, acked)
         IN  /\ r[1] \in SessionStates /\ r[2] \in SUBSET ControlPackets
             /\ "FIN" \in r[2] => k = "FIN"
             /\ s = "ESTABLISHED" /\ r[1] # "ESTABLISHED" => k = "FIN"
  BY DEF Reaction, SessionStates, ControlPackets

LEMMA HearMoves ==
  ASSUME DriveInv, NEW p \in Peers, Hear(p)
  PROVE  \E d : Move(p, d) /\ Become(p, d)
<1>1. PICK k \in drive[Other(p)].said, acked \in BOOLEAN :
        LET r == Reaction(p, drive[p].session, k, acked)
        IN  Become(p, [drive[p] EXCEPT !.session = r[1], !.said = @ \cup r[2]])
  BY DEF Hear
<1> DEFINE r == Reaction(p, drive[p].session, k, acked)
           d == [drive[p] EXCEPT !.session = r[1], !.said = @ \cup r[2]]
<1>2. drive[p] \in Drive(p) /\ drive[Other(p)] \in Drive(Other(p))
  BY Now, OtherPeer
<1>3. k \in ControlPackets /\ drive[p].session \in SessionStates
  BY <1>2 DEF Drive
<1>4. /\ r[1] \in SessionStates /\ r[2] \in SUBSET ControlPackets
      /\ "FIN" \in r[2] => k = "FIN"
      /\ drive[p].session = "ESTABLISHED" /\ r[1] # "ESTABLISHED" => k = "FIN"
  BY <1>3, ReactionFacts
<1>5. k = "FIN" => Closing
  BY Now, OtherPeer
<1>6. Closing /\ p = Initiator => Left(drive[p])
  BY DEF DriveInv
<1>7. d \in Drive(p) /\ d.session = r[1] /\ d.said = drive[p].said \cup r[2]
  <2> HIDE DEF r
  <2> QED
    BY <1>2, <1>4 DEF Drive
<1>8. d.got = drive[p].got /\ d.sent = drive[p].sent /\ d.gave_up = drive[p].gave_up
      /\ d.expired = drive[p].expired /\ d.outcome = drive[p].outcome /\ d.stage = drive[p].stage
      /\ d.result = drive[p].result
  BY <1>2 DEF Drive
<1>9. Move(p, d)
  <2> HIDE DEF d, r
  <2>1. Course(d, Closing)
    BY <1>4, <1>5, <1>7, <1>8, Now DEF Course
  <2>2. "FIN" \in d.said => IF p = Initiator THEN Left(d) ELSE Closing
    BY <1>4, <1>5, <1>6, <1>7, <1>8, Now DEF Left
  <2> QED
    BY <1>7, <1>8, <2>1, <2>2, Now DEF Move, Course
<1> QED
  BY <1>1, <1>9

LEMMA ReceiveMoves ==
  ASSUME DriveInv, NEW p \in Peers, Receive(p)
  PROVE  \E d : Move(p, d) /\ Become(p, d)
<1> DEFINE d == [drive[p] EXCEPT !.got = @ + 1]
<1>1. drive[p] \in Drive(p) /\ drive[Other(p)] \in Drive(Other(p)) /\ drive[p].got < drive[Other(p)].sent
      /\ drive[p].got \in Nat /\ drive[Other(p)].sent \in Nat /\ Messages[Other(p)] \in Nat
  BY Now, OtherPeer DEF Receive
<1>2. drive[Other(p)].sent \in 0..Messages[Other(p)]
  BY <1>1 DEF Drive
<1>3. drive[p].got + 1 \in 0..Messages[Other(p)] /\ drive[p].got + 1 <= drive[Other(p)].sent
  BY <1>1, <1>2
<1>4. d \in Drive(p)
  BY <1>1, <1>3 DEF Drive
<1>5. d.got = drive[p].got + 1 /\ d.sent = drive[p].sent /\ d.said = drive[p].said /\ d.gave_up = drive[p].gave_up
      /\ d.expired = drive[p].expired /\ d.outcome = drive[p].outcome /\ d.stage = drive[p].stage
      /\ d.result = drive[p].result /\ d.session = drive[p].session
  BY <1>1 DEF Drive
<1>6. p = Initiator /\ Left(drive[p]) => Left(d)
  <2>1. p = Initiator => drive[p].got # Messages[Responder]
    BY <1>1, <1>2, OtherPeer DEF Peers, Other
  <2> HIDE DEF d
  <2> QED
    BY <1>5, <2>1 DEF Left
<1>7. Move(p, d)
  <2> HIDE DEF d
  <2> QED
    BY <1>3, <1>4, <1>5, <1>6, Now DEF Move, Course
<1> QED
  BY <1>7 DEF Receive

LEMMA ExpireMoves ==
  ASSUME DriveInv, NEW p \in Peers, Expire(p)
  PROVE  \E d : Move(p, d) /\ Become(p, d)
<1> DEFINE d == [drive[p] EXCEPT !.session = "CLOSED", !.expired = TRUE]
<1>1. drive[p] \in Drive(p)
  BY Now
<1>2. d \in Drive(p)
  BY <1>1 DEF Drive, SessionStates
<1>3. d.got = drive[p].got /\ d.sent = drive[p].sent /\ d.said = drive[p].said /\ d.gave_up = drive[p].gave_up
      /\ d.expired /\ d.outcome = drive[p].outcome /\ d.stage = drive[p].stage
      /\ d.result = drive[p].result
  BY <1>1 DEF Drive
<1>4. Move(p, d)
  <2> HIDE DEF d
  <2> QED
    BY <1>2, <1>3, Now DEF Move, Course, Left
<1> QED
  BY <1>4 DEF Expire

\* The chat is left with d, which is drive[p] but that it may have been given up.
LEMMA LeaveMoves ==
  ASSUME DriveInv, NEW p \in Peers, drive[p].stage = "chat", NEW early \in BOOLEAN, NEW late \in BOOLEAN,
         early \/ ExchangeDone(p), drive[p].gave_up => early,
         LeaveChat(p, [drive[p] EXCEPT !.timed_out = late, !.gave_up = early])
  PROVE  \E d : Move(p, d) /\ Become(p, d)
<1> DEFINE c == [drive[p] EXCEPT !.timed_out = late, !.gave_up = early]
           left == [c EXCEPT !.pumping = FALSE, !.stage = "close",
                             !.result.messages_match = (c.got = Messages[Other(p)])]
           ended == Ended(left, "cancelled")
           fin == [left EXCEPT !.session = "FIN_WAIT", !.said = @ \cup {"FIN"}]
<1>1. drive[p] \in Drive(p)
  BY Now
<1>2. c \in Drive(p) /\ c.got = drive[p].got /\ c.sent = drive[p].sent /\ c.said = drive[p].said
      /\ c.gave_up = early /\ c.expired = drive[p].expired /\ c.outcome = drive[p].outcome
      /\ c.result = drive[p].result /\ c.session = drive[p].session
  BY <1>1 DEF Drive
<1>3. left \in Drive(p) /\ left.got = c.got /\ left.sent = c.sent /\ left.said = c.said
      /\ left.gave_up = c.gave_up /\ left.expired = c.expired /\ left.outcome = c.outcome /\ left.stage = "close"
      /\ left.result.established = c.result.established /\ left.result.closed = c.result.closed
      /\ left.result.messages_match = (c.got = Messages[Other(p)]) /\ left.session = c.session
  <2> HIDE DEF c
  <2> QED
    BY <1>2 DEF Drive, Stages, PeerResult
<1>4. ended \in Drive(p) /\ ended.got = left.got /\ ended.sent = left.sent /\ ended.said = left.said
      /\ ended.gave_up = left.gave_up /\ ended.expired = left.expired /\ ended.outcome = "cancelled"
      /\ ended.stage = "over" /\ ended.result = left.result /\ ended.session = left.session
  <2> HIDE DEF left
  <2> QED
    BY <1>3 DEF Drive, Stages, Ended
<1>5. fin \in Drive(p) /\ fin.got = left.got /\ fin.sent = left.sent /\ fin.said = left.said \cup {"FIN"}
      /\ fin.gave_up = left.gave_up /\ fin.expired = left.expired /\ fin.outcome = left.outcome
      /\ fin.stage = "close" /\ fin.result = left.result /\ fin.session = "FIN_WAIT"
  <2> HIDE DEF left
  <2> QED
    BY <1>3 DEF Drive, SessionStates, ControlPackets
<1>6. early \/ drive[p].got = Messages[Other(p)]
  <2>1. drive[p].got \in 0..Messages[Other(p)] /\ Messages[Other(p)] \in Nat
    BY <1>1, Now DEF Drive
  <2> QED
    BY <2>1 DEF ExchangeDone
<1> HIDE DEF c, left, ended, fin
<1>7. "FIN" \in drive[p].said => p # Initiator /\ Closing
  BY Now DEF Left
<1>8. Move(p, left)
  BY <1>2, <1>3, <1>7, Now DEF Move, Course
<1>9. Move(p, ended)
  BY <1>2, <1>3, <1>4, <1>7, Now DEF Move, Course
<1>10. p = Initiator => Move(p, fin)
  <2>1. p = Initiator => Left(fin)
    <3>1. fin.gave_up \/ (fin.got = Messages[Other(p)] /\ fin.result.messages_match)
      BY <1>2, <1>3, <1>5, <1>6
    <3>2. p = Initiator => Other(p) = Responder
      BY OtherPeer
    <3> QED
      BY <1>5, <3>1, <3>2 DEF Left
  <2> QED
    BY <1>2, <1>3, <1>5, <2>1, Now DEF Move, Course
<1>11. Become(p, left) \/ Become(p, ended) \/ (p = Initiator /\ Become(p, fin))
  BY DEF LeaveChat, Closes, c, left, ended, fin
<1> QED
  BY <1>8, <1>9, <1>10, <1>11

LEMMA PumpedMoves ==
  ASSUME DriveInv, NEW p \in Peers, PumpReturns(p)
  PROVE  \E d : Move(p, d) /\ Become(p, d)
<1>1. drive[p] \in Drive(p)
  BY Now
<1>2. CASE LoopGoesOn(p)
  BY <1>2, PumpingMoves DEF LoopGoesOn
<1>3. CASE /\ drive[p].stage = "handshake" /\ drive[p].session = "ESTABLISHED"
           /\ Become(p, [drive[p] EXCEPT !.pumping = FALSE, !.stage = "chat", !.result.established = TRUE])
  <2> DEFINE d == [drive[p] EXCEPT !.pumping = FALSE, !.stage = "chat", !.result.established = TRUE]
  <2>1. d \in Drive(p)
    BY <1>1 DEF Drive, Stages, PeerResult
  <2>2. d.got = drive[p].got /\ d.sent = drive[p].sent /\ d.said = drive[p].said /\ d.gave_up = drive[p].gave_up
        /\ d.expired = drive[p].expired /\ d.outcome = drive[p].outcome /\ d.stage = "chat"
        /\ d.result.established /\ d.result.closed = drive[p].result.closed /\ d.session = drive[p].session
    BY <1>1 DEF Drive, PeerResult
  <2>3. Move(p, d)
    <3> HIDE DEF d
    <3> QED
      BY <1>3, <2>1, <2>2, Now DEF Move, Course, Left
  <2> QED
    BY <1>3, <2>3
<1>4. CASE drive[p].stage = "chat" /\ ExchangeDone(p) /\ LeaveChat(p, drive[p])
  <2>1. /\ drive[p].gave_up \in BOOLEAN /\ drive[p].timed_out \in BOOLEAN
        /\ [drive[p] EXCEPT !.timed_out = drive[p].timed_out, !.gave_up = drive[p].gave_up] = drive[p]
    BY <1>1 DEF Drive
  <2> QED
    BY <1>4, <2>1, LeaveMoves
<1>5. CASE /\ drive[p].stage = "close" /\ drive[p].session = "CLOSED"
           /\ Become(p, Ended([drive[p] EXCEPT !.result.closed = TRUE], "returned"))
  <2> DEFINE d == Ended([drive[p] EXCEPT !.result.closed = TRUE], "returned")
  <2>1. d \in Drive(p)
    BY <1>1 DEF Drive, Stages, PeerResult, Ended
  <2>2. d.got = drive[p].got /\ d.sent = drive[p].sent /\ d.said = drive[p].said /\ d.gave_up = drive[p].gave_up
        /\ d.expired = drive[p].expired /\ d.outcome = "returned" /\ d.stage = "over" /\ d.session = "CLOSED"
        /\ d.result.established = drive[p].result.established
        /\ d.result.messages_match = drive[p].result.messages_match
    BY <1>1, <1>5 DEF Drive, PeerResult, Ended
  <2>3. Move(p, d)
    <3> HIDE DEF d
    <3> QED
      BY <1>5, <2>1, <2>2, Now DEF Move, Course, Left
  <2> QED
    BY <1>5, <2>3
<1> QED
  BY <1>2, <1>3, <1>4, <1>5 DEF PumpReturns, HandshakePumped, ChatPumped, ClosePumped

LEMMA GiveUpMoves ==
  ASSUME DriveInv, NEW p \in Peers, GiveUp(p)
  PROVE  \E d : Move(p, d) /\ Become(p, d)
<1>1. drive[p] \in Drive(p) /\ drive[p].timed_out \in BOOLEAN
  BY Now DEF Drive
<1>2. PICK late \in {drive[p].timed_out, TRUE} :
        LET d == [drive[p] EXCEPT !.timed_out = late]
        IN  IF d.stage = "chat" THEN LeaveChat(p, [d EXCEPT !.gave_up = TRUE])
            ELSE Become(p, Ended(d, "returned"))
  BY DEF GiveUp
<1>3. late \in BOOLEAN /\ [drive[p] EXCEPT !.timed_out = late].stage = drive[p].stage
  BY <1>1 DEF Drive
<1>4. CASE drive[p].stage = "chat"
  <2>1. LeaveChat(p, [drive[p] EXCEPT !.timed_out = late, !.gave_up = TRUE])
    BY <1>2, <1>3, <1>4
  <2> QED
    BY <1>3, <1>4, <2>1, LeaveMoves
<1>5. CASE drive[p].stage # "chat"
  <2>1. Become(p, Ended([drive[p] EXCEPT !.timed_out = late], "returned"))
    BY <1>2, <1>3, <1>5
  <2> QED
    BY <1>3, <2>1, EndedMoves
<1> QED
  BY <1>4, <1>5

LEMMA StepMoves ==
  ASSUME DriveInv, NEW p \in Peers, Step(p)
  PROVE  DriveInv'
<1>1. \E d : Move(p, d) /\ Become(p, d)
  BY ConnectMoves, RoundMoves, SendsMoves, HearMoves, ReceiveMoves, ExpireMoves, UnwindMoves, PumpedMoves,
     GiveUpMoves DEF Step, PumpRaises
<1> QED
  BY <1>1, MoveKeeps

----------------------------------------------------------------------------
(* The callbacks scheduled, counted.                                       *)

Places(s, c) == {i \in DOMAIN s : s[i] = c}

LEMMA PlacesFinite ==
  ASSUME NEW s \in Seq(Callbacks), NEW c
  PROVE  IsFiniteSet(Places(s, c)) /\ Cardinality(Places(s, c)) \in Nat
<1>1. IsFiniteSet(1..Len(s))
  BY FS_Interval
<1>2. Places(s, c) \subseteq 1..Len(s)
  BY DEF Places
<1> QED
  BY <1>1, <1>2, FS_Subset, FS_CardinalityType

LEMMA PlacesAppend ==
  ASSUME NEW s \in Seq(Callbacks), NEW c \in Callbacks, NEW d \in Callbacks
  PROVE  Cardinality(Places(Append(s, d), c)) = Cardinality(Places(s, c)) + IF c = d THEN 1 ELSE 0
<1>1. IsFiniteSet(Places(s, c)) /\ Cardinality(Places(s, c)) \in Nat
  BY PlacesFinite
<1>2. CASE c = d
  <2>1. Places(Append(s, d), c) = Places(s, c) \cup {Len(s) + 1} /\ Len(s) + 1 \notin Places(s, c)
    BY <1>2 DEF Places
  <2> QED
    BY <1>1, <1>2, <2>1, FS_AddElement
<1>3. CASE c # d
  <2>1. Places(Append(s, d), c) = Places(s, c)
    BY <1>3 DEF Places
  <2> QED
    BY <1>1, <1>3, <2>1
<1> QED
  BY <1>2, <1>3

LEMMA PlacesTail ==
  ASSUME NEW s \in Seq(Callbacks), s # <<>>, NEW c \in Callbacks
  PROVE  Cardinality(Places(Tail(s), c)) = Cardinality(Places(s, c)) - IF Head(s) = c THEN 1 ELSE 0
<1> DEFINE S == Places(Tail(s), c)
           T == Places(s, c) \ {1}
           f == [i \in S |-> i + 1]
<1>1. IsFiniteSet(Places(s, c)) /\ Cardinality(Places(s, c)) \in Nat
  BY PlacesFinite
<1>2. Tail(s) \in Seq(Callbacks) /\ Len(Tail(s)) = Len(s) - 1 /\ \A i \in 1..Len(s) - 1 : Tail(s)[i] = s[i + 1]
  BY DEF Callbacks
<1>3. S = {i \in 1..Len(s) - 1 : s[i + 1] = c} /\ T = {i \in 2..Len(s) : s[i] = c}
  BY <1>2 DEF Places
<1>4. f \in Bijection(S, T)
  <2>1. \A i \in S : i + 1 \in T
    BY <1>3
  <2>2. \A i, j \in S : i + 1 = j + 1 => i = j
    BY <1>3
  <2>3. \A k \in T : k - 1 \in S /\ (k - 1) + 1 = k
    BY <1>3
  <2>4. \A k \in T : \E i \in S : f[i] = k
    BY <2>3
  <2> HIDE DEF S, T
  <2> QED
    BY <2>1, <2>2, <2>4 DEF Bijection, Injection, Surjection, IsInjective
<1>5. IsFiniteSet(S)
  BY <1>2, PlacesFinite
<1>6. Cardinality(S) = Cardinality(T)
  <2> HIDE DEF S, T, f
  <2> QED
    BY <1>4, <1>5, FS_Bijection DEF ExistsBijection
<1> HIDE DEF f
<1>7. CASE Head(s) = c
  <2>1. 1 \in Places(s, c)
    BY <1>7 DEF Places
  <2>2. Cardinality(T) = Cardinality(Places(s, c)) - 1
    BY <1>1, <2>1, FS_RemoveElement
  <2>3. Cardinality(S) = Cardinality(Places(s, c)) - 1
    BY <1>6, <2>2
  <2> QED
    BY <1>7, <2>3
<1>8. CASE Head(s) # c
  <2>1. T = Places(s, c)
    BY <1>8 DEF Places
  <2>2. Cardinality(S) = Cardinality(Places(s, c))
    BY <1>6, <2>1
  <2> QED
    BY <1>1, <1>8, <2>2
<1> QED
  BY <1>7, <1>8

----------------------------------------------------------------------------
(* The application.                                                        *)

IInv == TypeOK /\ DriveInv /\ OneDrive

LEMMA QueuedFacts ==
  /\ \A c \in Callbacks : Queued(c) = Cardinality(Places(ui, c))
  /\ ui \in Seq(Callbacks) => Queued("launch") \in Nat /\ Queued("teardown") \in Nat
  BY PlacesFinite DEF Queued, Places, Callbacks

\* What Append and Tail of ui do to the count of teardowns.
LEMMA QueuedNext ==
  ASSUME ui \in Seq(Callbacks)
  PROVE  /\ \A d \in Callbacks :
              ui' = Append(ui, d) => ui' \in Seq(Callbacks)
                /\ Queued("teardown")' = Queued("teardown") + IF d = "teardown" THEN 1 ELSE 0
         /\ ui # <<>> /\ ui' = Tail(ui) => ui' \in Seq(Callbacks)
              /\ Queued("teardown")' = Queued("teardown") - IF Head(ui) = "teardown" THEN 1 ELSE 0
         /\ ui' = ui => Queued("teardown")' = Queued("teardown")
<1>1. "teardown" \in Callbacks
  BY DEF Callbacks
<1>2. Queued("teardown") = Cardinality(Places(ui, "teardown"))
      /\ Queued("teardown")' = Cardinality(Places(ui', "teardown"))
  BY DEF Queued, Places
<1>3. \A d \in Callbacks :
        ui' = Append(ui, d) => ui' \in Seq(Callbacks)
          /\ Queued("teardown")' = Queued("teardown") + IF d = "teardown" THEN 1 ELSE 0
  <2> SUFFICES ASSUME NEW d \in Callbacks, ui' = Append(ui, d)
               PROVE  ui' \in Seq(Callbacks)
                        /\ Queued("teardown")' = Queued("teardown") + IF d = "teardown" THEN 1 ELSE 0
    OBVIOUS
  <2>1. ui' \in Seq(Callbacks)
    OBVIOUS
  <2>2. Cardinality(Places(ui', "teardown")) = Cardinality(Places(ui, "teardown")) + IF "teardown" = d THEN 1 ELSE 0
    BY <1>1, PlacesAppend
  <2> QED
    BY <1>2, <2>1, <2>2
<1>4. ui # <<>> /\ ui' = Tail(ui) => ui' \in Seq(Callbacks)
        /\ Queued("teardown")' = Queued("teardown") - IF Head(ui) = "teardown" THEN 1 ELSE 0
  <2> SUFFICES ASSUME ui # <<>>, ui' = Tail(ui)
               PROVE  ui' \in Seq(Callbacks)
                        /\ Queued("teardown")' = Queued("teardown") - IF Head(ui) = "teardown" THEN 1 ELSE 0
    OBVIOUS
  <2>1. ui' \in Seq(Callbacks)
    OBVIOUS
  <2>2. Cardinality(Places(ui', "teardown")) = Cardinality(Places(ui, "teardown")) - IF Head(ui) = "teardown" THEN 1 ELSE 0
    BY <1>1, PlacesTail
  <2> QED
    BY <1>2, <2>1, <2>2
<1> QED
  BY <1>2, <1>3, <1>4

\* A new pair of drives has nothing behind it.
LEMMA NewDrives ==
  drive = [p \in Peers |-> NewDrive] => DriveInv
<1> SUFFICES ASSUME drive = [p \in Peers |-> NewDrive] PROVE DriveInv
  OBVIOUS
<1>1. \A p \in Peers : drive[p] = NewDrive
  OBVIOUS
<1>2. Initiator \in Peers /\ Responder \in Peers
  BY DEF Peers
<1>3. \A p \in Peers : NewDrive \in Drive(p)
  BY OtherPeer, PeerAssumption DEF NewDrive, Drive, Stages, SessionStates, PeerResult
<1>4. DrivesTyped
  BY <1>1, <1>3, OtherPeer DEF DrivesTyped, NewDrive
<1>5. \A p \in Peers : Course(drive[p], Closing)
  BY <1>1 DEF NewDrive, Course
<1>6. ~Closing /\ "FIN" \notin drive[Responder].said /\ RefusedOnlyAfterGiveUp
  BY <1>1, <1>2 DEF NewDrive, Closing, RefusedOnlyAfterGiveUp
<1> QED
  BY <1>4, <1>5, <1>6 DEF DriveInv

LEMMA InitHolds == AppInit => IInv
<1> SUFFICES ASSUME AppInit PROVE IInv
  OBVIOUS
<1>1. DriveInv
  BY NewDrives DEF AppInit, Init
<1>2. ui = <<>> /\ ui \in Seq(Callbacks)
  BY DEF AppInit
<1>3. Queued("teardown") = 0
  BY <1>2, FS_EmptySet DEF Queued
<1>4. TypeOK
  <2>1. DrivesTyped /\ phone \in Peers /\ granted \in BOOLEAN
    BY <1>1 DEF AppInit, DriveInv
  <2>2. running = FALSE /\ held = FALSE /\ requests = 0 /\ workers = 0 /\ MaxRequests \in Nat
    BY RequestAssumption DEF AppInit
  <2>3. requests \in 0..MaxRequests /\ workers \in Nat
    BY <2>2
  <2> QED
    BY <1>2, <2>1, <2>2, <2>3 DEF TypeOK
<1>5. OneDrive
  <2>1. running = FALSE /\ held = FALSE /\ workers = 0
    BY DEF AppInit
  <2>2. workers + Queued("teardown") = 0
    BY <1>3, <2>1
  <2> QED
    BY <2>1, <2>2 DEF OneDrive
<1> QED
  BY <1>1, <1>4, <1>5 DEF IInv

\* The drives are left alone.
LEMMA SameDrives ==
  ASSUME DriveInv, UNCHANGED drive
  PROVE  DriveInv'
  BY DEF DriveInv, DrivesTyped, Drive, Course, Closing, Left, RefusedOnlyAfterGiveUp

\* A launch makes one worker where there was none, nor a teardown to come.
LEMMA LaunchKeeps ==
  ASSUME IInv, LaunchSession, Queued("teardown")' = Queued("teardown")
  PROVE  DriveInv' /\ OneDrive' /\ workers' \in Nat /\ phone' \in Peers /\ running' \in BOOLEAN /\ held' \in BOOLEAN
<1> USE DEF IInv, TypeOK, OneDrive
<1>1. CASE ~running /\ \E role \in Peers : Assemble(role)
  <2>1. (drive = [p \in Peers |-> NewDrive] => DriveInv)'
    BY NewDrives, PTL
  <2>2. DriveInv'
    BY <1>1, <2>1 DEF Assemble
  <2> QED
    BY <1>1, <2>2, QueuedFacts DEF Assemble
<1>2. CASE NoCamera
  BY <1>2, SameDrives DEF NoCamera
<1> QED
  BY <1>1, <1>2 DEF LaunchSession

LEMMA StartKeeps ==
  ASSUME IInv, OnStartPressed
  PROVE  IInv'
<1> USE DEF IInv, TypeOK
<1>1. ui' = ui /\ Queued("teardown")' = Queued("teardown") /\ Queued("launch") \in Nat
  BY QueuedNext, QueuedFacts DEF OnStartPressed
<1>2. CASE LaunchSession /\ granted' \in BOOLEAN /\ UNCHANGED requests
  BY <1>1, <1>2, LaunchKeeps DEF DriveInv
<1>3. CASE /\ requests + Queued("launch") < MaxRequests /\ requests' = requests + 1
           /\ UNCHANGED <<granted, phone, running, held, workers, drive>>
  <2>1. requests' \in 0..MaxRequests
    BY <1>1, <1>3, RequestAssumption
  <2>2. DriveInv'
    BY <1>3, SameDrives
  <2>3. OneDrive'
    BY <1>1, <1>3 DEF OneDrive
  <2> QED
    BY <1>1, <1>3, <2>1, <2>2, <2>3 DEF DriveInv
<1> QED
  BY <1>2, <1>3 DEF OnStartPressed, EnsurePermission

LEMMA AnsweredKeeps ==
  ASSUME IInv, PermissionAnswered
  PROVE  IInv'
<1> USE DEF IInv, TypeOK
<1>1. requests' \in 0..MaxRequests
  BY RequestAssumption DEF PermissionAnswered
<1>2. ui' \in Seq(Callbacks) /\ Queued("teardown")' = Queued("teardown") /\ granted' \in BOOLEAN
  <2>1. CASE granted' = TRUE /\ ui' = Append(ui, "launch")
    <3>1. ui' \in Seq(Callbacks) /\ Queued("teardown")' = Queued("teardown") + 0
      BY <2>1, QueuedNext DEF Callbacks
    <3> QED
      BY <2>1, <3>1, QueuedFacts
  <2>2. CASE UNCHANGED <<granted, ui>>
    BY <2>2, QueuedNext
  <2> QED
    BY <2>1, <2>2 DEF PermissionAnswered
<1>3. DriveInv'
  BY SameDrives DEF PermissionAnswered
<1>4. OneDrive'
  BY <1>2 DEF OneDrive, PermissionAnswered
<1> QED
  BY <1>1, <1>2, <1>3, <1>4 DEF PermissionAnswered, DriveInv

\* Stop only makes the channel raise.
LEMMA StopKeeps ==
  ASSUME IInv, OnStop
  PROVE  IInv'
<1> USE DEF IInv, TypeOK
<1> DEFINE d == [drive[phone] EXCEPT !.cancelled = TRUE]
<1>1. drive[phone] \in Drive(phone)
  BY Now
<1>2. d \in Drive(phone)
  BY <1>1 DEF Drive
<1>3. d.got = drive[phone].got /\ d.sent = drive[phone].sent /\ d.said = drive[phone].said
      /\ d.gave_up = drive[phone].gave_up /\ d.expired = drive[phone].expired
      /\ d.outcome = drive[phone].outcome /\ d.stage = drive[phone].stage
      /\ d.result = drive[phone].result /\ d.session = drive[phone].session
  BY <1>1 DEF Drive
<1>4. Move(phone, d)
  <2> HIDE DEF d
  <2> QED
    BY <1>2, <1>3, Now DEF Move, Course, Left
<1>5. DriveInv'
  BY <1>4, MoveKeeps DEF OnStop
<1>6. ui' = ui /\ Queued("teardown")' = Queued("teardown")
  BY QueuedNext DEF OnStop, appVars
<1> QED
  BY <1>5, <1>6 DEF OnStop, appVars, OneDrive, DriveInv

LEMMA UiLaunchesKeeps ==
  ASSUME IInv, UiLaunches
  PROVE  IInv'
<1> USE DEF IInv, TypeOK
<1>1. ui' \in Seq(Callbacks) /\ Queued("teardown")' = Queued("teardown") - 0
  BY QueuedNext DEF UiLaunches
<1>2. Queued("teardown")' = Queued("teardown")
  BY <1>1, QueuedFacts
<1> QED
  BY <1>1, <1>2, LaunchKeeps DEF UiLaunches, DriveInv

\* A teardown that is scheduled is the only thing left of its run.
LEMMA TeardownKeeps ==
  ASSUME IInv, Teardown
  PROVE  IInv'
<1> USE DEF IInv, TypeOK
<1>1. ui' \in Seq(Callbacks) /\ Queued("teardown")' = Queued("teardown") - 1
  BY QueuedNext DEF Teardown
<1>2. Queued("teardown") \in Nat /\ Queued("teardown")' \in Nat
  <2>1. Queued("teardown")' = Cardinality(Places(ui', "teardown")) /\ Queued("teardown")' \in Nat
    BY <1>1, PlacesFinite DEF Queued, Places
  <2> QED
    BY <1>1, <2>1, QueuedFacts
<1>3. workers + Queued("teardown") = 1
  BY <1>1, <1>2 DEF OneDrive
<1>4. OneDrive'
  <2>1. workers' = workers /\ running' = FALSE /\ held' = FALSE
    BY DEF Teardown
  <2>2. workers' + Queued("teardown")' = 0
    BY <1>1, <1>2, <1>3, <2>1
  <2> QED
    BY <2>1, <2>2 DEF OneDrive
<1>5. DriveInv'
  BY SameDrives DEF Teardown
<1> QED
  BY <1>1, <1>4, <1>5 DEF Teardown, DriveInv

LEMMA RunSessionEndsKeeps ==
  ASSUME IInv, RunSessionEnds
  PROVE  IInv'
<1> USE DEF IInv, TypeOK
<1>1. ui' \in Seq(Callbacks) /\ Queued("teardown")' = Queued("teardown") + 1
  BY QueuedNext DEF RunSessionEnds, Callbacks
<1>2. workers' = workers - 1 /\ workers' \in Nat
  BY DEF RunSessionEnds, WorkerEnds
<1>3. OneDrive'
  BY <1>1, <1>2, QueuedFacts DEF OneDrive, RunSessionEnds
<1>4. DriveInv'
  BY SameDrives DEF RunSessionEnds
<1> QED
  BY <1>1, <1>2, <1>3, <1>4 DEF RunSessionEnds, DriveInv

LEMMA DrivesKeeps ==
  ASSUME IInv, NEW p \in Peers, Drives(p)
  PROVE  IInv'
<1>1. DriveInv'
  BY StepMoves DEF Drives, IInv
<1>2. ui' = ui /\ Queued("teardown")' = Queued("teardown")
  BY QueuedNext DEF Drives, appVars, IInv, TypeOK
<1> QED
  BY <1>1, <1>2 DEF Drives, appVars, IInv, TypeOK, OneDrive, DriveInv

LEMMA NextKeeps ==
  ASSUME IInv, [Next]_vars
  PROVE  IInv'
<1>1. CASE UNCHANGED vars
  <2>1. DriveInv'
    BY <1>1, SameDrives DEF vars, IInv
  <2>2. ui' = ui /\ Queued("teardown")' = Queued("teardown")
    BY <1>1, QueuedNext DEF vars, appVars, IInv, TypeOK
  <2> QED
    BY <1>1, <2>1, <2>2 DEF vars, appVars, IInv, TypeOK, OneDrive, DriveInv
<1> QED
  BY <1>1, StartKeeps, AnsweredKeeps, StopKeeps, UiLaunchesKeeps, TeardownKeeps, RunSessionEndsKeeps,
     DrivesKeeps DEF Next

----------------------------------------------------------------------------

\* The inductive invariant, which the theorems below follow from.
THEOREM InvariantHolds == Spec => []IInv
<1>1. AppInit => IInv
  BY InitHolds
<1>2. IInv /\ [Next]_vars => IInv'
  BY NextKeeps
<1> QED
  BY <1>1, <1>2, PTL DEF Spec

\* Types, and a message is received only after it was sent (peer.py:278-291).
THEOREM TypesHold == Spec => []TypeOK
<1>1. IInv => TypeOK
  BY DEF IInv
<1> QED
  BY <1>1, InvariantHolds, PTL

\* One session at a time, and devices only for it (app.py:455, 483, 565, 640-658).
THEOREM OneDriveAtATime == Spec => []OneDrive
<1>1. IInv => OneDrive
  BY DEF IInv
<1> QED
  BY <1>1, InvariantHolds, PTL

\* A message is refused in the middle of an exchange only by a timer or by a peer that
\* left its loop early (peer.py:281-283).
THEOREM RefusalExplained == Spec => []RefusedOnlyAfterGiveUp
<1>1. IInv => RefusedOnlyAfterGiveUp
  BY DEF IInv, DriveInv
<1> QED
  BY <1>1, InvariantHolds, PTL

\* A responder that passes after a close that was agreed on speaks for both (peer.py:343).
THEOREM PassSpeaksForBoth == Spec => []PassIsShared
<1>1. IInv => PassIsShared
  <2> SUFFICES ASSUME DriveInv, passed(Responder), ~drive[Responder].expired, ~drive[Initiator].gave_up
               PROVE  drive[Initiator].result.messages_match
    BY DEF IInv, PassIsShared
  <2>1. Course(drive[Responder], Closing)
    BY DEF DriveInv, Peers
  <2>2. Closing
    BY <2>1 DEF Course, passed
  <2> QED
    BY <2>2 DEF DriveInv, Left
<1> QED
  BY <1>1, InvariantHolds, PTL
=============================================================================
