---------------------------- MODULE SessionProofs ----------------------------
(***************************************************************************)
(* Proofs about SessionStateMachine, for every choice of its intervals,    *)
(* retry limits and bounds.                                                *)
(***************************************************************************)
EXTENDS SessionStateMachine, TLAPS

-----------------------------------------------------------------------------
(* The inductive invariants.                                               *)

Opened == {"ESTABLISHED", "FIN_WAIT", "CLOSE_WAIT"}
CameUp == {"ESTABLISHED", "PEER_CLOSED", "CLOSED"}

(* Only the session id the initiator proposed ever travels.                *)
Frame == [type : ControlTypes, sid : {ProposedId}]

Joined == session_id[Responder] = ProposedId

NeedsId ==
    \/ state[Responder] # "CLOSED"
    \/ pending_ctrl[Responder] # NoPacket
    \/ link[Initiator] # << >>
    \/ state[Initiator] \in Opened
    \/ event[Initiator] \in CameUp

(* Whatever number of times connect is called: the kinds of value of every *)
(* variable, and that everything on the link, and every responder that is  *)
(* not closed, has the initiator's session id.                             *)
BaseInv ==
    /\ TypeOK
    /\ link \in [Peers -> Seq(Frame)]
    /\ session_id[Initiator] = ProposedId
    /\ NeedsId => Joined

(* The types of the frames of an inbox; and that no SYN in it comes after  *)
(* a frame of another type.                                                *)
TypesIn(q) == {q[i].type : i \in 1 .. Len(q)}

SynsFirst(q) ==
    \A i, j \in 1 .. Len(q) : i < j /\ q[j].type = "SYN" => q[i].type = "SYN"

(* In the first session, the initiator's SYNs come before all else it      *)
(* sends, so that a responder which has come up, or has taken part in a    *)
(* close, finds no SYN any more that could open it again.                  *)
OpeningInv ==
    /\ SynsFirst(link[Responder])
    /\ connects = 0 =>
          /\ \A p \in Peers :
                state[p] = "CLOSED" /\ ~ fin_acked[p] /\ ~ peer_fin_acked[p]
          /\ TypesIn(link[Responder]) = {}
          /\ event[Initiator] = "none"
    /\ state[Initiator] # "SYN_RCVD" /\ state[Responder] # "SYN_SENT"
    /\ state[Initiator] = "SYN_SENT" =>
          event[Initiator] = "none" /\ TypesIn(link[Responder]) \subseteq {"SYN"}
    /\ state[Initiator] \in Opened => event[Initiator] \in CameUp
    /\ \/ "ACK" \in TypesIn(link[Responder])
       \/ state[Responder] \in Opened
       \/ event[Responder] \in CameUp
       => event[Initiator] \in CameUp \cup {"TIMED_OUT"}
    /\ \/ state[Responder] \in Opened
       \/ fin_acked[Responder]
       \/ peer_fin_acked[Responder]
       => "SYN" \notin TypesIn(link[Responder]) /\ state[Initiator] # "SYN_SENT"

(* A FIN_ACK, on the link or recorded, comes from a peer that has recorded *)
(* the FIN; and what is recorded belongs to a session that is closing or   *)
(* closed.                                                                 *)
ClosingInv ==
    \A p, q \in Peers :
        p # q =>
        /\ "FIN_ACK" \in TypesIn(link[p]) => peer_fin_acked[q]
        /\ fin_acked[p] => peer_fin_acked[q] /\ state[p] \in {"FIN_WAIT", "CLOSED"}
        /\ peer_fin_acked[p] => state[p] \in {"FIN_WAIT", "CLOSE_WAIT", "CLOSED"}
        /\ state[p] = "CLOSE_WAIT" => peer_fin_acked[p]
        /\ agreed[p] => peer_fin_acked[p] /\ peer_fin_acked[q]

FirstSession == PendingFitsState /\ OpeningInv /\ ClosingInv

IInv == BaseInv /\ (connects <= 1 => FirstSession)
-----------------------------------------------------------------------------
(* The link.                                                               *)

LEMMA PeerFacts ==
    /\ Peers = {Initiator, Responder}
    /\ Initiator # Responder
    /\ Peer(Initiator) = Responder /\ Peer(Responder) = Initiator
    /\ \A p \in Peers : Peer(p) \in Peers /\ Peer(p) # p /\ Peer(Peer(p)) = p
  BY SessionAssumption DEF Peers, Peer

(* new is an inbox that may hold what old held, and frames of the given    *)
(* types after it.                                                         *)
Follows(old, new, types) ==
    /\ new \in Seq(Frame)
    /\ TypesIn(new) \subseteq TypesIn(old) \cup types
    /\ SynsFirst(old) /\ ("SYN" \in types => TypesIn(old) \subseteq {"SYN"})
         => SynsFirst(new)

LEMMA FollowsSelf ==
    ASSUME NEW q \in Seq(Frame)
    PROVE  Follows(q, q, {})
  BY DEF Follows

(* What a receiver finds after a packet was sent to it.                    *)
LEMMA SentFacts ==
    ASSUME NEW queue \in Seq(Frame), NEW type \in ControlTypes,
           NEW q \in Sent(queue, type, ProposedId)
    PROVE  Follows(queue, q, {type})
<1> DEFINE f == [type |-> type, sid |-> ProposedId]
           l == Len(queue)
<1>1. PICK n \in Copies :
        q = SubSeq(queue \o [c \in 1 .. n |-> f], 1, Min({l + n, MaxInFlight}))
  BY DEF Sent
<1> DEFINE new == [c \in 1 .. n |-> f]
           all == queue \o new
           m == Min({l + n, MaxInFlight})
<1>2. n \in Nat /\ l \in Nat /\ MaxInFlight \in Nat /\ f \in Frame
  BY SessionAssumption DEF Frame
<1>3. new \in Seq(Frame) /\ Len(new) = n
  BY <1>2
<1>4. /\ all \in Seq(Frame) /\ Len(all) = l + n
      /\ \A i \in 1 .. l : all[i] = queue[i]
      /\ \A i \in 1 .. l + n : i \notin 1 .. l => all[i] = f
  <2> HIDE DEF f
  <2>1. all \in Seq(Frame) /\ Len(all) = l + n /\ \A i \in 1 .. l : all[i] = queue[i]
    BY <1>2, <1>3
  <2>2. ASSUME NEW i \in 1 .. l + n, i \notin 1 .. l PROVE all[i] = f
    <3>1. i - l \in 1 .. n
      BY <1>2, <2>2
    <3>2. all[i] = new[i - l]
      BY <1>2, <1>3, <2>2
    <3> QED  BY <3>1, <3>2
  <2> QED  BY <2>1, <2>2
<1>5. m \in 0 .. l + n
  <2>1. \E z \in {l + n, MaxInFlight} : \A t \in {l + n, MaxInFlight} : z <= t
    <3>1. CASE l + n <= MaxInFlight  BY <1>2, <3>1
    <3>2. CASE MaxInFlight <= l + n  BY <1>2, <3>2
    <3> QED  BY <1>2, <3>1, <3>2
  <2>2. m \in {l + n, MaxInFlight} /\ m <= l + n
    BY <2>1 DEF Min
  <2> QED  BY <1>2, <2>2
<1> HIDE DEF all, m, new
<1>6. /\ q \in Seq(Frame) /\ Len(q) = m
      /\ \A i \in 1 .. m : q[i] = all[i]
  <2>1. q = SubSeq(all, 1, m)
    BY <1>1 DEF all, m, new
  <2> QED  BY <1>2, <1>4, <1>5, <2>1
<1>7. \A i \in 1 .. Len(q) : IF i \in 1 .. l THEN q[i] = queue[i] ELSE q[i] = f
  BY <1>2, <1>4, <1>5, <1>6
<1>8. f.type = type
  OBVIOUS
<1> HIDE DEF f
<1>9. TypesIn(q) \subseteq TypesIn(queue) \cup {type}
  BY <1>7, <1>8 DEF TypesIn
<1>10. ASSUME SynsFirst(queue), type = "SYN" => TypesIn(queue) \subseteq {"SYN"},
              NEW i \in 1 .. Len(q), NEW j \in 1 .. Len(q), i < j,
              q[j].type = "SYN"
       PROVE  q[i].type = "SYN"
  <2>1. CASE type = "SYN"
    BY <1>9, <1>10, <2>1 DEF TypesIn
  <2>2. CASE type # "SYN"
    <3>1. j \in 1 .. l /\ q[j] = queue[j]
      BY <1>7, <1>8, <1>10, <2>2
    <3>2. i \in 1 .. l /\ q[i] = queue[i]
      BY <1>2, <1>7, <1>10, <3>1
    <3> QED  BY <1>10, <3>1, <3>2 DEF SynsFirst
  <2> QED  BY <2>1, <2>2
<1> QED  BY <1>6, <1>9, <1>10 DEF Follows, SynsFirst

(* The frame taken from an inbox, and what is left.                        *)
LEMMA HeadFacts ==
    ASSUME NEW q \in Seq(Frame), q # << >>
    PROVE  /\ Head(q).type \in TypesIn(q) /\ Head(q).type \in ControlTypes
           /\ Head(q).sid = ProposedId
           /\ Follows(q, Tail(q), {})
           /\ SynsFirst(q) /\ Head(q).type # "SYN" => "SYN" \notin TypesIn(q)
<1> DEFINE t == Tail(q)
<1>1. /\ Len(q) \in Nat /\ 1 \in 1 .. Len(q) /\ Head(q) = q[1] /\ q[1] \in Frame
      /\ t \in Seq(Frame) /\ Len(t) = Len(q) - 1
      /\ \A i \in 1 .. Len(t) : t[i] = q[i + 1]
  OBVIOUS
<1> HIDE DEF t
<1>2. /\ Head(q).type \in TypesIn(q) /\ Head(q).type \in ControlTypes
      /\ Head(q).sid = ProposedId
  BY <1>1 DEF TypesIn, Frame
<1>3. \A i \in 1 .. Len(t) : i + 1 \in 1 .. Len(q) /\ t[i] = q[i + 1]
  BY <1>1
<1>4. TypesIn(t) \subseteq TypesIn(q)
  BY <1>3 DEF TypesIn
<1>5. SynsFirst(q) => SynsFirst(t)
  <2>1. ASSUME SynsFirst(q), NEW i \in 1 .. Len(t), NEW j \in 1 .. Len(t), i < j,
               t[j].type = "SYN"
        PROVE  t[i].type = "SYN"
    <3>1. i + 1 < j + 1
      BY <2>1
    <3> QED  BY <1>3, <2>1, <3>1 DEF SynsFirst
  <2> QED  BY <2>1 DEF SynsFirst
<1>6. ASSUME SynsFirst(q), "SYN" \in TypesIn(q) PROVE Head(q).type = "SYN"
  <2>1. PICK j \in 1 .. Len(q) : q[j].type = "SYN"
    BY <1>6 DEF TypesIn
  <2>2. CASE j = 1  BY <1>1, <2>1, <2>2
  <2>3. CASE 1 < j
    BY <1>1, <1>6, <2>1, <2>3 DEF SynsFirst
  <2> QED  BY <1>1, <2>1, <2>2, <2>3
<1> QED  BY <1>1, <1>2, <1>4, <1>5, <1>6 DEF Follows, t

(* The inboxes after p sent packets of the given types, and after p took a *)
(* frame from its own.                                                     *)
Sends(p, types) ==
    /\ link' \in [Peers -> Seq(Frame)]
    /\ link'[p] = link[p]
    /\ Follows(link[Peer(p)], link'[Peer(p)], types)

Takes(p, types) ==
    /\ link' \in [Peers -> Seq(Frame)]
    /\ Follows(link[p], link'[p], {})
    /\ Follows(link[Peer(p)], link'[Peer(p)], types)

LEMMA TransmitFacts ==
    ASSUME link \in [Peers -> Seq(Frame)], NEW p \in Peers,
           NEW type \in ControlTypes, session_id[p] = ProposedId, Transmit(p, type)
    PROVE  Sends(p, {type})
<1>1. PICK q \in Sent(link[Peer(p)], type, ProposedId) :
        link' = [link EXCEPT ![Peer(p)] = q]
  BY DEF Transmit
<1>2. Peer(p) \in Peers /\ Peer(p) # p
  BY PeerFacts
<1>3. Follows(link[Peer(p)], q, {type})
  BY <1>2, SentFacts
<1>4. q \in Seq(Frame)
  BY <1>3 DEF Follows
<1> QED  BY <1>1, <1>2, <1>3, <1>4 DEF Sends

LEMMA AnswerFacts ==
    ASSUME link \in [Peers -> Seq(Frame)], NEW p \in Peers, link[p] # << >>,
           NEW type \in ControlTypes, Answer(p, type)
    PROVE  Takes(p, {type})
<1>1. PICK q \in Sent(link[Peer(p)], type, Head(link[p]).sid) :
        link' = [link EXCEPT ![p] = Tail(@), ![Peer(p)] = q]
  BY DEF Answer
<1>2. Peer(p) \in Peers /\ Peer(p) # p
  BY PeerFacts
<1>3. Head(link[p]).sid = ProposedId /\ Follows(link[p], Tail(link[p]), {})
  BY HeadFacts
<1>4. Follows(link[Peer(p)], q, {type})
  BY <1>1, <1>2, <1>3, SentFacts
<1>5. q \in Seq(Frame) /\ Tail(link[p]) \in Seq(Frame)
  BY <1>3, <1>4 DEF Follows
<1> QED  BY <1>1, <1>2, <1>3, <1>4, <1>5 DEF Takes

LEMMA AnswerBothFacts ==
    ASSUME link \in [Peers -> Seq(Frame)], NEW p \in Peers, link[p] # << >>,
           NEW a \in ControlTypes \ {"SYN"}, NEW b \in ControlTypes \ {"SYN"},
           AnswerBoth(p, a, b)
    PROVE  Takes(p, {a, b})
<1>1. PICK f \in Sent(link[Peer(p)], a, Head(link[p]).sid) :
        \E q \in Sent(f, b, Head(link[p]).sid) :
            link' = [link EXCEPT ![p] = Tail(@), ![Peer(p)] = q]
  BY DEF AnswerBoth
<1>2. PICK q \in Sent(f, b, Head(link[p]).sid) :
        link' = [link EXCEPT ![p] = Tail(@), ![Peer(p)] = q]
  BY <1>1
<1>3. Peer(p) \in Peers /\ Peer(p) # p
  BY PeerFacts
<1>4. Head(link[p]).sid = ProposedId /\ Follows(link[p], Tail(link[p]), {})
  BY HeadFacts
<1>5. Follows(link[Peer(p)], f, {a})
  BY <1>1, <1>3, <1>4, SentFacts
<1>6. Follows(f, q, {b})
  BY <1>2, <1>4, <1>5, SentFacts DEF Follows
<1>7. Follows(link[Peer(p)], q, {a, b})
  BY <1>5, <1>6 DEF Follows
<1>8. q \in Seq(Frame) /\ Tail(link[p]) \in Seq(Frame)
  BY <1>4, <1>7 DEF Follows
<1> QED  BY <1>2, <1>3, <1>4, <1>7, <1>8 DEF Takes

LEMMA ConsumeFacts ==
    ASSUME link \in [Peers -> Seq(Frame)], NEW p \in Peers, link[p] # << >>,
           Consume(p)
    PROVE  Takes(p, {}) /\ link'[Peer(p)] = link[Peer(p)]
<1>1. Peer(p) \in Peers /\ Peer(p) # p
  BY PeerFacts
<1>2. Follows(link[p], Tail(link[p]), {}) /\ Tail(link[p]) \in Seq(Frame)
  BY HeadFacts DEF Follows
<1> QED  BY <1>1, <1>2, FollowsSelf DEF Takes, Consume

-----------------------------------------------------------------------------
(* Types and session ids.                                                  *)

(* TypeOK without the link.                                                *)
Typed ==
    /\ state \in [Peers -> States]
    /\ session_id \in [Peers -> {ProposedId, PlaceholderId}]
    /\ fin_acked \in [Peers -> BOOLEAN]
    /\ peer_fin_acked \in [Peers -> BOOLEAN]
    /\ pending_ctrl \in [Peers -> ControlTypes \cup {NoPacket}]
    /\ ctrl_age \in [Peers -> 0 .. ControlRto]
    /\ ctrl_retries \in [Peers -> 0 .. MaxControlRetries + 1]
    /\ recv_age \in [Peers -> {Unset} \cup 0 .. IdleTimeout]
    /\ send_age \in [Peers -> {Unset} \cup 0 .. HeartbeatInterval]
    /\ event \in [Peers -> Events \cup {"none"}]
    /\ agreed \in [Peers -> BOOLEAN]
    /\ connects \in 0 .. MaxConnects
    /\ dataFrames \in [Peers -> 0 .. MaxDataFrames]

LEMMA TypedIsTypeOK ==
    link \in [Peers -> Seq(Frame)] => (Typed <=> TypeOK)
<1> SUFFICES ASSUME link \in [Peers -> Seq(Frame)] PROVE Typed <=> TypeOK
  OBVIOUS
<1>1. ASSUME NEW q \in Seq(Frame)
      PROVE  q \in Seq([type : ControlTypes, sid : {ProposedId, PlaceholderId}])
  <2> DEFINE W == [type : ControlTypes, sid : {ProposedId, PlaceholderId}]
  <2>1. Frame \subseteq W
    BY DEF Frame
  <2>2. Len(q) \in Nat /\ \A i \in 1 .. Len(q) : q[i] \in W
    BY <2>1
  <2>3. q = [i \in 1 .. Len(q) |-> q[i]]
    OBVIOUS
  <2> HIDE DEF W
  <2>4. q \in Seq(W)
    BY <2>2, <2>3
  <2> QED  BY <2>4 DEF W
<1>2. link \in [Peers -> Seq([type : ControlTypes, sid : {ProposedId, PlaceholderId}])]
  BY <1>1
<1> QED  BY <1>2 DEF Typed, TypeOK

LEMMA TypedIsTypeOKNext == (link \in [Peers -> Seq(Frame)] => (Typed <=> TypeOK))'
  BY TypedIsTypeOK, PTL

LEMMA Bounds ==
    /\ HeartbeatInterval \in Nat /\ HeartbeatInterval >= 1
    /\ IdleTimeout \in Nat /\ IdleTimeout >= 1
    /\ ControlRto \in Nat /\ ControlRto >= 1
    /\ MaxControlRetries \in Nat /\ MaxConnects \in Nat /\ MaxDataFrames \in Nat
    /\ NoPacket \notin ControlTypes
    /\ 0 \in 0 .. ControlRto /\ 0 \in 0 .. MaxControlRetries + 1
    /\ 0 \in 0 .. IdleTimeout /\ 0 \in 0 .. HeartbeatInterval
  BY SessionAssumption DEF NoPacket, ControlTypes

LEMMA OnSynTyped ==
    ASSUME Typed, link \in [Peers -> Seq(Frame)], NEW p \in Peers, OnSyn(p)
    PROVE  Typed'
<1>1. Head(link[p]).sid = ProposedId
  BY HeadFacts DEF OnSyn
<1> QED  BY <1>1, Bounds DEF Typed, OnSyn, RecvNow, Move, ArmPending, SendNow, States, ControlTypes, boundVars

LEMMA OnPacketTyped ==
    ASSUME Typed, link \in [Peers -> Seq(Frame)], NEW p \in Peers, OnPacket(p)
    PROVE  Typed'
<1> USE Bounds DEF RecvNow, Move, ArmPending, ClearPending, SendNow, Surface, States, ControlTypes, Events, boundVars, Accepts, FinishClose, machineVars, pendingVars
<1>1. CASE OnSynAck(p)
  BY <1>1 DEF Typed, OnSynAck
<1>2. CASE OnHandshakeAck(p)
  BY <1>2 DEF Typed, OnHandshakeAck
<1>3. CASE OnRepeatedSynAck(p)
  BY <1>3 DEF Typed, OnRepeatedSynAck
<1>4. CASE OnFin(p)
  BY <1>4 DEF Typed, OnFin
<1>5. CASE OnFinAckInFinWait(p)
  BY <1>5 DEF Typed, OnFinAckInFinWait
<1>6. CASE OnFinInFinWait(p)
  BY <1>6 DEF Typed, OnFinInFinWait
<1>7. CASE OnFinAckInCloseWait(p)
  BY <1>7 DEF Typed, OnFinAckInCloseWait
<1>8. CASE OnUseless(p)
  BY <1>8 DEF Typed, OnUseless
<1>9. CASE OnForeign(p)
  BY <1>9 DEF Typed, OnForeign
<1> QED  BY <1>1, <1>2, <1>3, <1>4, <1>5, <1>6, <1>7, <1>8, <1>9, OnSynTyped DEF OnPacket

LEMMA OnTickTyped ==
    ASSUME Typed, NEW p \in Peers, OnTick(p)
    PROVE  Typed'
<1> USE Bounds DEF RecvNow, Move, ArmPending, ClearPending, SendNow, Surface, States, ControlTypes, Events, boundVars, machineVars, pendingVars
<1>1. CASE TickIdle(p)
  BY <1>1 DEF Typed, TickIdle
<1>2. CASE TickGiveUp(p)
  BY <1>2 DEF Typed, TickGiveUp
<1>3. CASE TickResend(p)
  BY <1>3 DEF Typed, TickResend, RetriesLeft
<1>4. CASE TickHeartbeat(p)
  BY <1>4 DEF Typed, TickHeartbeat
<1> QED  BY <1>1, <1>2, <1>3, <1>4 DEF OnTick

(* What each step does to the inboxes.                                     *)
LEMMA LinkSteps ==
    ASSUME BaseInv, NEW p \in Peers
    PROVE  /\ Connect => Sends(Initiator, {"SYN"})
           /\ Close(p) => Sends(p, {"FIN"})
           /\ TickResend(p) => Sends(p, {pending_ctrl[p]})
           /\ TickHeartbeat(p) => Sends(p, {"HEARTBEAT"})
           /\ OnSyn(p) => Takes(p, {"SYN_ACK"})
           /\ OnSynAck(p) \/ OnRepeatedSynAck(p) => Takes(p, {"ACK"})
           /\ OnFin(p) => Takes(p, {"FIN_ACK", "FIN"})
           /\ OnFinInFinWait(p) => Takes(p, {"FIN_ACK"})
           /\ \/ OnHandshakeAck(p) \/ OnFinAckInFinWait(p) \/ OnFinAckInCloseWait(p)
              \/ OnUseless(p) \/ OnForeign(p)
              => Takes(p, {}) /\ link'[Peer(p)] = link[Peer(p)]
<1> USE DEF ControlTypes
<1>1. /\ link \in [Peers -> Seq(Frame)] /\ Typed
      /\ session_id[Initiator] = ProposedId
      /\ state[Responder] # "CLOSED" \/ pending_ctrl[Responder] # NoPacket
           => session_id[Responder] = ProposedId
  BY TypedIsTypeOK DEF BaseInv, NeedsId, Joined
<1>2. p = Initiator \/ p = Responder
  BY PeerFacts
<1>3. Connect => Sends(Initiator, {"SYN"})
  BY <1>1, PeerFacts, TransmitFacts DEF Connect
<1>4. Close(p) => Sends(p, {"FIN"})
  BY <1>1, <1>2, TransmitFacts DEF Close
<1>5. TickResend(p) => Sends(p, {pending_ctrl[p]})
  <2>1. ASSUME TickResend(p)
        PROVE  pending_ctrl[p] \in ControlTypes /\ session_id[p] = ProposedId
    BY <1>1, <1>2, <2>1 DEF TickResend, ControlDue, Typed
  <2> QED  BY <1>1, <2>1, TransmitFacts DEF TickResend
<1>6. TickHeartbeat(p) => Sends(p, {"HEARTBEAT"})
  BY <1>1, <1>2, TransmitFacts DEF TickHeartbeat, HeartbeatDue
<1>7. OnSyn(p) => Takes(p, {"SYN_ACK"})
  BY <1>1, AnswerFacts DEF OnSyn
<1>8. OnSynAck(p) \/ OnRepeatedSynAck(p) => Takes(p, {"ACK"})
  BY <1>1, AnswerFacts DEF OnSynAck, OnRepeatedSynAck, Accepts
<1>9. OnFin(p) => Takes(p, {"FIN_ACK", "FIN"})
  BY <1>1, AnswerBothFacts DEF OnFin, Accepts
<1>10. OnFinInFinWait(p) => Takes(p, {"FIN_ACK"})
  BY <1>1, AnswerFacts DEF OnFinInFinWait, Accepts
<1>11. \/ OnHandshakeAck(p) \/ OnFinAckInFinWait(p) \/ OnFinAckInCloseWait(p)
       \/ OnUseless(p) \/ OnForeign(p)
       => Takes(p, {}) /\ link'[Peer(p)] = link[Peer(p)]
  BY <1>1, ConsumeFacts DEF OnHandshakeAck, OnFinAckInFinWait, OnFinAckInCloseWait,
     OnUseless, OnForeign, Accepts
<1> QED  BY <1>3, <1>4, <1>5, <1>6, <1>7, <1>8, <1>9, <1>10, <1>11

(* Steps that leave the session ids alone, and do not make the responder   *)
(* or the initiator's inbox depend on them.                                *)
LEMMA JoinedStays ==
    ASSUME BaseInv, Typed', link' \in [Peers -> Seq(Frame)],
           session_id' = session_id, NeedsId' => NeedsId \/ Joined
    PROVE  BaseInv'
<1>1. /\ session_id'[Initiator] = ProposedId
      /\ NeedsId' => Joined'
  BY DEF BaseInv, Joined
<1>2. TypeOK'
  BY TypedIsTypeOKNext
<1> QED  BY <1>1, <1>2 DEF BaseInv

LEMMA OnPacketBase ==
    ASSUME BaseInv, NEW p \in Peers, OnPacket(p)
    PROVE  BaseInv'
<1>1. Typed' /\ link \in [Peers -> Seq(Frame)]
  BY TypedIsTypeOK, OnPacketTyped DEF BaseInv
<1>2. link' \in [Peers -> Seq(Frame)]
  BY LinkSteps DEF OnPacket, Takes
<1>3. CASE OnSyn(p)
  <2>1. /\ p = Responder /\ Head(link[p]).sid = ProposedId
        /\ session_id' = [session_id EXCEPT ![p] = ProposedId]
    BY <1>1, <1>3, HeadFacts DEF OnSyn, OpensResponder
  <2>2. session_id'[Initiator] = ProposedId /\ Joined'
    BY <2>1, PeerFacts DEF BaseInv, TypeOK, Joined
  <2> QED  BY <1>1, <1>2, <2>2, TypedIsTypeOKNext DEF BaseInv
<1>4. CASE ~ OnSyn(p)
  <2>1. session_id' = session_id /\ link[p] # << >>
    BY <1>4 DEF OnPacket, OnSynAck, OnHandshakeAck, OnRepeatedSynAck, OnFin,
       OnFinAckInFinWait, OnFinInFinWait, OnFinAckInCloseWait, OnUseless, OnForeign,
       Accepts, machineVars
  <2>2. CASE p = Initiator
    <3>1. NeedsId
      BY <2>1, <2>2 DEF NeedsId
    <3> QED  BY <1>1, <1>2, <2>1, <3>1, JoinedStays
  <2>3. CASE p = Responder /\ (OnUseless(p) \/ OnForeign(p))
    <3>1. link'[Initiator] = link[Initiator]
      BY <2>3, PeerFacts, LinkSteps
    <3>2. UNCHANGED <<state, pending_ctrl, event>>
      BY <2>3 DEF OnUseless, OnForeign, machineVars, pendingVars
    <3>3. NeedsId' => NeedsId
      BY <3>1, <3>2 DEF NeedsId
    <3> QED  BY <1>1, <1>2, <2>1, <3>3, JoinedStays
  <2>4. CASE p = Responder /\ ~ (OnUseless(p) \/ OnForeign(p))
    <3>1. NeedsId
      BY <1>4, <2>4 DEF NeedsId, OnPacket, OnSynAck, OnHandshakeAck,
         OnRepeatedSynAck, OnFin, OnFinAckInFinWait, OnFinInFinWait,
         OnFinAckInCloseWait, Accepts
    <3> QED  BY <1>1, <1>2, <2>1, <3>1, JoinedStays
  <2> QED  BY <2>2, <2>3, <2>4, PeerFacts
<1> QED  BY <1>3, <1>4

LEMMA OnTickBase ==
    ASSUME BaseInv, NEW p \in Peers, OnTick(p)
    PROVE  BaseInv'
<1>1. Typed' /\ Typed /\ link \in [Peers -> Seq(Frame)]
  BY TypedIsTypeOK, OnTickTyped DEF BaseInv
<1>2. link' \in [Peers -> Seq(Frame)]
  BY <1>1, LinkSteps DEF OnTick, Sends, TickIdle, TickGiveUp
<1>3. session_id' = session_id
  BY DEF OnTick, TickIdle, TickGiveUp, TickResend, TickHeartbeat, machineVars
<1>4. CASE p = Responder
  <2>1. NeedsId
    BY <1>4 DEF NeedsId, OnTick, TickIdle, TickGiveUp, TickResend, TickHeartbeat,
       IdleExpired, ControlDue, HeartbeatDue
  <2> QED  BY <1>1, <1>2, <1>3, <2>1, JoinedStays
<1>5. CASE p = Initiator
  <2>1. CASE TickIdle(p)
    BY <1>1, <1>2, <1>3, <1>5, <2>1, PeerFacts, JoinedStays
       DEF TickIdle, Move, Surface, ClearPending, ArmPending, NeedsId, Typed, Opened, CameUp
  <2>2. CASE TickGiveUp(p)
    BY <1>1, <1>2, <1>3, <1>5, <2>2, PeerFacts, JoinedStays
       DEF TickGiveUp, Move, Surface, ClearPending, ArmPending, NeedsId, Typed, Opened, CameUp
  <2>3. CASE TickResend(p) \/ TickHeartbeat(p)
    <3>1. link'[Initiator] = link[Initiator]
      BY <1>5, <2>3, LinkSteps DEF Sends
    <3>2. UNCHANGED <<state, pending_ctrl, event>>
      BY <2>3 DEF TickResend, TickHeartbeat, machineVars, pendingVars
    <3>3. NeedsId' => NeedsId
      BY <3>1, <3>2 DEF NeedsId
    <3> QED  BY <1>1, <1>2, <1>3, <3>3, JoinedStays
  <2> QED  BY <2>1, <2>2, <2>3 DEF OnTick
<1> QED  BY <1>4, <1>5, PeerFacts

LEMMA OtherBase ==
    ASSUME BaseInv, NEW p \in Peers,
           Connect \/ Close(p) \/ NoteDataActivity(p) \/ Elapse \/ UNCHANGED vars
    PROVE  BaseInv'
<1>1. Typed /\ link \in [Peers -> Seq(Frame)]
  BY TypedIsTypeOK DEF BaseInv
<1>2. CASE Connect
  <2>1. Typed'
    BY <1>1, <1>2, Bounds, PeerFacts DEF Typed, Connect, Move, ArmPending, SendNow, States, ControlTypes
  <2>2. Sends(Initiator, {"SYN"}) /\ session_id' = session_id
    BY <1>2, LinkSteps DEF Connect
  <2>3. NeedsId' => NeedsId
    BY <1>1, <1>2, <2>2, PeerFacts
       DEF NeedsId, Connect, Move, ArmPending, Sends, Typed, Opened
  <2> QED  BY <2>1, <2>2, <2>3, JoinedStays DEF Sends
<1>3. CASE Close(p)
  <2>1. Typed'
    BY <1>1, <1>3, Bounds DEF Typed, Close, Move, ArmPending, SendNow, States, ControlTypes, boundVars
  <2>2. Sends(p, {"FIN"}) /\ session_id' = session_id
    BY <1>3, LinkSteps DEF Close
  <2>3. NeedsId
    BY <1>3, PeerFacts DEF NeedsId, Close, Opened
  <2> QED  BY <2>1, <2>2, <2>3, JoinedStays DEF Sends
<1>4. CASE NoteDataActivity(p)
  <2>1. Typed'
    BY <1>1, <1>4, Bounds DEF Typed, NoteDataActivity, machineVars, pendingVars
  <2>2. NeedsId' = NeedsId /\ session_id' = session_id /\ link' = link
    BY <1>4 DEF NeedsId, NoteDataActivity, machineVars, pendingVars
  <2> QED  BY <1>1, <2>1, <2>2, JoinedStays
<1>5. CASE Elapse
  <2>1. Typed'
    <3>1. ASSUME NEW n \in Nat, NEW age \in [Peers -> {Unset} \cup 0 .. n]
          PROVE  Older(age, n) \in [Peers -> {Unset} \cup 0 .. n]
      BY DEF Older, Unset
    <3>2. recv_age' \in [Peers -> {Unset} \cup 0 .. IdleTimeout]
      BY <1>1, <1>5, <3>1, Bounds DEF Typed, Elapse
    <3>3. send_age' \in [Peers -> {Unset} \cup 0 .. HeartbeatInterval]
      BY <1>1, <1>5, <3>1, Bounds DEF Typed, Elapse
    <3>4. ctrl_age' \in [Peers -> 0 .. ControlRto]
      <4>1. ASSUME NEW q \in Peers PROVE Older(ctrl_age, ControlRto)[q] \in 0 .. ControlRto
        <5>1. ctrl_age[q] \in 0 .. ControlRto
          BY <1>1 DEF Typed
        <5> QED  BY <5>1, Bounds DEF Older, Unset
      <4> HIDE DEF Older
      <4> QED  BY <1>5, <4>1, Bounds DEF Elapse
    <3> QED  BY <1>1, <1>5, <3>2, <3>3, <3>4
             DEF Typed, Elapse, machineVars, boundVars
  <2>2. NeedsId' = NeedsId /\ session_id' = session_id /\ link' = link
    BY <1>5 DEF NeedsId, Elapse, machineVars
  <2> QED  BY <1>1, <2>1, <2>2, JoinedStays
<1>6. CASE UNCHANGED vars
  <2>1. Typed'
    BY <1>1, <1>6 DEF Typed, vars, machineVars, pendingVars, boundVars
  <2>2. NeedsId' = NeedsId /\ session_id' = session_id /\ link' = link
    BY <1>6 DEF NeedsId, vars, machineVars, pendingVars
  <2> QED  BY <1>1, <2>1, <2>2, JoinedStays
<1> QED  BY <1>2, <1>3, <1>4, <1>5, <1>6

LEMMA NextBase ==
    ASSUME BaseInv, [Next]_vars
    PROVE  BaseInv'
<1>1. Initiator \in Peers
  BY PeerFacts
<1> QED  BY <1>1, OnPacketBase, OnTickBase, OtherBase DEF Next, PeerStep

LEMMA InitBase == Init => BaseInv
<1> SUFFICES ASSUME Init PROVE BaseInv
  OBVIOUS
<1>1. link \in [Peers -> Seq(Frame)]
  BY DEF Init
<1>2. Typed
  BY Bounds DEF Init, Typed, States, Events, Unset
<1>3. session_id[Initiator] = ProposedId /\ ~ NeedsId
  BY PeerFacts DEF Init, NeedsId, Opened, CameUp
<1> QED  BY <1>1, <1>2, <1>3, TypedIsTypeOK DEF BaseInv

(* Every variable of the session machines and of the link holds a value of *)
(* its kind, and only the proposed session id ever travels.                *)
THEOREM TypesHold == Spec => []TypeOK
<1>1. Spec => []BaseInv
  BY InitBase, NextBase, PTL DEF Spec
<1>2. BaseInv => TypeOK
  BY DEF BaseInv
<1> QED  BY <1>1, <1>2, PTL

-----------------------------------------------------------------------------
(* Every session on the same objects.                                      *)

(* What one peer has armed, and whether its idle timer runs.               *)
Timed(p) ==
    /\ state[p] = "SYN_SENT" => pending_ctrl[p] = "SYN"
    /\ state[p] = "SYN_RCVD" => pending_ctrl[p] = "SYN_ACK"
    /\ state[p] = "CLOSE_WAIT" => pending_ctrl[p] = "FIN"
    /\ state[p] = "FIN_WAIT" =>
          pending_ctrl[p] = "FIN" \/ (pending_ctrl[p] = NoPacket /\ fin_acked[p])
    /\ state[p] = "ESTABLISHED" => pending_ctrl[p] = NoPacket
    /\ state[p] = "CLOSED" => pending_ctrl[p] \in {"FIN", NoPacket}
    /\ state[p] \notin {"CLOSED", "SYN_SENT"} => recv_age[p] # Unset

LEMMA OnPacketTimed ==
    ASSUME Typed, NEW p \in Peers, Timed(p), OnPacket(p)
    PROVE  Timed(p)'
<1> USE DEF Timed, Typed, Accepts, RecvNow, Move, ArmPending, ClearPending, FinishClose, Unset
<1>1. CASE OnSyn(p)  BY <1>1 DEF OnSyn
<1>2. CASE OnSynAck(p)  BY <1>2 DEF OnSynAck
<1>3. CASE OnHandshakeAck(p)  BY <1>3 DEF OnHandshakeAck
<1>4. CASE OnRepeatedSynAck(p)
  BY <1>4 DEF OnRepeatedSynAck, machineVars, pendingVars
<1>5. CASE OnFin(p)  BY <1>5 DEF OnFin
<1>6. CASE OnFinAckInFinWait(p)  BY <1>6 DEF OnFinAckInFinWait
<1>7. CASE OnFinInFinWait(p)  BY <1>7 DEF OnFinInFinWait, pendingVars
<1>8. CASE OnFinAckInCloseWait(p)  BY <1>8 DEF OnFinAckInCloseWait
<1>9. CASE OnUseless(p) \/ OnForeign(p)
  BY <1>9 DEF OnUseless, OnForeign, machineVars, pendingVars
<1> QED  BY <1>1, <1>2, <1>3, <1>4, <1>5, <1>6, <1>7, <1>8, <1>9 DEF OnPacket

LEMMA OnTickTimed ==
    ASSUME Typed, NEW p \in Peers, Timed(p), OnTick(p)
    PROVE  Timed(p)'
<1> USE DEF Timed, Typed, Move, ArmPending, ClearPending, Unset
<1>1. CASE TickIdle(p)  BY <1>1 DEF TickIdle
<1>2. CASE TickGiveUp(p)  BY <1>2 DEF TickGiveUp
<1>3. CASE TickResend(p) \/ TickHeartbeat(p)
  BY <1>3 DEF TickResend, TickHeartbeat, machineVars, pendingVars
<1> QED  BY <1>1, <1>2, <1>3 DEF OnTick

(* A packet, a tick or a close leaves the machine of the other peer as it  *)
(* is.                                                                     *)
LEMMA OthersTimer ==
    ASSUME Typed, NEW p \in Peers, NEW r \in Peers, r # p,
           OnPacket(p) \/ OnTick(p) \/ Close(p)
    PROVE  /\ state'[r] = state[r] /\ pending_ctrl'[r] = pending_ctrl[r]
           /\ fin_acked'[r] = fin_acked[r] /\ recv_age'[r] = recv_age[r]
<1> USE DEF Typed, Accepts, RecvNow, Move, ArmPending, ClearPending, FinishClose, machineVars, pendingVars
<1>1. CASE OnSyn(p) \/ OnSynAck(p) \/ OnHandshakeAck(p) \/ OnRepeatedSynAck(p)
  BY <1>1 DEF OnSyn, OnSynAck, OnHandshakeAck, OnRepeatedSynAck
<1>2. CASE OnFin(p) \/ OnFinAckInCloseWait(p) \/ OnUseless(p) \/ OnForeign(p)
  BY <1>2 DEF OnFin, OnFinAckInCloseWait, OnUseless, OnForeign
<1>3. CASE OnFinAckInFinWait(p) \/ OnFinInFinWait(p)
  BY <1>3 DEF OnFinAckInFinWait, OnFinInFinWait
<1>4. CASE OnTick(p)
  BY <1>4 DEF OnTick, TickIdle, TickGiveUp, TickResend, TickHeartbeat
<1>5. CASE Close(p)
  BY <1>5 DEF Close
<1> QED  BY <1>1, <1>2, <1>3, <1>4, <1>5 DEF OnPacket

LEMMA TimedNext ==
    ASSUME Typed, \A p \in Peers : Timed(p), [Next]_vars
    PROVE  \A p \in Peers : Timed(p)'
<1> USE DEF Typed, Move, ArmPending, Unset
<1>1. ASSUME NEW p \in Peers, OnPacket(p) \/ OnTick(p) \/ Close(p), NEW r \in Peers
      PROVE  Timed(r)'
  <2>1. CASE r # p
    BY <1>1, <2>1, OthersTimer DEF Timed
  <2>2. CASE r = p /\ Close(p)
    BY <2>2 DEF Timed, Close
  <2> QED  BY <1>1, <2>1, <2>2, OnPacketTimed, OnTickTimed
<1>2. ASSUME Connect, NEW r \in Peers
      PROVE  Timed(r)'
  BY <1>2, PeerFacts DEF Timed, Connect
<1>3. ASSUME NEW p \in Peers, NoteDataActivity(p), NEW r \in Peers
      PROVE  Timed(r)'
  BY <1>3 DEF Timed, NoteDataActivity, machineVars, pendingVars
<1>4. ASSUME Elapse, NEW r \in Peers
      PROVE  Timed(r)'
  BY <1>4, Bounds DEF Timed, Elapse, Older, machineVars
<1>5. ASSUME UNCHANGED vars, NEW r \in Peers
      PROVE  Timed(r)'
  BY <1>5 DEF Timed, vars, machineVars, pendingVars
<1> QED  BY <1>1, <1>2, <1>3, <1>4, <1>5 DEF Next, PeerStep

LEMMA TimedHolds == Spec => [](\A p \in Peers : Timed(p))
<1>1. Init => \A p \in Peers : Timed(p)
  BY DEF Init, Timed
<1>2. TypeOK => Typed
  BY DEF TypeOK, Typed
<1>3. TypeOK /\ (\A p \in Peers : Timed(p)) /\ [Next]_vars => (\A p \in Peers : Timed(p))'
  BY <1>2, TimedNext
<1> QED  BY <1>1, <1>3, TypesHold, PTL DEF Spec

(* However often connect is called, a peer that is not closed has a timer  *)
(* of its own that will end what it waits for, whatever is lost and        *)
(* whatever an earlier session left behind: a packet that is repeated a    *)
(* bounded number of times, or an idle timer that runs (on_tick,           *)
(* state_machine.py:460-511).                                              *)
THEOREM NobodyWaitsUntimed ==
    Spec => [](\A p \in Peers :
                 state[p] # "CLOSED" => pending_ctrl[p] # NoPacket \/ recv_age[p] # Unset)
<1>1. (\A p \in Peers : Timed(p)) =>
         \A p \in Peers :
            state[p] # "CLOSED" => pending_ctrl[p] # NoPacket \/ recv_age[p] # Unset
  BY DEF Timed, NoPacket
<1> QED  BY <1>1, TimedHolds, PTL

(* However often connect is called, the only packet ever armed where       *)
(* PendingFitsState allows none is a FIN, of a close in progress or of one *)
(* that ended before the FIN was acknowledged: an opening session repeats  *)
(* its own packet, and an established one nothing (on_packet,              *)
(* state_machine.py:322-421).                                              *)
THEOREM OnlyAFinIsLeftOver ==
    Spec => [](\A p \in Peers :
                 \/ pending_ctrl[p] = NoPacket /\ state[p] \in {"CLOSED", "ESTABLISHED"}
                 \/ pending_ctrl[p] = NoPacket /\ state[p] = "FIN_WAIT" /\ fin_acked[p]
                 \/ pending_ctrl[p] = "SYN" /\ state[p] = "SYN_SENT"
                 \/ pending_ctrl[p] = "SYN_ACK" /\ state[p] = "SYN_RCVD"
                 \/ pending_ctrl[p] = "FIN" /\ state[p] \in {"FIN_WAIT", "CLOSE_WAIT", "CLOSED"})
<1>1. TypeOK /\ (\A p \in Peers : Timed(p)) =>
         \A p \in Peers :
            \/ pending_ctrl[p] = NoPacket /\ state[p] \in {"CLOSED", "ESTABLISHED"}
            \/ pending_ctrl[p] = NoPacket /\ state[p] = "FIN_WAIT" /\ fin_acked[p]
            \/ pending_ctrl[p] = "SYN" /\ state[p] = "SYN_SENT"
            \/ pending_ctrl[p] = "SYN_ACK" /\ state[p] = "SYN_RCVD"
            \/ pending_ctrl[p] = "FIN" /\ state[p] \in {"FIN_WAIT", "CLOSE_WAIT", "CLOSED"}
  BY DEF Timed, TypeOK, States
<1> QED  BY <1>1, TimedHolds, TypesHold, PTL

-----------------------------------------------------------------------------
(* The first session of the initiator.                                     *)

(* PendingFitsState of one peer.                                           *)
Fits(p) ==
    /\ state[p] = "SYN_SENT" => pending_ctrl[p] = "SYN"
    /\ state[p] = "SYN_RCVD" => pending_ctrl[p] = "SYN_ACK"
    /\ state[p] = "CLOSE_WAIT" => pending_ctrl[p] = "FIN"
    /\ state[p] = "FIN_WAIT" =>
          pending_ctrl[p] = IF fin_acked[p] THEN NoPacket ELSE "FIN"
    /\ state[p] \in {"CLOSED", "ESTABLISHED"} => pending_ctrl[p] = NoPacket

LEMMA FitsIsPendingFits ==
    state \in [Peers -> States] => (PendingFitsState <=> \A p \in Peers : Fits(p))
<1> SUFFICES ASSUME state \in [Peers -> States], NEW p \in Peers
             PROVE  Fits(p) <=>
                    pending_ctrl[p] \in
                        CASE state[p] = "SYN_SENT"   -> {"SYN"}
                          [] state[p] = "SYN_RCVD"   -> {"SYN_ACK"}
                          [] state[p] = "CLOSE_WAIT" -> {"FIN"}
                          [] state[p] = "FIN_WAIT"   -> IF fin_acked[p] THEN {NoPacket}
                                                        ELSE {"FIN"}
                          [] OTHER                   -> {NoPacket}
  BY DEF PendingFitsState
<1>1. state[p] \in States
  OBVIOUS
<1>2. CASE state[p] = "SYN_SENT"  BY <1>2 DEF Fits
<1>3. CASE state[p] = "SYN_RCVD"  BY <1>3 DEF Fits
<1>4. CASE state[p] = "CLOSE_WAIT"  BY <1>4 DEF Fits
<1>5. CASE state[p] = "FIN_WAIT"  BY <1>5 DEF Fits
<1>6. CASE state[p] \in {"CLOSED", "ESTABLISHED"}  BY <1>6 DEF Fits
<1> QED  BY <1>1, <1>2, <1>3, <1>4, <1>5, <1>6 DEF States

LEMMA FitsIsPendingFitsNext ==
    (state \in [Peers -> States] => (PendingFitsState <=> \A p \in Peers : Fits(p)))'
  BY FitsIsPendingFits, PTL

(* Every step keeps the packet that is repeated in accord with the state,  *)
(* when nothing of an earlier close is left over.                          *)
LEMMA PendingNext ==
    ASSUME Typed, \A p \in Peers : Fits(p), ClosingInv,
           [Next]_vars
    PROVE  \A p \in Peers : Fits(p)'
<1> USE PeerFacts DEF Move, ArmPending, ClearPending, FinishClose, Typed
<1>1. ASSUME NEW p \in Peers, OnPacket(p)
      PROVE  \A r \in Peers : Fits(r)'
  <2> USE DEF Fits, Accepts
  <2>1. CASE OnSyn(p)  BY <2>1 DEF OnSyn
  <2>2. CASE OnSynAck(p)  BY <2>2 DEF OnSynAck
  <2>3. CASE OnHandshakeAck(p)  BY <2>3 DEF OnHandshakeAck
  <2>4. CASE OnRepeatedSynAck(p)
    BY <2>4 DEF OnRepeatedSynAck, machineVars, pendingVars
  <2>5. CASE OnFin(p)  BY <2>5 DEF OnFin
  <2>6. CASE OnFinAckInFinWait(p)  BY <2>6 DEF OnFinAckInFinWait
  <2>7. CASE OnFinInFinWait(p)  BY <2>7 DEF OnFinInFinWait, pendingVars
  <2>8. CASE OnFinAckInCloseWait(p)  BY <2>8 DEF OnFinAckInCloseWait
  <2>9. CASE OnUseless(p) \/ OnForeign(p)
    BY <2>9 DEF OnUseless, OnForeign, machineVars, pendingVars
  <2> QED  BY <1>1, <2>1, <2>2, <2>3, <2>4, <2>5, <2>6, <2>7, <2>8, <2>9 DEF OnPacket
<1>2. ASSUME NEW p \in Peers, OnTick(p)
      PROVE  \A r \in Peers : Fits(r)'
  <2> USE DEF Fits
  <2>1. CASE TickIdle(p)  BY <2>1 DEF TickIdle
  <2>2. CASE TickGiveUp(p)  BY <2>2 DEF TickGiveUp
  <2>3. CASE TickResend(p) \/ TickHeartbeat(p)
    BY <2>3 DEF TickResend, TickHeartbeat, machineVars, pendingVars
  <2> QED  BY <1>2, <2>1, <2>2, <2>3 DEF OnTick
<1>3. CASE Connect
  BY <1>3 DEF Connect, Fits
<1>4. ASSUME NEW p \in Peers, Close(p)
      PROVE  \A r \in Peers : Fits(r)'
  BY <1>4 DEF Close, Fits, ClosingInv
<1>5. ASSUME NEW p \in Peers, NoteDataActivity(p) \/ Elapse \/ UNCHANGED vars
      PROVE  \A r \in Peers : Fits(r)'
  BY <1>5 DEF NoteDataActivity, Elapse, vars, machineVars, pendingVars, Fits
<1> QED  BY <1>1, <1>2, <1>3, <1>4, <1>5 DEF Next, PeerStep

(* The types of frames in the inboxes after a step that sends packets of   *)
(* the given types.                                                        *)
LEMMA TypesAfter ==
    ASSUME NEW p \in Peers, NEW types,
           link \in [Peers -> Seq(Frame)], Sends(p, types) \/ Takes(p, types)
    PROVE  /\ TypesIn(link'[p]) \subseteq TypesIn(link[p])
           /\ TypesIn(link'[Peer(p)]) \subseteq TypesIn(link[Peer(p)]) \cup types
           /\ SynsFirst(link[p]) => SynsFirst(link'[p])
           /\ /\ SynsFirst(link[Peer(p)])
              /\ "SYN" \in types => TypesIn(link[Peer(p)]) \subseteq {"SYN"}
              => SynsFirst(link'[Peer(p)])
  BY DEF Sends, Takes, Follows

(* What ClosingInv says of peer p, the other being q.                      *)
Closing(p, q) ==
    /\ "FIN_ACK" \in TypesIn(link[p]) => peer_fin_acked[q]
    /\ fin_acked[p] => peer_fin_acked[q] /\ state[p] \in {"FIN_WAIT", "CLOSED"}
    /\ peer_fin_acked[p] => state[p] \in {"FIN_WAIT", "CLOSE_WAIT", "CLOSED"}
    /\ state[p] = "CLOSE_WAIT" => peer_fin_acked[p]
    /\ agreed[p] => peer_fin_acked[p] /\ peer_fin_acked[q]

(* Every step of peer p keeps ClosingInv, p being the one of q.            *)
LEMMA ClosingNext ==
    ASSUME BaseInv, FirstSession, [Next]_vars, connects' <= 1
    PROVE  ClosingInv'
<1>1. Typed /\ link \in [Peers -> Seq(Frame)] /\ \A p \in Peers : Fits(p)
  BY TypedIsTypeOK, FitsIsPendingFits DEF BaseInv, FirstSession, Typed
<1>2. ASSUME NEW p \in Peers
      PROVE  /\ Peer(p) \in Peers /\ Peer(p) # p
             /\ \A r \in Peers : r # p => r = Peer(p)
             /\ Closing(p, Peer(p)) /\ Closing(Peer(p), p)
  BY PeerFacts DEF FirstSession, ClosingInv, Closing
<1>3. ASSUME NEW p \in Peers, Closing(p, Peer(p))', Closing(Peer(p), p)'
      PROVE  ClosingInv'
  BY <1>2, <1>3 DEF ClosingInv, Closing
<1> USE DEF Move, ClearPending, ArmPending, FinishClose, Typed, Closing
<1>4. ASSUME NEW p \in Peers, OnPacket(p)
      PROVE  ClosingInv'
  <2> DEFINE q == Peer(p)
  <2>1. q \in Peers /\ q # p /\ Closing(p, q) /\ Closing(q, p)
    BY <1>2
  <2>2. /\ link[p] # << >>
        /\ Head(link[p]).type \in TypesIn(link[p])
    BY <1>1, <1>4, HeadFacts DEF OnPacket, OnSyn, OnSynAck, OnHandshakeAck,
       OnRepeatedSynAck, OnFin, OnFinAckInFinWait, OnFinInFinWait,
       OnFinAckInCloseWait, OnUseless, OnForeign, Accepts
  <2>3. ASSUME NEW types, Takes(p, types)
        PROVE  /\ TypesIn(link'[p]) \subseteq TypesIn(link[p])
               /\ TypesIn(link'[q]) \subseteq TypesIn(link[q]) \cup types
    BY <1>1, <2>3, TypesAfter
  <2> HIDE DEF q
  <2> USE DEF Accepts
  <2>4. CASE OnSyn(p)
    <3>1. /\ TypesIn(link'[p]) \subseteq TypesIn(link[p])
          /\ TypesIn(link'[q]) \subseteq TypesIn(link[q]) \cup {"SYN_ACK"}
      BY <1>1, <2>3, <2>4, LinkSteps
    <3>2. ~ fin_acked[p] /\ ~ peer_fin_acked[p]
      BY <2>2, <2>4 DEF OnSyn, OpensResponder, FirstSession, OpeningInv
    <3>3. Closing(p, q)' /\ Closing(q, p)'
      BY <1>1, <2>1, <2>4, <3>1, <3>2 DEF OnSyn
    <3> QED  BY <1>3, <3>3 DEF q
  <2>5. CASE OnSynAck(p) \/ OnRepeatedSynAck(p)
    <3>1. /\ TypesIn(link'[p]) \subseteq TypesIn(link[p])
          /\ TypesIn(link'[q]) \subseteq TypesIn(link[q]) \cup {"ACK"}
      BY <1>1, <2>3, <2>5, LinkSteps
    <3>2. Closing(p, q)' /\ Closing(q, p)'
      BY <1>1, <2>1, <2>5, <3>1 DEF OnSynAck, OnRepeatedSynAck, machineVars
    <3> QED  BY <1>3, <3>2 DEF q
  <2>6. CASE OnFin(p)
    <3>1. /\ TypesIn(link'[p]) \subseteq TypesIn(link[p])
          /\ TypesIn(link'[q]) \subseteq TypesIn(link[q]) \cup {"FIN_ACK", "FIN"}
      BY <1>1, <2>3, <2>6, LinkSteps
    <3>2. Closing(p, q)' /\ Closing(q, p)'
      BY <1>1, <2>1, <2>6, <3>1 DEF OnFin
    <3> QED  BY <1>3, <3>2 DEF q
  <2>7. CASE OnFinInFinWait(p)
    <3>1. /\ TypesIn(link'[p]) \subseteq TypesIn(link[p])
          /\ TypesIn(link'[q]) \subseteq TypesIn(link[q]) \cup {"FIN_ACK"}
      BY <1>1, <2>3, <2>7, LinkSteps
    <3>2. Closing(p, q)' /\ Closing(q, p)'
      BY <1>1, <2>1, <2>7, <3>1 DEF OnFinInFinWait
    <3> QED  BY <1>3, <3>2 DEF q
  <2>8. CASE \/ OnHandshakeAck(p) \/ OnFinAckInFinWait(p) \/ OnFinAckInCloseWait(p)
             \/ OnUseless(p) \/ OnForeign(p)
    <3>1. /\ TypesIn(link'[p]) \subseteq TypesIn(link[p])
          /\ TypesIn(link'[q]) \subseteq TypesIn(link[q])
      <4>1. Takes(p, {})
        BY <2>8, LinkSteps
      <4>2. TypesIn(link[q]) \cup {} = TypesIn(link[q])
        OBVIOUS
      <4> QED  BY <2>3, <4>1, <4>2
    <3>2. CASE OnHandshakeAck(p)
      <4>1. Closing(p, q)' /\ Closing(q, p)'
        BY <1>1, <2>1, <3>1, <3>2 DEF OnHandshakeAck
      <4> QED  BY <1>3, <4>1 DEF q
    <3>3. CASE OnFinAckInFinWait(p)
      <4>1. Closing(p, q)' /\ Closing(q, p)'
        BY <1>1, <2>1, <2>2, <3>1, <3>3 DEF OnFinAckInFinWait
      <4> QED  BY <1>3, <4>1 DEF q
    <3>4. CASE OnFinAckInCloseWait(p)
      <4>1. Closing(p, q)' /\ Closing(q, p)'
        BY <1>1, <2>1, <2>2, <3>1, <3>4 DEF OnFinAckInCloseWait
      <4> QED  BY <1>3, <4>1 DEF q
    <3>5. CASE OnUseless(p) \/ OnForeign(p)
      <4>1. Closing(p, q)' /\ Closing(q, p)'
        BY <2>1, <3>1, <3>5 DEF OnUseless, OnForeign, machineVars
      <4> QED  BY <1>3, <4>1 DEF q
    <3> QED  BY <2>8, <3>2, <3>3, <3>4, <3>5
  <2> QED  BY <1>4, <2>4, <2>5, <2>6, <2>7, <2>8 DEF OnPacket
<1>5. ASSUME NEW p \in Peers, OnTick(p)
      PROVE  ClosingInv'
  <2> DEFINE q == Peer(p)
  <2>1. q \in Peers /\ q # p /\ Closing(p, q) /\ Closing(q, p)
    BY <1>2
  <2> HIDE DEF q
  <2>2. CASE TickIdle(p) \/ TickGiveUp(p)
    <3>1. Closing(p, q)' /\ Closing(q, p)'
      BY <1>1, <2>1, <2>2 DEF TickIdle, TickGiveUp
    <3> QED  BY <1>3, <3>1 DEF q
  <2>3. CASE TickResend(p) \/ TickHeartbeat(p)
    <3>1. \E type : /\ type # "FIN_ACK"
                    /\ TypesIn(link'[p]) \subseteq TypesIn(link[p])
                    /\ TypesIn(link'[q]) \subseteq TypesIn(link[q]) \cup {type}
      <4>1. CASE TickHeartbeat(p)
        BY <1>1, <4>1, LinkSteps, TypesAfter DEF q
      <4>2. CASE TickResend(p)
        <5>1. pending_ctrl[p] # "FIN_ACK"
          BY <1>1, <4>2 DEF TickResend, ControlDue, Fits, States, NoPacket
        <5> QED  BY <1>1, <4>2, <5>1, LinkSteps, TypesAfter DEF q
      <4> QED  BY <2>3, <4>1, <4>2
    <3>2. UNCHANGED <<machineVars, agreed>>
      BY <2>3 DEF TickResend, TickHeartbeat
    <3>3. Closing(p, q)' /\ Closing(q, p)'
      BY <2>1, <3>1, <3>2 DEF machineVars
    <3> QED  BY <1>3, <3>3 DEF q
  <2> QED  BY <1>5, <2>2, <2>3 DEF OnTick
<1>6. CASE Connect
  <2>1. /\ TypesIn(link'[Initiator]) \subseteq TypesIn(link[Initiator])
        /\ TypesIn(link'[Responder]) \subseteq TypesIn(link[Responder]) \cup {"SYN"}
    BY <1>1, <1>6, LinkSteps, TypesAfter, PeerFacts
  <2>2. connects = 0
    BY <1>1, <1>6 DEF Connect
  <2>3. /\ Closing(Initiator, Responder) /\ Closing(Responder, Initiator)
        /\ Initiator # Responder /\ Initiator \in Peers /\ Responder \in Peers
    BY <1>2, PeerFacts
  <2>4. ~ peer_fin_acked[Initiator] /\ ~ peer_fin_acked[Responder]
    BY <2>2, <2>3 DEF FirstSession, OpeningInv
  <2>5. Closing(Initiator, Responder)' /\ Closing(Responder, Initiator)'
    BY <1>1, <1>6, <2>1, <2>3, <2>4 DEF Connect
  <2> QED  BY <1>3, <2>5, PeerFacts
<1>7. ASSUME NEW p \in Peers, Close(p)
      PROVE  ClosingInv'
  <2> DEFINE q == Peer(p)
  <2>1. q \in Peers /\ q # p /\ Closing(p, q) /\ Closing(q, p)
    BY <1>2
  <2>2. /\ TypesIn(link'[p]) \subseteq TypesIn(link[p])
        /\ TypesIn(link'[q]) \subseteq TypesIn(link[q]) \cup {"FIN"}
    BY <1>1, <1>7, LinkSteps, TypesAfter
  <2> HIDE DEF q
  <2>3. Closing(p, q)' /\ Closing(q, p)'
    BY <1>1, <1>7, <2>1, <2>2 DEF Close
  <2> QED  BY <1>3, <2>3 DEF q
<1>8. ASSUME NEW p \in Peers, NoteDataActivity(p) \/ Elapse \/ UNCHANGED vars
      PROVE  ClosingInv'
  <2> DEFINE q == Peer(p)
  <2>1. UNCHANGED <<link, state, fin_acked, peer_fin_acked, agreed>>
    BY <1>8 DEF NoteDataActivity, Elapse, vars, machineVars
  <2>2. Closing(p, q) /\ Closing(q, p)
    BY <1>2
  <2> HIDE DEF q
  <2>3. Closing(p, q)' /\ Closing(q, p)'
    BY <2>1, <2>2
  <2> QED  BY <1>3, <2>3 DEF q
<1> QED  BY <1>4, <1>5, <1>6, <1>7, <1>8, PeerFacts DEF Next, PeerStep

(* A step of the initiator that sends packets of the given types.          *)
InitiatorMove(types) ==
    /\ connects # 0 /\ connects' = connects
    /\ state'[Responder] = state[Responder]
    /\ event'[Responder] = event[Responder]
    /\ fin_acked'[Responder] = fin_acked[Responder]
    /\ peer_fin_acked'[Responder] = peer_fin_acked[Responder]
    /\ TypesIn(link'[Responder]) \subseteq TypesIn(link[Responder]) \cup types
    /\ SynsFirst(link'[Responder])
    /\ "SYN" \in types => state[Initiator] = "SYN_SENT"
    /\ "ACK" \in types => event'[Initiator] \in CameUp
    /\ state'[Initiator] # "SYN_RCVD"
    /\ state'[Initiator] = "SYN_SENT" =>
          /\ state[Initiator] = "SYN_SENT" /\ event'[Initiator] = event[Initiator]
          /\ types \subseteq {"SYN"}
    /\ state'[Initiator] \in Opened => event'[Initiator] \in CameUp
    /\ event[Initiator] \in CameUp \cup {"TIMED_OUT"} =>
          event'[Initiator] \in CameUp \cup {"TIMED_OUT"}

LEMMA InitiatorMoves ==
    ASSUME OpeningInv, NEW types, InitiatorMove(types)
    PROVE  OpeningInv'
  BY DEF OpeningInv, InitiatorMove

(* A step of the responder.                                                *)
LEMMA ResponderMoves ==
    ASSUME OpeningInv, connects # 0, connects' = connects,
           state'[Initiator] = state[Initiator],
           event'[Initiator] = event[Initiator],
           TypesIn(link'[Responder]) \subseteq TypesIn(link[Responder]),
           SynsFirst(link'[Responder]),
           state'[Responder] # "SYN_SENT",
           \/ state'[Responder] \in Opened
           \/ fin_acked'[Responder]
           \/ peer_fin_acked'[Responder]
           => \/ state[Responder] \in Opened
              \/ fin_acked[Responder]
              \/ peer_fin_acked[Responder]
              \/ /\ "ACK" \in TypesIn(link[Responder])
                 /\ "SYN" \notin TypesIn(link[Responder]),
           \/ state'[Responder] \in Opened
           \/ event'[Responder] \in CameUp
           => \/ state[Responder] \in Opened
              \/ event[Responder] \in CameUp
              \/ "ACK" \in TypesIn(link[Responder])
    PROVE  OpeningInv'
  BY DEF OpeningInv

(* A step of either that changes nothing OpeningInv speaks of but that     *)
(* frames leave the responder's inbox.                                     *)
LEMMA NobodyMoves ==
    ASSUME OpeningInv,
           UNCHANGED <<state, event, fin_acked, peer_fin_acked, connects>>,
           TypesIn(link'[Responder]) \subseteq TypesIn(link[Responder]),
           SynsFirst(link'[Responder])
    PROVE  OpeningInv'
  BY DEF OpeningInv

LEMMA OpeningNext ==
    ASSUME BaseInv, FirstSession, [Next]_vars, connects' <= 1
    PROVE  OpeningInv'
<1> DEFINE I == Initiator
           R == Responder
<1>1. Typed /\ link \in [Peers -> Seq(Frame)] /\ \A p \in Peers : Fits(p)
  BY TypedIsTypeOK, FitsIsPendingFits DEF BaseInv, FirstSession, Typed
<1>2. /\ Peers = {I, R} /\ I # R /\ Peer(I) = R /\ Peer(R) = I
  BY PeerFacts
<1>3. OpeningInv /\ Closing(I, R) /\ Closing(R, I)
  BY <1>2 DEF FirstSession, ClosingInv, Closing
<1>4. /\ connects = 0 => state[I] = "CLOSED" /\ state[R] = "CLOSED"
      /\ connects = 0 => TypesIn(link[R]) = {} /\ event[I] = "none"
      /\ SynsFirst(link[R])
      /\ state[I] \in Opened => event[I] \in CameUp
      /\ state[I] = "SYN_SENT" => event[I] = "none" /\ TypesIn(link[R]) \subseteq {"SYN"}
      /\ state[R] # "SYN_SENT" /\ state[I] # "SYN_RCVD"
  BY <1>2, <1>3 DEF OpeningInv
<1>5. ASSUME NEW p \in Peers, OnPacket(p)
      PROVE  /\ link[p] # << >>
             /\ Head(link[p]).type \in TypesIn(link[p])
             /\ SynsFirst(link[p]) /\ Head(link[p]).type # "SYN" =>
                  "SYN" \notin TypesIn(link[p])
  BY <1>1, <1>5, HeadFacts DEF OnPacket, OnSyn, OnSynAck, OnHandshakeAck,
     OnRepeatedSynAck, OnFin, OnFinAckInFinWait, OnFinInFinWait,
     OnFinAckInCloseWait, OnUseless, OnForeign, Accepts
<1>6. ASSUME NEW types, Sends(I, types) \/ Takes(I, types), "SYN" \notin types
      PROVE  /\ TypesIn(link'[R]) \subseteq TypesIn(link[R]) \cup types
             /\ SynsFirst(link'[R])
  BY <1>1, <1>2, <1>4, <1>6, TypesAfter
<1> USE DEF Typed, Move, ClearPending, ArmPending, FinishClose, Surface
(* The initiator takes a frame, and may answer: never with a SYN.          *)
<1>7. ASSUME OnPacket(I)
      PROVE  OpeningInv'
  <2> USE DEF Accepts
  <2>1. ~ OnSyn(I) /\ ~ OnHandshakeAck(I)
    BY <1>2, <1>4 DEF OnSyn, OpensResponder, OnHandshakeAck
  <2>2. CASE OnSynAck(I)
    <3>1. /\ TypesIn(link'[R]) \subseteq TypesIn(link[R]) \cup {"ACK"}
          /\ SynsFirst(link'[R])
      BY <1>6, <2>2, <1>2, LinkSteps
    <3>2. connects # 0
      BY <1>4, <2>2 DEF OnSynAck
    <3>3. InitiatorMove({"ACK"})
      BY <1>1, <1>2, <1>3, <2>2, <3>1, <3>2
        DEF InitiatorMove, OnSynAck, CameUp, Opened, boundVars
    <3> QED  BY <1>3, <3>3, InitiatorMoves
  <2>3. CASE OnRepeatedSynAck(I)
    <3>1. /\ TypesIn(link'[R]) \subseteq TypesIn(link[R]) \cup {"ACK"}
          /\ SynsFirst(link'[R])
      BY <1>6, <2>3, <1>2, LinkSteps
    <3>2. connects # 0 /\ event[I] \in CameUp
      BY <1>4, <2>3 DEF OnRepeatedSynAck, Opened
    <3>3. InitiatorMove({"ACK"})
      BY <1>3, <2>3, <3>1, <3>2
        DEF InitiatorMove, OnRepeatedSynAck, machineVars, boundVars
    <3> QED  BY <1>3, <3>3, InitiatorMoves
  <2>4. CASE OnFin(I)
    <3>1. /\ TypesIn(link'[R]) \subseteq TypesIn(link[R]) \cup {"FIN_ACK", "FIN"}
          /\ SynsFirst(link'[R])
      BY <1>6, <2>4, <1>2, LinkSteps
    <3>2. connects # 0
      BY <1>4, <2>4 DEF OnFin
    <3>3. /\ state'[I] = "CLOSE_WAIT" /\ event'[I] = "PEER_CLOSED" /\ connects' = connects
          /\ state'[R] = state[R] /\ event'[R] = event[R]
          /\ fin_acked'[R] = fin_acked[R] /\ peer_fin_acked'[R] = peer_fin_acked[R]
      BY <1>1, <1>2, <2>4 DEF OnFin, boundVars
    <3>4. InitiatorMove({"FIN_ACK", "FIN"})
      BY <3>1, <3>2, <3>3 DEF InitiatorMove, CameUp
    <3> QED  BY <1>3, <3>4, InitiatorMoves
  <2>5. CASE OnFinInFinWait(I)
    <3>1. /\ TypesIn(link'[R]) \subseteq TypesIn(link[R]) \cup {"FIN_ACK"}
          /\ SynsFirst(link'[R])
      BY <1>6, <2>5, <1>2, LinkSteps
    <3>2. connects # 0 /\ event[I] \in CameUp
      BY <1>4, <2>5 DEF OnFinInFinWait, Opened
    <3>3. InitiatorMove({"FIN_ACK"})
      BY <1>1, <1>2, <1>3, <2>5, <3>1, <3>2
        DEF InitiatorMove, OnFinInFinWait, CameUp, boundVars
    <3> QED  BY <1>3, <3>3, InitiatorMoves
  <2>6. CASE OnFinAckInFinWait(I) \/ OnFinAckInCloseWait(I)
    <3>1. link'[R] = link[R]
      BY <1>2, <2>6, LinkSteps
    <3>2. connects # 0 /\ event[I] \in CameUp
      BY <1>4, <2>6 DEF OnFinAckInFinWait, OnFinAckInCloseWait, Opened
    <3>3. TypesIn(link'[R]) \subseteq TypesIn(link[R]) \cup {} /\ SynsFirst(link'[R])
      BY <1>4, <3>1
    <3>4. InitiatorMove({})
      BY <1>1, <1>2, <1>3, <2>6, <3>2, <3>3
        DEF InitiatorMove, OnFinAckInFinWait, OnFinAckInCloseWait, CameUp, Opened, boundVars
    <3> QED  BY <1>3, <3>4, InitiatorMoves
  <2>7. CASE OnUseless(I) \/ OnForeign(I)
    <3>1. link'[R] = link[R]
      BY <1>2, <2>7, LinkSteps
    <3> QED  BY <1>3, <1>4, <2>7, <3>1, NobodyMoves
             DEF OnUseless, OnForeign, machineVars, boundVars
  <2> QED  BY <1>7, <2>1, <2>2, <2>3, <2>4, <2>5, <2>6, <2>7 DEF OnPacket
(* The responder takes a frame from the inbox in question.                 *)
<1>8. ASSUME OnPacket(R)
      PROVE  OpeningInv'
  <2>1. /\ TypesIn(link'[R]) \subseteq TypesIn(link[R])
        /\ SynsFirst(link'[R])
    <3>1. \E types : Takes(R, types)
      BY <1>2, <1>8, LinkSteps DEF OnPacket
    <3> QED  BY <1>1, <1>2, <1>4, <3>1, TypesAfter
  <2>2. /\ connects # 0
        /\ Head(link[R]).type \in TypesIn(link[R])
        /\ Head(link[R]).type # "SYN" => "SYN" \notin TypesIn(link[R])
    BY <1>2, <1>4, <1>5, <1>8
  <2>3. ~ OnSynAck(R)
    BY <1>4 DEF OnSynAck, Accepts
  <2> USE DEF Accepts
  <2>4. CASE OnSyn(R)
    BY <1>1, <1>2, <1>3, <2>1, <2>2, <2>4, ResponderMoves DEF OnSyn, Opened, boundVars
  <2>5. CASE OnHandshakeAck(R)
    BY <1>1, <1>2, <1>3, <2>1, <2>2, <2>5, ResponderMoves
       DEF OnHandshakeAck, Opened, boundVars
  <2>6. CASE OnRepeatedSynAck(R) \/ OnUseless(R) \/ OnForeign(R)
    BY <1>3, <2>1, <2>6, NobodyMoves
       DEF OnRepeatedSynAck, OnUseless, OnForeign, machineVars, boundVars
  <2>7. CASE OnFin(R)
    BY <1>1, <1>2, <1>3, <2>1, <2>2, <2>7, ResponderMoves DEF OnFin, Opened, boundVars
  <2>8. CASE OnFinAckInFinWait(R)
    BY <1>1, <1>2, <1>3, <2>1, <2>2, <2>8, ResponderMoves
       DEF OnFinAckInFinWait, Opened, boundVars
  <2>9. CASE OnFinInFinWait(R)
    BY <1>1, <1>2, <1>3, <2>1, <2>2, <2>9, ResponderMoves
       DEF OnFinInFinWait, Opened, boundVars
  <2>10. CASE OnFinAckInCloseWait(R)
    BY <1>1, <1>2, <1>3, <2>1, <2>2, <2>10, ResponderMoves
       DEF OnFinAckInCloseWait, Opened, boundVars
  <2> QED  BY <1>8, <2>3, <2>4, <2>5, <2>6, <2>7, <2>8, <2>9, <2>10 DEF OnPacket
<1>9. ASSUME NEW p \in Peers, TickIdle(p) \/ TickGiveUp(p)
      PROVE  OpeningInv'
  <2>1. state[p] # "CLOSED" /\ connects # 0
    BY <1>1, <1>2, <1>4, <1>9 DEF TickIdle, TickGiveUp, IdleExpired, ControlDue, Fits
  <2>2. /\ UNCHANGED <<link, connects, fin_acked, peer_fin_acked>>
        /\ TypesIn(link'[R]) \subseteq TypesIn(link[R]) \cup {}
        /\ SynsFirst(link'[R])
    BY <1>4, <1>9 DEF TickIdle, TickGiveUp, boundVars
  <2>3. CASE p = I
    <3>1. event'[I] \in {"CLOSED", "TIMED_OUT", "CONNECT_FAILED"}
          /\ (event'[I] = "CONNECT_FAILED" => state[I] = "SYN_SENT")
          /\ state'[I] = "CLOSED" /\ state'[R] = state[R] /\ event'[R] = event[R]
      BY <1>1, <1>2, <1>4, <1>9, <2>3 DEF TickIdle, TickGiveUp
    <3>2. event[I] \in CameUp \cup {"TIMED_OUT"} =>
               event'[I] \in CameUp \cup {"TIMED_OUT"}
      BY <1>4, <3>1 DEF CameUp
    <3>3. InitiatorMove({})
      BY <1>3, <2>1, <2>2, <3>1, <3>2 DEF InitiatorMove, Opened
    <3> QED  BY <1>3, <3>3, InitiatorMoves
  <2>4. CASE p = R
    BY <1>1, <1>2, <1>3, <1>4, <1>9, <2>1, <2>2, <2>4, ResponderMoves
       DEF TickIdle, TickGiveUp, Opened, CameUp
  <2> QED  BY <1>2, <2>3, <2>4
<1>10. ASSUME NEW p \in Peers, TickResend(p) \/ TickHeartbeat(p)
       PROVE  OpeningInv'
  <2>1. UNCHANGED <<machineVars, event, connects>>
    BY <1>10 DEF TickResend, TickHeartbeat, boundVars
  <2>2. CASE p = R
    <3>1. TypesIn(link'[R]) = TypesIn(link[R]) /\ SynsFirst(link'[R])
      BY <1>2, <1>4, <1>10, <2>2, LinkSteps DEF Sends
    <3> QED  BY <1>3, <2>1, <3>1, NobodyMoves DEF machineVars
  <2>3. CASE p = I /\ TickHeartbeat(p)
    <3>1. /\ TypesIn(link'[R]) \subseteq TypesIn(link[R]) \cup {"HEARTBEAT"}
          /\ SynsFirst(link'[R])
      BY <1>2, <1>6, <2>3, LinkSteps
    <3>2. state[I] = "ESTABLISHED" /\ connects # 0 /\ event[I] \in CameUp
      BY <1>4, <2>3 DEF TickHeartbeat, HeartbeatDue, Opened
    <3>3. InitiatorMove({"HEARTBEAT"})
      BY <1>3, <2>1, <3>1, <3>2 DEF InitiatorMove, machineVars
    <3> QED  BY <1>3, <3>3, InitiatorMoves
  <2>4. CASE p = I /\ TickResend(p)
    <3>1. /\ \/ pending_ctrl[I] = "SYN" /\ state[I] = "SYN_SENT"
             \/ pending_ctrl[I] = "FIN" /\ state[I] \in {"FIN_WAIT", "CLOSE_WAIT"}
          /\ connects # 0
          /\ state[I] # "SYN_SENT" => event[I] \in CameUp
      BY <1>1, <1>2, <1>4, <2>4
         DEF TickResend, ControlDue, Fits, States, Opened
    <3>2. Sends(I, {pending_ctrl[I]})
      BY <1>2, <2>4, LinkSteps
    <3>3. /\ TypesIn(link'[R]) \subseteq TypesIn(link[R]) \cup {pending_ctrl[I]}
          /\ SynsFirst(link'[R])
      BY <1>1, <1>2, <1>4, <3>1, <3>2, TypesAfter
    <3>4. InitiatorMove({pending_ctrl[I]})
      BY <1>3, <1>4, <2>1, <3>1, <3>3 DEF InitiatorMove, machineVars
    <3> QED  BY <1>3, <3>4, InitiatorMoves
  <2> QED  BY <1>2, <1>10, <2>2, <2>3, <2>4
<1>11. CASE Connect
  <2>1. connects = 0 /\ connects' = 1
    BY <1>1, <1>11 DEF Connect
  <2>2. /\ TypesIn(link'[R]) \subseteq {"SYN"}
        /\ SynsFirst(link'[R])
    BY <1>1, <1>2, <1>4, <1>11, <2>1, LinkSteps, TypesAfter
  <2>3. /\ state'[I] = "SYN_SENT" /\ state'[R] = "CLOSED" /\ event'[I] = "none"
        /\ ~ fin_acked'[R] /\ ~ peer_fin_acked'[R]
        /\ event'[R] = event[R] /\ event[R] \notin CameUp
    BY <1>1, <1>2, <1>3, <1>4, <1>11, <2>1 DEF Connect, OpeningInv, CameUp
  <2> QED  BY <2>1, <2>2, <2>3 DEF OpeningInv, Opened
<1>12. ASSUME NEW p \in Peers, Close(p)
       PROVE  OpeningInv'
  <2>1. CASE p = I
    <3>1. /\ TypesIn(link'[R]) \subseteq TypesIn(link[R]) \cup {"FIN"}
          /\ SynsFirst(link'[R])
      BY <1>2, <1>6, <1>12, <2>1, LinkSteps
    <3>2. connects # 0 /\ event[I] \in CameUp
      BY <1>4, <1>12, <2>1 DEF Close, Opened
    <3>3. InitiatorMove({"FIN"})
      BY <1>1, <1>2, <1>3, <1>12, <2>1, <3>1, <3>2
        DEF InitiatorMove, Close, boundVars
    <3> QED  BY <1>3, <3>3, InitiatorMoves
  <2>2. CASE p = R
    <3>1. TypesIn(link'[R]) = TypesIn(link[R]) /\ SynsFirst(link'[R])
      BY <1>2, <1>4, <1>12, <2>2, LinkSteps DEF Sends
    <3>2. connects # 0
      BY <1>4, <1>12, <2>2 DEF Close
    <3> QED  BY <1>1, <1>2, <1>3, <1>12, <2>2, <3>1, <3>2, ResponderMoves
             DEF Close, Opened, boundVars
  <2> QED  BY <1>2, <2>1, <2>2
<1>13. ASSUME NEW p \in Peers, NoteDataActivity(p) \/ Elapse \/ UNCHANGED vars
       PROVE  OpeningInv'
  <2>1. UNCHANGED <<link, state, fin_acked, peer_fin_acked, event, connects>>
    BY <1>13 DEF NoteDataActivity, Elapse, vars, machineVars, boundVars
  <2> QED  BY <1>3, <1>4, <2>1, NobodyMoves
<1> QED  BY <1>2, <1>7, <1>8, <1>9, <1>10, <1>11, <1>12, <1>13
         DEF Next, PeerStep, OnTick

LEMMA InitFirstSession == Init => FirstSession
<1> SUFFICES ASSUME Init PROVE FirstSession
  OBVIOUS
<1>1. \A p \in Peers : link[p] = << >> /\ TypesIn(link[p]) = {} /\ SynsFirst(link[p])
  BY DEF Init, TypesIn, SynsFirst
<1>2. OpeningInv
  BY <1>1, PeerFacts DEF Init, OpeningInv, Opened, CameUp
<1>3. ClosingInv
  BY <1>1, PeerFacts DEF Init, ClosingInv
<1>4. PendingFitsState
  BY FitsIsPendingFits DEF Init, Fits, States
<1> QED  BY <1>2, <1>3, <1>4 DEF FirstSession

LEMMA NextFirstSession ==
    ASSUME IInv, [Next]_vars, connects' <= 1
    PROVE  FirstSession'
<1>1. BaseInv /\ Typed /\ connects \in Nat
  BY TypedIsTypeOK, Bounds DEF IInv, BaseInv, Typed
<1>2. connects <= 1
  <2>1. connects' = connects \/ connects' = connects + 1
    BY DEF Next, PeerStep, Connect, Elapse, Close, NoteDataActivity, OnPacket, OnTick,
       OnSyn, OnSynAck, OnHandshakeAck, OnRepeatedSynAck, OnFin, OnFinAckInFinWait,
       OnFinInFinWait, OnFinAckInCloseWait, OnUseless, OnForeign, TickIdle, TickGiveUp,
       TickResend, TickHeartbeat, boundVars, vars
  <2> QED  BY <1>1, <2>1
<1>3. FirstSession
  BY <1>2 DEF IInv
<1>4. PendingFitsState'
  <2>1. \A p \in Peers : Fits(p)
    BY <1>1, <1>3, FitsIsPendingFits DEF FirstSession, Typed
  <2>2. (\A p \in Peers : Fits(p))'
    BY <1>1, <1>3, <2>1, PendingNext DEF FirstSession
  <2>3. state' \in [Peers -> States]
    BY <1>1, NextBase DEF BaseInv, TypeOK
  <2> QED  BY <2>2, <2>3, FitsIsPendingFitsNext
<1> QED  BY <1>1, <1>3, <1>4, OpeningNext, ClosingNext DEF FirstSession

(* The inductive invariant of the two state machines and the link.         *)
THEOREM InvariantHolds == Spec => []IInv
<1>1. Init => IInv
  BY InitBase, InitFirstSession DEF IInv
<1>2. IInv /\ [Next]_vars => IInv'
  BY NextBase, NextFirstSession DEF IInv
<1> QED  BY <1>1, <1>2, PTL DEF Spec

(* In the first session that connect opens, the packet a machine repeats   *)
(* is the one its state waits to have answered, and an established or      *)
(* closed one repeats none (_arm_pending, _clear_pending,                  *)
(* state_machine.py:49-62).  session_reconnect shows that a second connect *)
(* spoils it.                                                              *)
THEOREM PendingIsTheOneAwaited == Spec => [](connects <= 1 => PendingFitsState)
<1>1. IInv => (connects <= 1 => PendingFitsState)
  BY DEF IInv, FirstSession
<1> QED  BY <1>1, InvariantHolds, PTL

(* In the first session nobody comes up alone: the responder only after    *)
(* the initiator, and the initiator only with a responder that has adopted *)
(* its session id (on_packet, state_machine.py:322-359).                   *)
THEOREM NobodyUpAlone == Spec => [](connects <= 1 => HandshakeOrder)
<1>1. IInv => (connects <= 1 => HandshakeOrder)
  BY DEF IInv, FirstSession, BaseInv, NeedsId, Joined, OpeningInv, HandshakeOrder, CameUp
<1> QED  BY <1>1, InvariantHolds, PTL

(* However often connect is called: an initiator that came up, and a       *)
(* responder that is not closed, are of the session the initiator          *)
(* proposed; nobody ever comes up under an id of its own (on_packet,       *)
(* state_machine.py:307-326).                                              *)
THEOREM SessionIdIsAgreed ==
    Spec => [](event[Initiator] \in CameUp \/ state[Responder] # "CLOSED" =>
                 session_id[Responder] = session_id[Initiator])
<1>1. IInv => (event[Initiator] \in CameUp \/ state[Responder] # "CLOSED" =>
                 session_id[Responder] = session_id[Initiator])
  BY DEF IInv, BaseInv, NeedsId, Joined
<1> QED  BY <1>1, InvariantHolds, PTL

(* In the first session a peer that closes by agreement has acknowledged   *)
(* the other's FIN and had its own acknowledged, and the other no longer   *)
(* takes the session for established (on_packet, state_machine.py:377-432).*)
THEOREM ClosesTogether == Spec => [](connects <= 1 => CloseIsMutual)
<1>1. ASSUME IInv, connects <= 1 PROVE CloseIsMutual
  BY <1>1, PeerFacts DEF IInv, FirstSession, ClosingInv, CloseIsMutual
<1> QED  BY <1>1, InvariantHolds, PTL

-----------------------------------------------------------------------------
(* What a peer surfaces is the life cycle of a session.                    *)

(* What any step does to the state of peer r and to the event it surfaced. *)
LifeStep(r) ==
    LET s == state[r]
        t == state'[r]
        e == event'[r]
        Opening == {"SYN_SENT", "SYN_RCVD"}
        Closes == {"FIN_WAIT", "CLOSE_WAIT"}
    IN  \/ t = s /\ e = event[r]
        \/ s = "CLOSED" /\ t \in Opening /\ e = event[r]
        \/ s \in Opening /\ t = "ESTABLISHED" /\ e = "ESTABLISHED"
        \/ s \in Opening /\ t = "CLOSED" /\ e \in {"CONNECT_FAILED", "TIMED_OUT"}
        \/ s = "ESTABLISHED" /\ t \in Closes /\ e \in {event[r], "PEER_CLOSED"}
        \/ s = "ESTABLISHED" /\ t = "CLOSED" /\ e = "TIMED_OUT"
        \/ s \in Closes /\ t = "CLOSED" /\ e \in {"CLOSED", "TIMED_OUT"}

LEMMA LifeNext ==
    ASSUME Typed, \A p \in Peers : Fits(p), [Next]_vars, NEW r \in Peers
    PROVE  LifeStep(r)
<1> USE DEF LifeStep, Typed, Move, Surface, FinishClose
<1>1. ASSUME NEW p \in Peers, OnPacket(p) PROVE LifeStep(r)
  <2> USE DEF Accepts
  <2>1. CASE OnSyn(p)  BY <2>1 DEF OnSyn, OpensResponder
  <2>2. CASE OnSynAck(p)  BY <2>2 DEF OnSynAck
  <2>3. CASE OnHandshakeAck(p)  BY <2>3 DEF OnHandshakeAck
  <2>4. CASE OnFin(p)  BY <2>4 DEF OnFin
  <2>5. CASE OnFinAckInFinWait(p)  BY <2>5 DEF OnFinAckInFinWait
  <2>6. CASE OnFinInFinWait(p)  BY <2>6 DEF OnFinInFinWait
  <2>7. CASE OnFinAckInCloseWait(p)  BY <2>7 DEF OnFinAckInCloseWait
  <2>8. CASE OnRepeatedSynAck(p) \/ OnUseless(p) \/ OnForeign(p)
    BY <2>8 DEF OnRepeatedSynAck, OnUseless, OnForeign, machineVars
  <2> QED  BY <1>1, <2>1, <2>2, <2>3, <2>4, <2>5, <2>6, <2>7, <2>8 DEF OnPacket
<1>2. ASSUME NEW p \in Peers, OnTick(p) PROVE LifeStep(r)
  <2>1. CASE TickIdle(p)
    BY <2>1 DEF TickIdle, IdleExpired, States
  <2>2. CASE TickGiveUp(p)
    <3>1. state[p] \in {"SYN_SENT", "SYN_RCVD", "FIN_WAIT", "CLOSE_WAIT"}
      BY <2>2 DEF TickGiveUp, ControlDue, Fits, States
    <3> QED  BY <2>2, <3>1 DEF TickGiveUp
  <2>3. CASE TickResend(p) \/ TickHeartbeat(p)
    BY <2>3 DEF TickResend, TickHeartbeat, machineVars
  <2> QED  BY <1>2, <2>1, <2>2, <2>3 DEF OnTick
<1>3. CASE Connect
  BY <1>3, PeerFacts DEF Connect
<1>4. ASSUME NEW p \in Peers, Close(p) PROVE LifeStep(r)
  BY <1>4 DEF Close
<1>5. ASSUME NEW p \in Peers, NoteDataActivity(p) \/ Elapse \/ UNCHANGED vars
      PROVE  LifeStep(r)
  BY <1>5 DEF NoteDataActivity, Elapse, vars, machineVars
<1> QED  BY <1>1, <1>2, <1>3, <1>4, <1>5 DEF Next, PeerStep

LEMMA PhaseFacts ==
    Typed => \A r \in Peers :
        /\ Phase(r) \in {"down", "opening", "up", "closing"}
        /\ state[r] = "CLOSED" => Phase(r) = "down"
        /\ state[r] \in {"SYN_SENT", "SYN_RCVD"} => Phase(r) = "opening"
        /\ state[r] = "ESTABLISHED" => Phase(r) = "up"
        /\ state[r] \in {"FIN_WAIT", "CLOSE_WAIT"} => Phase(r) = "closing"
<1> SUFFICES ASSUME Typed, NEW r \in Peers
             PROVE  /\ Phase(r) \in {"down", "opening", "up", "closing"}
                    /\ state[r] = "CLOSED" => Phase(r) = "down"
                    /\ state[r] \in {"SYN_SENT", "SYN_RCVD"} => Phase(r) = "opening"
                    /\ state[r] = "ESTABLISHED" => Phase(r) = "up"
                    /\ state[r] \in {"FIN_WAIT", "CLOSE_WAIT"} => Phase(r) = "closing"
  OBVIOUS
<1>1. state[r] \in States
  BY DEF Typed
<1>2. CASE state[r] = "CLOSED"  BY <1>2 DEF Phase
<1>3. CASE state[r] \in {"SYN_SENT", "SYN_RCVD"}  BY <1>3 DEF Phase
<1>4. CASE state[r] = "ESTABLISHED"  BY <1>4 DEF Phase
<1>5. CASE state[r] \in {"FIN_WAIT", "CLOSE_WAIT"}  BY <1>5 DEF Phase
<1> QED  BY <1>1, <1>2, <1>3, <1>4, <1>5 DEF States

LEMMA PhaseFactsNext ==
    (Typed => \A r \in Peers :
        /\ Phase(r) \in {"down", "opening", "up", "closing"}
        /\ state[r] = "CLOSED" => Phase(r) = "down"
        /\ state[r] \in {"SYN_SENT", "SYN_RCVD"} => Phase(r) = "opening"
        /\ state[r] = "ESTABLISHED" => Phase(r) = "up"
        /\ state[r] \in {"FIN_WAIT", "CLOSE_WAIT"} => Phase(r) = "closing")'
  BY PhaseFacts, PTL

(* The same in terms of phases.                                            *)
LEMMA PhaseStep ==
    ASSUME Typed, Typed', NEW r \in Peers, LifeStep(r)
    PROVE  LET s == Phase(r)
               t == Phase(r)'
               e == event[r]'
           IN  \/ t = s /\ e = event[r]
               \/ s = "down" /\ t = "opening" /\ e = event[r]
               \/ s = "opening" /\ t = "up" /\ e = "ESTABLISHED"
               \/ s = "opening" /\ t = "down" /\ e \in {"CONNECT_FAILED", "TIMED_OUT"}
               \/ s = "up" /\ t = "closing" /\ (e = event[r] \/ e = "PEER_CLOSED")
               \/ s = "up" /\ t = "down" /\ e = "TIMED_OUT"
               \/ s = "closing" /\ t = "down" /\ e \in {"CLOSED", "TIMED_OUT"}
<1>1. /\ state[r] = "CLOSED" => Phase(r) = "down"
      /\ state[r] \in {"SYN_SENT", "SYN_RCVD"} => Phase(r) = "opening"
      /\ state[r] = "ESTABLISHED" => Phase(r) = "up"
      /\ state[r] \in {"FIN_WAIT", "CLOSE_WAIT"} => Phase(r) = "closing"
  BY PhaseFacts
<1>2. /\ state'[r] = "CLOSED" => Phase(r)' = "down"
      /\ state'[r] \in {"SYN_SENT", "SYN_RCVD"} => Phase(r)' = "opening"
      /\ state'[r] = "ESTABLISHED" => Phase(r)' = "up"
      /\ state'[r] \in {"FIN_WAIT", "CLOSE_WAIT"} => Phase(r)' = "closing"
  BY PhaseFactsNext
<1>3. state'[r] = state[r] => Phase(r)' = Phase(r)
  BY DEF Phase
<1> QED  BY <1>1, <1>2, <1>3 DEF LifeStep

(* In the first session what either peer surfaces follows the life cycle   *)
(* of a session (SessionLifecycle): one verdict for each attempt to open,  *)
(* and nothing from a session that is down (on_packet, on_tick).           *)
THEOREM LifecycleRefinement == Spec /\ [](connects <= 1) => Lifecycles
<1>1. Init => InitiatorLife!Init /\ ResponderLife!Init
  BY PeerFacts DEF Init, InitiatorLife!Init, ResponderLife!Init, Phase
<1>2. ASSUME IInv, IInv', connects <= 1, [Next]_vars
      PROVE  /\ [InitiatorLife!Next]_(InitiatorLife!vars)
             /\ [ResponderLife!Next]_(ResponderLife!vars)
  <2>1. Typed /\ Typed'
    BY <1>2, TypedIsTypeOK, TypedIsTypeOKNext DEF IInv, BaseInv
  <2>2. \A p \in Peers : Fits(p)
    BY <1>2, <2>1, FitsIsPendingFits DEF IInv, FirstSession, Typed
  <2>3. \A r \in Peers : LifeStep(r)
    BY <1>2, <2>1, <2>2, LifeNext
  <2>4. Initiator \in Peers /\ Responder \in Peers
    BY PeerFacts
  <2>5. [InitiatorLife!Next]_(InitiatorLife!vars)
    BY <2>1, <2>3, <2>4, PhaseStep
       DEF InitiatorLife!Next, InitiatorLife!vars, InitiatorLife!Open,
           InitiatorLife!ComeUp, InitiatorLife!FailToOpen, InitiatorLife!Close,
           InitiatorLife!PeerClose, InitiatorLife!Die, InitiatorLife!FinishClosing
  <2>6. [ResponderLife!Next]_(ResponderLife!vars)
    BY <2>1, <2>3, <2>4, PhaseStep
       DEF ResponderLife!Next, ResponderLife!vars, ResponderLife!Open,
           ResponderLife!ComeUp, ResponderLife!FailToOpen, ResponderLife!Close,
           ResponderLife!PeerClose, ResponderLife!Die, ResponderLife!FinishClosing
  <2> QED  BY <2>5, <2>6
<1> QED  BY <1>1, <1>2, InvariantHolds, PTL
         DEF Spec, Lifecycles, InitiatorLife!Spec, ResponderLife!Spec

-----------------------------------------------------------------------------
(* A session in time.  TimelySpec lets time pass only when both hosts have *)
(* done what was due and everything sent has arrived.                      *)

(* What it takes: heartbeats more often than the idle timeout, and a link  *)
(* with room for three frames that loses none and repeats none.            *)
Timely == HeartbeatInterval < IdleTimeout /\ Copies = {1} /\ MaxInFlight >= 3

(* A peer's part in a session: its state, what it knows of the close, and  *)
(* the packet that is armed.                                               *)
Part(p, s, fin, peer_fin, pending) ==
    /\ state[p] = s /\ pending_ctrl[p] = pending
    /\ fin_acked[p] = fin /\ peer_fin_acked[p] = peer_fin

F(type) == [type |-> type, sid |-> ProposedId]
One(type) == << F(type) >>
Two(first, second) == << F(first), F(second) >>

(* A heartbeat may precede what else is on its way to p.                   *)
Holds(p, frames) ==
    \/ link[p] = frames
    \/ link[p] # << >> /\ Head(link[p]) = F("HEARTBEAT") /\ Tail(link[p]) = frames

(* The course of a session in time: its beginning, ...                     *)
Closed ==
    /\ \A p \in Peers : Part(p, "CLOSED", FALSE, FALSE, NoPacket) /\ link[p] = << >>
    /\ recv_age[Initiator] = Unset

Asking ==
    /\ Part(Initiator, "SYN_SENT", FALSE, FALSE, "SYN")
    /\ Part(Responder, "CLOSED", FALSE, FALSE, NoPacket)
    /\ link[Responder] = One("SYN") /\ link[Initiator] = << >>

Answering ==
    /\ Part(Initiator, "SYN_SENT", FALSE, FALSE, "SYN")
    /\ Part(Responder, "SYN_RCVD", FALSE, FALSE, "SYN_ACK")
    /\ link[Responder] = << >> /\ link[Initiator] = One("SYN_ACK")

Completing ==
    /\ \/ /\ Part(Initiator, "ESTABLISHED", FALSE, FALSE, NoPacket)
          /\ link[Responder] = One("ACK")
       \/ /\ Part(Initiator, "FIN_WAIT", FALSE, FALSE, "FIN")
          /\ link[Responder] = Two("ACK", "FIN")
    /\ Part(Responder, "SYN_RCVD", FALSE, FALSE, "SYN_ACK")
    /\ link[Initiator] = << >>

Up == \A p \in Peers : Part(p, "ESTABLISHED", FALSE, FALSE, NoPacket) /\ Holds(p, << >>)

(* ... one peer, p, that closes, ...                                       *)
FinSent(p) ==
    /\ Part(p, "FIN_WAIT", FALSE, FALSE, "FIN") /\ Holds(p, << >>)
    /\ Part(Peer(p), "ESTABLISHED", FALSE, FALSE, NoPacket) /\ Holds(Peer(p), One("FIN"))

FinAnswered(p) ==
    /\ \/ Part(p, "FIN_WAIT", FALSE, FALSE, "FIN") /\ Holds(p, Two("FIN_ACK", "FIN"))
       \/ Part(p, "FIN_WAIT", TRUE, FALSE, NoPacket) /\ link[p] = One("FIN")
    /\ Part(Peer(p), "CLOSE_WAIT", FALSE, TRUE, "FIN") /\ link[Peer(p)] = << >>

(* ... both that do, p the first to hear of it, ...                        *)
FinsCross ==
    \A p \in Peers : Part(p, "FIN_WAIT", FALSE, FALSE, "FIN") /\ Holds(p, One("FIN"))

FinHeard(p) ==
    /\ Part(p, "FIN_WAIT", FALSE, TRUE, "FIN") /\ link[p] = << >>
    /\ Part(Peer(p), "FIN_WAIT", FALSE, FALSE, "FIN") /\ Holds(Peer(p), Two("FIN", "FIN_ACK"))

FinsHeard ==
    \A p \in Peers : Part(p, "FIN_WAIT", FALSE, TRUE, "FIN") /\ link[p] = One("FIN_ACK")

(* ... and the end: p is done, or both are.                                *)
LastAck(p) ==
    /\ Part(p, "CLOSED", TRUE, TRUE, NoPacket) /\ link[p] = << >>
    /\ \E s \in {"FIN_WAIT", "CLOSE_WAIT"} : Part(Peer(p), s, FALSE, TRUE, "FIN")
    /\ link[Peer(p)] = One("FIN_ACK")

Over == \A p \in Peers : Part(p, "CLOSED", TRUE, TRUE, NoPacket) /\ link[p] = << >>

Course ==
    \/ Closed \/ Asking \/ Answering \/ Completing \/ Up
    \/ \E p \in Peers : FinSent(p) \/ FinAnswered(p) \/ FinHeard(p) \/ LastAck(p)
    \/ FinsCross \/ FinsHeard \/ Over

(* What is on the link was sent in this unit of time, and what is armed is *)
(* answered within it; what was received is at most as old as what the     *)
(* other has sent, and not older than a heartbeat.                         *)
InTime ==
    \A p \in Peers :
        /\ link[Peer(p)] # << >> => send_age[p] = 0
        /\ pending_ctrl[p] # NoPacket => ctrl_age[p] = 0
        /\ state[p] # "CLOSED" => recv_age[p] <= HeartbeatInterval /\ send_age[p] # Unset
        /\ /\ state[p] = "ESTABLISHED" /\ link[p] = << >>
           /\ state[Peer(p)] \in {"ESTABLISHED", "SYN_RCVD"}
           => recv_age[p] <= send_age[Peer(p)]

Surfaced ==
    \A p \in Peers :
        \/ event[p] \in {"none", "ESTABLISHED", "PEER_CLOSED"}
        \/ event[p] = "CLOSED" /\ agreed[p] /\ state[p] = "CLOSED" /\ fin_acked[p]

OnCourse == Course /\ InTime /\ Surfaced

TimelyInv == connects <= 1 => OnCourse

LEMMA FrameFacts ==
    \A type \in ControlTypes :
        /\ F(type) \in Frame /\ F(type).type = type /\ F(type).sid = ProposedId
  BY DEF F, Frame

LEMMA QueueFacts ==
    ASSUME NEW a \in ControlTypes, NEW b \in ControlTypes
    PROVE  /\ One(a) # << >> /\ Head(One(a)) = F(a) /\ Tail(One(a)) = << >>
           /\ Two(a, b) # << >> /\ Head(Two(a, b)) = F(a) /\ Tail(Two(a, b)) = One(b)
           /\ Append(<< >>, F(a)) = One(a) /\ Append(One(a), F(b)) = Two(a, b)
           /\ One(a) \in Seq(Frame) /\ Len(One(a)) = 1
           /\ Two(a, b) \in Seq(Frame) /\ Len(Two(a, b)) = 2
<1> DEFINE x == F(a)
           y == F(b)
<1>1. x \in Frame /\ y \in Frame
  BY FrameFacts
<1>2. One(a) = << x >> /\ Two(a, b) = << x, y >> /\ One(b) = << y >>
  BY DEF One, Two
<1> HIDE DEF x, y
<1>3. /\ << x >> # << >> /\ Head(<< x >>) = x /\ Tail(<< x >>) = << >>
      /\ << x, y >> # << >> /\ Head(<< x, y >>) = x
      /\ << x >> \in Seq(Frame) /\ Len(<< x >>) = 1 /\ Append(<< >>, x) = << x >>
      /\ << x, y >> \in Seq(Frame) /\ Len(<< x, y >>) = 2
  BY <1>1
<1>4. Tail(<< x, y >>) = << y >>
  BY <1>1
<1>5. Append(<< x >>, y) = << x, y >>
  <2> DEFINE s == Append(<< x >>, y)
             t == << x, y >>
  <2>1. s \in Seq(Frame) /\ Len(s) = 2 /\ s[1] = x /\ s[2] = y
    BY <1>1
  <2>2. t \in Seq(Frame) /\ Len(t) = 2 /\ t[1] = x /\ t[2] = y
    BY <1>1
  <2> HIDE DEF s, t
  <2>3. s = [i \in 1 .. 2 |-> s[i]] /\ t = [i \in 1 .. 2 |-> t[i]]
    BY <2>1, <2>2
  <2>4. \A i \in 1 .. 2 : s[i] = t[i]
    BY <2>1, <2>2
  <2>5. s = t
    BY <2>3, <2>4
  <2> QED  BY <2>5 DEF s, t
<1> QED  BY <1>2, <1>3, <1>4, <1>5 DEF x, y

(* Behind a heartbeat frames are added and taken as without it.            *)
LEMMA BehindHead ==
    ASSUME NEW q \in Seq(Frame), q # << >>, NEW f \in Frame
    PROVE  /\ Append(q, f) # << >> /\ Head(Append(q, f)) = Head(q)
           /\ Tail(Append(q, f)) = Append(Tail(q), f)
           /\ Len(q) = Len(Tail(q)) + 1 /\ Tail(q) \in Seq(Frame)
<1> DEFINE n == Len(q)
           r == Append(q, f)
           s == Tail(q)
           t == Append(s, f)
<1>1. n \in Nat /\ n # 0 /\ r \in Seq(Frame) /\ Len(r) = n + 1 /\ r[n + 1] = f
      /\ \A i \in 1 .. n : r[i] = q[i]
  OBVIOUS
<1>2. s \in Seq(Frame) /\ Len(s) = n - 1 /\ \A i \in 1 .. n - 1 : s[i] = q[i + 1]
  OBVIOUS
<1>3. t \in Seq(Frame) /\ Len(t) = n /\ t[n] = f /\ \A i \in 1 .. n - 1 : t[i] = s[i]
  <2> HIDE DEF s
  <2>1. t \in Seq(Frame) /\ Len(t) = Len(s) + 1 /\ t[Len(s) + 1] = f
        /\ \A i \in 1 .. Len(s) : t[i] = s[i]
    BY <1>2
  <2>2. Len(s) + 1 = n /\ Len(s) = n - 1
    BY <1>1, <1>2
  <2> QED  BY <2>1, <2>2
<1>4. Head(r) = r[1] /\ Head(q) = q[1] /\ 1 \in 1 .. n
  <2>1. r # << >> /\ Head(q) = q[1] /\ 1 \in 1 .. n
    BY <1>1
  <2> HIDE DEF r
  <2> QED  BY <1>1, <2>1
<1>5. Tail(r) = t
  <2> DEFINE u == Tail(r)
  <2>1. u \in Seq(Frame) /\ Len(u) = n /\ \A i \in 1 .. n : u[i] = r[i + 1]
    <3> HIDE DEF r
    <3> QED  BY <1>1
  <2> HIDE DEF r, s, t, u
  <2>2. \A i \in 1 .. n : u[i] = t[i]
    <3>1. ASSUME NEW i \in 1 .. n PROVE u[i] = t[i]
      <4>1. CASE i = n  BY <1>1, <1>3, <2>1, <4>1
      <4>2. CASE i # n
        <5>1. i \in 1 .. n - 1 /\ i + 1 \in 1 .. n
          BY <1>1, <4>2
        <5> QED  BY <1>1, <1>2, <1>3, <2>1, <5>1
      <4> QED  BY <4>1, <4>2
    <3> QED  BY <3>1
  <2>3. u = [i \in 1 .. n |-> u[i]] /\ t = [i \in 1 .. n |-> t[i]]
    BY <1>3, <2>1
  <2>4. u = t
    BY <2>2, <2>3
  <2> QED  BY <2>4 DEF u
<1>6. Head(r) = Head(q)
  BY <1>1, <1>4
<1>7. r # << >>
  BY <1>1
<1>8. n = Len(s) + 1
  <2> HIDE DEF s
  <2> QED  BY <1>1, <1>2
<1> QED  BY <1>2, <1>5, <1>6, <1>7, <1>8

(* What is sent arrives once, behind what is there.                        *)
LEMMA SentInTime ==
    ASSUME Timely, NEW q \in Seq(Frame), Len(q) <= 2, NEW type \in ControlTypes,
           NEW new \in Sent(q, type, ProposedId)
    PROVE  new = Append(q, F(type)) /\ new \in Seq(Frame) /\ Len(new) = Len(q) + 1
<1> DEFINE f == F(type)
           l == Len(q)
           all == q \o << f >>
           m == Min({l + 1, MaxInFlight})
<1>1. l \in Nat /\ MaxInFlight \in Nat /\ l + 1 <= MaxInFlight /\ f \in Frame
  BY SessionAssumption, FrameFacts DEF Timely
<1>2. m = l + 1
  <2> HIDE DEF l
  <2>1. \E z \in {l + 1, MaxInFlight} : \A t \in {l + 1, MaxInFlight} : z <= t
    BY <1>1
  <2>2. m \in {l + 1, MaxInFlight} /\ m <= l + 1 /\ m <= MaxInFlight
    BY <2>1 DEF Min
  <2> QED  BY <1>1, <2>2
<1>3. [c \in 1 .. 1 |-> [type |-> type, sid |-> ProposedId]] = << f >>
  <2>1. f = [type |-> type, sid |-> ProposedId]
    BY DEF F
  <2> HIDE DEF f
  <2> QED  BY <2>1
<1>4. new = SubSeq(all, 1, m)
  <2>1. 1 \in Copies /\ \A n \in Copies : n = 1
    BY DEF Timely
  <2> HIDE DEF f
  <2> QED  BY <1>3, <2>1 DEF Sent
<1>5. all = Append(q, f) /\ all \in Seq(Frame) /\ Len(all) = l + 1
  <2> HIDE DEF f
  <2> QED  BY <1>1
<1>6. SubSeq(all, 1, l + 1) = all
  <2> HIDE DEF all, l
  <2> QED  BY <1>1, <1>5
<1> QED  BY <1>2, <1>4, <1>5, <1>6

LEMMA Queues ==
    /\ << >> \in Seq(Frame) /\ Len(<< >>) = 0
    /\ \A a, b \in ControlTypes :
          /\ F(a) \in Frame /\ F(a).type = a /\ F(a).sid = ProposedId
          /\ One(a) # << >> /\ Head(One(a)) = F(a) /\ Tail(One(a)) = << >>
          /\ Two(a, b) # << >> /\ Head(Two(a, b)) = F(a) /\ Tail(Two(a, b)) = One(b)
          /\ Append(<< >>, F(a)) = One(a) /\ Append(One(a), F(b)) = Two(a, b)
          /\ One(a) \in Seq(Frame) /\ Len(One(a)) = 1
          /\ Two(a, b) \in Seq(Frame) /\ Len(Two(a, b)) = 2
  BY QueueFacts, FrameFacts

(* What is sent in the course of a session, and the inboxes it fills.      *)
LEMMA Frames ==
    /\ "SYN" \in ControlTypes /\ F("SYN") \in Frame /\ F("SYN").type = "SYN"
    /\ "SYN_ACK" \in ControlTypes /\ F("SYN_ACK") \in Frame /\ F("SYN_ACK").type = "SYN_ACK"
    /\ "ACK" \in ControlTypes /\ F("ACK") \in Frame /\ F("ACK").type = "ACK"
    /\ "FIN" \in ControlTypes /\ F("FIN") \in Frame /\ F("FIN").type = "FIN"
    /\ "FIN_ACK" \in ControlTypes /\ F("FIN_ACK") \in Frame /\ F("FIN_ACK").type = "FIN_ACK"
    /\ "HEARTBEAT" \in ControlTypes /\ F("HEARTBEAT") \in Frame /\ F("HEARTBEAT").type = "HEARTBEAT"
  BY FrameFacts DEF ControlTypes

LEMMA Singles ==
    /\ << >> \in Seq(Frame) /\ Len(<< >>) = 0
    /\ One("SYN") # << >> /\ Head(One("SYN")) = F("SYN") /\ Tail(One("SYN")) = << >>
    /\ Append(<< >>, F("SYN")) = One("SYN") /\ One("SYN") \in Seq(Frame) /\ Len(One("SYN")) = 1
    /\ One("SYN_ACK") # << >> /\ Head(One("SYN_ACK")) = F("SYN_ACK") /\ Tail(One("SYN_ACK")) = << >>
    /\ Append(<< >>, F("SYN_ACK")) = One("SYN_ACK") /\ One("SYN_ACK") \in Seq(Frame) /\ Len(One("SYN_ACK")) = 1
    /\ One("ACK") # << >> /\ Head(One("ACK")) = F("ACK") /\ Tail(One("ACK")) = << >>
    /\ Append(<< >>, F("ACK")) = One("ACK") /\ One("ACK") \in Seq(Frame) /\ Len(One("ACK")) = 1
    /\ One("FIN") # << >> /\ Head(One("FIN")) = F("FIN") /\ Tail(One("FIN")) = << >>
    /\ Append(<< >>, F("FIN")) = One("FIN") /\ One("FIN") \in Seq(Frame) /\ Len(One("FIN")) = 1
    /\ One("FIN_ACK") # << >> /\ Head(One("FIN_ACK")) = F("FIN_ACK") /\ Tail(One("FIN_ACK")) = << >>
    /\ Append(<< >>, F("FIN_ACK")) = One("FIN_ACK") /\ One("FIN_ACK") \in Seq(Frame) /\ Len(One("FIN_ACK")) = 1
    /\ One("HEARTBEAT") # << >> /\ Head(One("HEARTBEAT")) = F("HEARTBEAT") /\ Tail(One("HEARTBEAT")) = << >>
    /\ Append(<< >>, F("HEARTBEAT")) = One("HEARTBEAT")
  BY Queues DEF ControlTypes

LEMMA Pairs ==
    /\ Two("ACK", "FIN") # << >> /\ Head(Two("ACK", "FIN")) = F("ACK")
    /\ Tail(Two("ACK", "FIN")) = One("FIN") /\ Append(One("ACK"), F("FIN")) = Two("ACK", "FIN")
    /\ Two("ACK", "FIN") \in Seq(Frame) /\ Len(Two("ACK", "FIN")) = 2
    /\ Two("FIN", "FIN_ACK") # << >> /\ Head(Two("FIN", "FIN_ACK")) = F("FIN")
    /\ Tail(Two("FIN", "FIN_ACK")) = One("FIN_ACK") /\ Append(One("FIN"), F("FIN_ACK")) = Two("FIN", "FIN_ACK")
    /\ Two("FIN", "FIN_ACK") \in Seq(Frame) /\ Len(Two("FIN", "FIN_ACK")) = 2
    /\ Two("FIN_ACK", "FIN") # << >> /\ Head(Two("FIN_ACK", "FIN")) = F("FIN_ACK")
    /\ Tail(Two("FIN_ACK", "FIN")) = One("FIN") /\ Append(One("FIN_ACK"), F("FIN")) = Two("FIN_ACK", "FIN")
    /\ Two("FIN_ACK", "FIN") \in Seq(Frame) /\ Len(Two("FIN_ACK", "FIN")) = 2
  BY Queues DEF ControlTypes

LEMMA HeldFrames ==
    ASSUME NEW p \in Peers, link[p] \in Seq(Frame), NEW s \in Seq(Frame), Holds(p, s)
    PROVE  Len(link[p]) <= Len(s) + 1
<1>1. CASE link[p] = s  BY <1>1
<1>2. CASE link[p] # << >> /\ Tail(link[p]) = s
  BY <1>2, BehindHead, FrameFacts DEF ControlTypes
<1> QED  BY <1>1, <1>2 DEF Holds

LEMMA HoldsMore ==
    ASSUME NEW p \in Peers, link[p] \in Seq(Frame), NEW s \in Seq(Frame), Holds(p, s),
           NEW f \in Frame, link'[p] = Append(link[p], f)
    PROVE  Holds(p, Append(s, f))'
<1>1. CASE link[p] = s  BY <1>1 DEF Holds
<1>2. CASE link[p] # << >> /\ Head(link[p]) = F("HEARTBEAT") /\ Tail(link[p]) = s
  <2> DEFINE q == link[p]
             r == link'[p]
  <2>1. q \in Seq(Frame) /\ q # << >> /\ r = Append(q, f)
    BY <1>2
  <2> HIDE DEF q, r
  <2>2. r # << >> /\ Head(r) = Head(q) /\ Tail(r) = Append(Tail(q), f)
    BY <2>1, BehindHead
  <2>3. link'[p] # << >> /\ Head(link'[p]) = F("HEARTBEAT") /\ Tail(link'[p]) = Append(s, f)
    BY <1>2, <2>2 DEF q, r
  <2> QED  BY <2>3 DEF Holds
<1> QED  BY <1>1, <1>2 DEF Holds

(* What a step in time does to the inboxes.                                *)
LEMMA SendsInTime ==
    ASSUME Timely, BaseInv, NEW p \in Peers, state[p] # "CLOSED" \/ p = Initiator,
           NEW type \in ControlTypes, Len(link[Peer(p)]) <= 2, Transmit(p, type)
    PROVE  /\ link'[p] = link[p]
           /\ link'[Peer(p)] = Append(link[Peer(p)], F(type))
<1>1. /\ link \in [Peers -> Seq(Frame)] /\ session_id[p] = ProposedId
      /\ Peer(p) \in Peers /\ Peer(p) # p
  BY PeerFacts DEF BaseInv, NeedsId, Joined
<1>2. PICK new \in Sent(link[Peer(p)], type, ProposedId) :
        link' = [link EXCEPT ![Peer(p)] = new]
  BY <1>1 DEF Transmit
<1>3. new = Append(link[Peer(p)], F(type))
  BY <1>1, SentInTime
<1> QED  BY <1>1, <1>2, <1>3

LEMMA AnswersInTime ==
    ASSUME Timely, BaseInv, NEW p \in Peers, link[p] # << >>,
           NEW type \in ControlTypes, Len(link[Peer(p)]) <= 2, Answer(p, type)
    PROVE  /\ link'[p] = Tail(link[p])
           /\ link'[Peer(p)] = Append(link[Peer(p)], F(type))
<1>1. /\ link \in [Peers -> Seq(Frame)] /\ Head(link[p]).sid = ProposedId
      /\ Peer(p) \in Peers /\ Peer(p) # p
  BY PeerFacts, HeadFacts DEF BaseInv
<1>2. PICK new \in Sent(link[Peer(p)], type, ProposedId) :
        link' = [link EXCEPT ![p] = Tail(@), ![Peer(p)] = new]
  BY <1>1 DEF Answer
<1>3. new = Append(link[Peer(p)], F(type))
  BY <1>1, SentInTime
<1> QED  BY <1>1, <1>2, <1>3

LEMMA AnswersBothInTime ==
    ASSUME Timely, BaseInv, NEW p \in Peers, link[p] # << >>,
           NEW a \in ControlTypes, NEW b \in ControlTypes, Len(link[Peer(p)]) <= 1,
           AnswerBoth(p, a, b)
    PROVE  /\ link'[p] = Tail(link[p])
           /\ link'[Peer(p)] = Append(Append(link[Peer(p)], F(a)), F(b))
<1>1. /\ link \in [Peers -> Seq(Frame)] /\ Head(link[p]).sid = ProposedId
      /\ Peer(p) \in Peers /\ Peer(p) # p
  BY PeerFacts, HeadFacts DEF BaseInv
<1>2. PICK f \in Sent(link[Peer(p)], a, ProposedId) :
        \E q \in Sent(f, b, ProposedId) :
            link' = [link EXCEPT ![p] = Tail(@), ![Peer(p)] = q]
  BY <1>1 DEF AnswerBoth
<1>3. PICK q \in Sent(f, b, ProposedId) :
        link' = [link EXCEPT ![p] = Tail(@), ![Peer(p)] = q]
  BY <1>2
<1>4. f = Append(link[Peer(p)], F(a)) /\ f \in Seq(Frame) /\ Len(f) <= 2
  BY <1>1, SentInTime
<1>5. q = Append(f, F(b))
  BY <1>4, SentInTime
<1> QED  BY <1>1, <1>3, <1>4, <1>5

LEMMA TakesInTime ==
    ASSUME BaseInv, NEW p \in Peers, Consume(p)
    PROVE  link'[p] = Tail(link[p]) /\ link'[Peer(p)] = link[Peer(p)]
  BY PeerFacts DEF BaseInv, Consume

(* Where a session is when a frame of some type is at the head of an inbox.*)
Leads(p, type) == link[p] # << >> /\ Head(link[p]) = F(type)

AtHead(p) ==
    LET q == Peer(p)
    IN  \/ Leads(p, "SYN") /\ Asking /\ p = Responder
        \/ Leads(p, "SYN_ACK") /\ Answering /\ p = Initiator
        \/ Leads(p, "ACK") /\ Completing /\ p = Responder
        \/ Leads(p, "FIN") /\ link[p] = One("FIN") /\ (FinSent(q) \/ FinAnswered(p) \/ FinsCross)
        \/ Leads(p, "FIN") /\ link[p] = Two("FIN", "FIN_ACK") /\ FinHeard(q)
        \/ Leads(p, "FIN_ACK") /\ link[p] = Two("FIN_ACK", "FIN") /\ FinAnswered(p)
        \/ Leads(p, "FIN_ACK") /\ link[p] = One("FIN_ACK") /\ (FinsHeard \/ LastAck(q))
        \/ /\ Leads(p, "HEARTBEAT")
           /\ \/ Tail(link[p]) = << >> /\ (Up \/ FinSent(p))
              \/ Tail(link[p]) = One("FIN") /\ (FinSent(q) \/ FinsCross)
              \/ Tail(link[p]) = Two("FIN_ACK", "FIN") /\ FinAnswered(p)
              \/ Tail(link[p]) = Two("FIN", "FIN_ACK") /\ FinHeard(q)

LEMMA HeadTells ==
    ASSUME Course, NEW p \in Peers, link[p] # << >>
    PROVE  AtHead(p)
<1> DEFINE q == Peer(p)
<1>1. /\ p \in {Initiator, Responder} /\ Initiator # Responder
      /\ Peers = {Initiator, Responder} /\ Initiator \in Peers /\ Responder \in Peers
      /\ q \in Peers /\ q # p /\ Peer(q) = p /\ \A r \in Peers : r = p \/ r = q
  BY PeerFacts
<1> HIDE DEF q
<1>2. CASE Closed  BY <1>1, <1>2 DEF Closed
<1>3. CASE Asking  BY <1>1, <1>3, Frames, Singles, Pairs DEF Asking, AtHead, Leads
<1>4. CASE Answering  BY <1>1, <1>4, Frames, Singles, Pairs DEF Answering, AtHead, Leads
<1>5. CASE Completing
  BY <1>1, <1>5, Frames, Singles, Pairs DEF Completing, AtHead, Leads
<1>6. CASE Up  BY <1>1, <1>6 DEF Up, Holds, AtHead, Leads
<1>7. ASSUME NEW r \in Peers, FinSent(r) PROVE AtHead(p)
  <2>1. CASE r = p
    <3>1. Holds(p, << >>)  BY <1>7, <2>1 DEF FinSent
    <3> QED  BY <1>7, <2>1, <3>1 DEF Holds, AtHead, Leads
  <2>2. CASE r = q
    <3>1. Holds(p, One("FIN"))  BY <1>1, <1>7, <2>2 DEF FinSent
    <3> QED  BY <1>7, <2>2, <3>1, Frames, Singles, Pairs DEF Holds, AtHead, Leads, q
  <2> QED  BY <1>1, <2>1, <2>2
<1>8. ASSUME NEW r \in Peers, FinAnswered(r) PROVE AtHead(p)
  <2>1. r = p  BY <1>1, <1>8 DEF FinAnswered
  <2>2. Holds(p, Two("FIN_ACK", "FIN")) \/ link[p] = One("FIN")
    BY <1>8, <2>1 DEF FinAnswered
  <2> QED  BY <1>8, <2>1, <2>2, Frames, Singles, Pairs DEF Holds, AtHead, Leads
<1>9. CASE FinsCross
  <2>1. Holds(p, One("FIN"))  BY <1>9 DEF FinsCross
  <2> QED  BY <1>9, <2>1, Frames, Singles, Pairs DEF Holds, AtHead, Leads
<1>10. ASSUME NEW r \in Peers, FinHeard(r) PROVE AtHead(p)
  <2>1. r = q  BY <1>1, <1>10 DEF FinHeard
  <2>2. Holds(p, Two("FIN", "FIN_ACK"))  BY <1>1, <1>10, <2>1 DEF FinHeard
  <2> QED  BY <1>10, <2>1, <2>2, Frames, Singles, Pairs DEF Holds, AtHead, Leads, q
<1>11. CASE FinsHeard
  BY <1>11, Frames, Singles, Pairs DEF FinsHeard, AtHead, Leads
<1>12. ASSUME NEW r \in Peers, LastAck(r) PROVE AtHead(p)
  <2>1. r = q  BY <1>1, <1>12 DEF LastAck
  <2>2. link[p] = One("FIN_ACK")  BY <1>1, <1>12, <2>1 DEF LastAck
  <2> QED  BY <1>12, <2>1, <2>2, Frames, Singles, Pairs DEF AtHead, Leads, q
<1>13. CASE Over  BY <1>13 DEF Over
<1> QED  BY <1>2, <1>3, <1>4, <1>5, <1>6, <1>7, <1>8, <1>9, <1>10, <1>11, <1>12, <1>13
         DEF Course

LEMMA TypeTells ==
    ASSUME Course, NEW p \in Peers, link[p] # << >>
    PROVE  /\ \E type \in {"SYN", "SYN_ACK", "ACK", "FIN", "FIN_ACK", "HEARTBEAT"} :
                 Leads(p, type) /\ Head(link[p]).type = type
           /\ Head(link[p]).type = "SYN" => Asking /\ p = Responder
           /\ Head(link[p]).type = "SYN_ACK" => Answering /\ p = Initiator
           /\ Head(link[p]).type = "ACK" => Completing /\ p = Responder
           /\ Head(link[p]).type = "FIN" =>
                 \/ link[p] = One("FIN") /\ (FinSent(Peer(p)) \/ FinAnswered(p) \/ FinsCross)
                 \/ link[p] = Two("FIN", "FIN_ACK") /\ FinHeard(Peer(p))
           /\ Head(link[p]).type = "FIN_ACK" =>
                 \/ link[p] = Two("FIN_ACK", "FIN") /\ FinAnswered(p)
                 \/ link[p] = One("FIN_ACK") /\ (FinsHeard \/ LastAck(Peer(p)))
<1>1. AtHead(p)
  BY HeadTells
<1>2. \A type \in {"SYN", "SYN_ACK", "ACK", "FIN", "FIN_ACK", "HEARTBEAT"} :
         Leads(p, type) => Head(link[p]).type = type
  BY Frames DEF Leads
<1> QED  BY <1>1, <1>2 DEF AtHead

LEMMA ClosingStates ==
    ASSUME NEW p \in Peers
    PROVE  /\ FinSent(Peer(p)) => state[p] = "ESTABLISHED"
           /\ FinAnswered(p) \/ FinsCross \/ FinHeard(Peer(p)) => state[p] = "FIN_WAIT"
           /\ FinsHeard \/ LastAck(Peer(p)) => state[p] \in {"FIN_WAIT", "CLOSE_WAIT"}
<1>1. Peer(p) \in Peers /\ Peer(Peer(p)) = p
  BY PeerFacts
<1>2. FinSent(Peer(p)) => state[p] = "ESTABLISHED"
  BY <1>1 DEF FinSent, Part
<1>3. FinAnswered(p) => state[p] = "FIN_WAIT"
  BY DEF FinAnswered, Part
<1>4. FinsCross => state[p] = "FIN_WAIT"
  BY DEF FinsCross, Part
<1>5. FinHeard(Peer(p)) => state[p] = "FIN_WAIT"
  BY <1>1 DEF FinHeard, Part
<1>6. FinsHeard => state[p] = "FIN_WAIT"
  BY DEF FinsHeard, Part
<1>7. LastAck(Peer(p)) => state[p] \in {"FIN_WAIT", "CLOSE_WAIT"}
  BY <1>1 DEF LastAck, Part
<1> QED  BY <1>2, <1>3, <1>4, <1>5, <1>6, <1>7

-----------------------------------------------------------------------------
(* How each step of a peer leads from one point of the course to the next. *)

LEMMA Sides ==
    ASSUME NEW p \in Peers
    PROVE  /\ Initiator \in Peers /\ Responder \in Peers /\ Initiator # Responder
           /\ p = Initiator \/ p = Responder
           /\ Peer(p) \in Peers /\ Peer(p) # p /\ Peer(Peer(p)) = p
           /\ \A r \in Peers : r = p \/ r = Peer(p)
           /\ p = Initiator <=> Peer(p) = Responder
           /\ p = Responder <=> Peer(p) = Initiator
  BY PeerFacts

(* What a step of p leaves as it is at its peer.                           *)
OthersPart(p) ==
    /\ state'[Peer(p)] = state[Peer(p)] /\ pending_ctrl'[Peer(p)] = pending_ctrl[Peer(p)]
    /\ fin_acked'[Peer(p)] = fin_acked[Peer(p)]
    /\ peer_fin_acked'[Peer(p)] = peer_fin_acked[Peer(p)]

SamePart(p) ==
    /\ state'[p] = state[p] /\ pending_ctrl'[p] = pending_ctrl[p]
    /\ fin_acked'[p] = fin_acked[p] /\ peer_fin_acked'[p] = peer_fin_acked[p]

LEMMA SynCourse ==
    ASSUME Timely, BaseInv, Course, NEW p \in Peers, OnSyn(p)
    PROVE  Course'
<1> DEFINE q == Peer(p)
<1>1. Asking /\ p = Responder /\ link[p] # << >>
  BY TypeTells DEF OnSyn, OpensResponder
<1>2. q = Initiator /\ link[p] = One("SYN") /\ link[q] = << >>
  BY <1>1, Sides DEF Asking
<1>3. link'[p] = << >> /\ link'[q] = One("SYN_ACK")
  <2>1. Len(link[q]) <= 2 /\ "SYN_ACK" \in ControlTypes
    BY <1>2, Frames, Singles, Pairs
  <2>2. link'[p] = Tail(link[p]) /\ link'[q] = Append(link[q], F("SYN_ACK"))
    BY <1>1, <2>1, AnswersInTime DEF OnSyn
  <2> QED  BY <1>2, <2>2, Frames, Singles, Pairs
<1>4. Part(p, "SYN_RCVD", FALSE, FALSE, "SYN_ACK")'
  BY <1>1 DEF OnSyn, Move, ArmPending, Asking, Part, BaseInv, TypeOK
<1>5. Part(q, "SYN_SENT", FALSE, FALSE, "SYN")'
  BY <1>1, <1>2, Sides DEF OnSyn, Move, ArmPending, Asking, Part, BaseInv, TypeOK
<1> QED  BY <1>1, <1>2, <1>3, <1>4, <1>5 DEF Course, Answering

LEMMA SynAckCourse ==
    ASSUME Timely, BaseInv, Course, NEW p \in Peers, OnSynAck(p)
    PROVE  Course'
<1> DEFINE q == Peer(p)
<1>1. Answering /\ p = Initiator /\ link[p] # << >>
  BY TypeTells DEF OnSynAck, Accepts
<1>2. q = Responder /\ link[p] = One("SYN_ACK") /\ link[q] = << >>
  BY <1>1, Sides DEF Answering
<1>3. link'[p] = << >> /\ link'[q] = One("ACK")
  <2>1. Len(link[q]) <= 2 /\ "ACK" \in ControlTypes
    BY <1>2, Frames, Singles, Pairs
  <2>2. link'[p] = Tail(link[p]) /\ link'[q] = Append(link[q], F("ACK"))
    BY <1>1, <2>1, AnswersInTime DEF OnSynAck
  <2> QED  BY <1>2, <2>2, Frames, Singles, Pairs
<1>4. Part(p, "ESTABLISHED", FALSE, FALSE, NoPacket)'
  BY <1>1 DEF OnSynAck, Move, ClearPending, ArmPending, Answering, Part, BaseInv, TypeOK
<1>5. Part(q, "SYN_RCVD", FALSE, FALSE, "SYN_ACK")'
  BY <1>1, <1>2, Sides
     DEF OnSynAck, Move, ClearPending, ArmPending, Answering, Part, BaseInv, TypeOK
<1> QED  BY <1>1, <1>2, <1>3, <1>4, <1>5 DEF Course, Completing

LEMMA HandshakeAckCourse ==
    ASSUME Timely, BaseInv, Course, NEW p \in Peers, OnHandshakeAck(p)
    PROVE  Course'
<1> DEFINE q == Peer(p)
<1>1. Completing /\ p = Responder /\ link[p] # << >>
  BY TypeTells DEF OnHandshakeAck, Accepts
<1>2. q = Initiator /\ link[q] = << >>
  BY <1>1, Sides DEF Completing
<1>3. link'[p] = Tail(link[p]) /\ link'[q] = << >>
  BY <1>2, TakesInTime DEF OnHandshakeAck
<1>4. Part(p, "ESTABLISHED", FALSE, FALSE, NoPacket)'
  BY <1>1 DEF OnHandshakeAck, Move, ClearPending, ArmPending, Completing, Part, BaseInv, TypeOK
<1>5. OthersPart(p)
  BY Sides DEF OnHandshakeAck, Move, ClearPending, ArmPending, OthersPart, BaseInv, TypeOK
<1>6. CASE Part(q, "ESTABLISHED", FALSE, FALSE, NoPacket) /\ link[p] = One("ACK")
  <2>1. Part(q, "ESTABLISHED", FALSE, FALSE, NoPacket)' /\ link'[p] = << >>
    BY <1>3, <1>5, <1>6, Frames, Singles, Pairs DEF OthersPart, Part
  <2>2. Up'
    BY <1>3, <1>4, <2>1, Sides DEF Up, Holds
  <2> QED  BY <2>2 DEF Course
<1>7. CASE Part(q, "FIN_WAIT", FALSE, FALSE, "FIN") /\ link[p] = Two("ACK", "FIN")
  <2>1. Part(q, "FIN_WAIT", FALSE, FALSE, "FIN")' /\ link'[p] = One("FIN")
    BY <1>3, <1>5, <1>7, Frames, Singles, Pairs DEF OthersPart, Part
  <2>2. FinSent(q)'
    BY <1>3, <1>4, <2>1, Sides DEF FinSent, Holds
  <2> QED  BY <2>2, Sides DEF Course
<1> QED  BY <1>1, <1>2, <1>6, <1>7 DEF Completing

LEMMA FinCourse ==
    ASSUME Timely, BaseInv, Course, NEW p \in Peers, OnFin(p)
    PROVE  Course'
<1> DEFINE q == Peer(p)
<1>1. link[p] # << >> /\ Head(link[p]).type = "FIN" /\ state[p] = "ESTABLISHED"
  BY DEF OnFin, Accepts
<1>2. FinSent(q) /\ link[p] = One("FIN")
  BY <1>1, TypeTells, ClosingStates
<1>3. Holds(q, << >>) /\ link[q] \in Seq(Frame)
  BY <1>2, Sides DEF FinSent, BaseInv
<1>4. Len(link[q]) <= 1
  <2>1. q \in Peers /\ << >> \in Seq(Frame) /\ Len(<< >>) = 0
    BY Sides, Frames, Singles, Pairs
  <2>2. Len(link[q]) <= Len(<< >>) + 1
    <3> HIDE DEF q
    <3> QED  BY <1>3, <2>1, HeldFrames
  <2> QED  BY <2>1, <2>2
<1>5. /\ link'[p] = << >>
      /\ link'[q] = Append(Append(link[q], F("FIN_ACK")), F("FIN"))
  <2>1. AnswerBoth(p, "FIN_ACK", "FIN")
    BY DEF OnFin
  <2>2. link'[p] = Tail(link[p]) /\ link'[q] = Append(Append(link[q], F("FIN_ACK")), F("FIN"))
    BY <1>1, <1>4, <2>1, AnswersBothInTime, Frames
  <2> QED  BY <1>2, <2>2, Singles
<1>6. Holds(q, Two("FIN_ACK", "FIN"))'
  <2>1. CASE link[q] = << >>
    <3>1. link'[q] = Two("FIN_ACK", "FIN")
      BY <1>5, <2>1, Singles, Pairs
    <3> QED  BY <3>1 DEF Holds
  <2>2. CASE link[q] # << >> /\ Head(link[q]) = F("HEARTBEAT") /\ Tail(link[q]) = << >>
    <3> DEFINE one == Append(link[q], F("FIN_ACK"))
    <3>1. F("FIN_ACK") \in Frame /\ F("FIN") \in Frame
      BY Frames, Singles, Pairs
    <3>2. /\ one # << >> /\ Head(one) = F("HEARTBEAT")
          /\ Tail(one) = Append(Tail(link[q]), F("FIN_ACK")) /\ one \in Seq(Frame)
      <4> HIDE DEF q
      <4>1. one \in Seq(Frame)
        BY <1>3, <3>1
      <4> QED  BY <1>3, <2>2, <3>1, <4>1, BehindHead
    <3> HIDE DEF one
    <3>3. /\ Append(one, F("FIN")) # << >> /\ Head(Append(one, F("FIN"))) = F("HEARTBEAT")
          /\ Tail(Append(one, F("FIN"))) = Append(Tail(one), F("FIN"))
      BY <3>1, <3>2, BehindHead
    <3>4. Append(Tail(one), F("FIN")) = Two("FIN_ACK", "FIN")
      <4>1. Tail(one) = One("FIN_ACK")
        BY <2>2, <3>2, Singles
      <4> QED  BY <4>1, Pairs
    <3> QED  BY <1>5, <3>3, <3>4 DEF Holds, one
  <2> QED  BY <1>3, <2>1, <2>2 DEF Holds
<1>7. Part(p, "CLOSE_WAIT", FALSE, TRUE, "FIN")'
  BY <1>2, Sides DEF OnFin, Move, ArmPending, FinSent, Part, BaseInv, TypeOK
<1>8. Part(q, "FIN_WAIT", FALSE, FALSE, "FIN")'
  BY <1>2, Sides DEF OnFin, Move, ArmPending, FinSent, Part, BaseInv, TypeOK
<1>9. FinAnswered(q)'
  BY <1>5, <1>6, <1>7, <1>8, Sides DEF FinAnswered
<1> QED  BY <1>9, Sides DEF Course

LEMMA FinAckInFinWaitCourse ==
    ASSUME Timely, BaseInv, Course, NEW p \in Peers, OnFinAckInFinWait(p)
    PROVE  Course'
<1> DEFINE q == Peer(p)
<1>1. /\ link[p] # << >> /\ Head(link[p]).type = "FIN_ACK" /\ state[p] = "FIN_WAIT"
      /\ link'[p] = Tail(link[p]) /\ link'[q] = link[q]
  BY TakesInTime DEF OnFinAckInFinWait, Accepts
<1>2. /\ OthersPart(p)
      /\ fin_acked'[p] = TRUE /\ pending_ctrl'[p] = NoPacket
      /\ peer_fin_acked'[p] = peer_fin_acked[p]
      /\ state'[p] = IF peer_fin_acked[p] THEN "CLOSED" ELSE "FIN_WAIT"
  <2>1. /\ state \in [Peers -> States] /\ p \in Peers /\ Peer(p) \in Peers /\ Peer(p) # p
        /\ fin_acked \in [Peers -> BOOLEAN] /\ peer_fin_acked \in [Peers -> BOOLEAN]
        /\ DOMAIN pending_ctrl = Peers
    BY Sides DEF BaseInv, TypeOK
  <2>2. /\ fin_acked' = [fin_acked EXCEPT ![p] = TRUE]
        /\ pending_ctrl' = [pending_ctrl EXCEPT ![p] = NoPacket]
        /\ peer_fin_acked' = peer_fin_acked
    BY DEF OnFinAckInFinWait, Move, ClearPending, ArmPending, FinishClose
  <2>3. state' = [state EXCEPT ![p] = IF peer_fin_acked[p] THEN "CLOSED" ELSE "FIN_WAIT"]
    <3>1. CASE peer_fin_acked[p]
      BY <2>1, <3>1 DEF OnFinAckInFinWait, Move, FinishClose
    <3>2. CASE ~ peer_fin_acked[p]
      <4>1. state' = state
        BY <2>1, <3>2 DEF OnFinAckInFinWait, Move, FinishClose, machineVars
      <4> QED  BY <1>1, <2>1, <3>2, <4>1
    <3> QED  BY <3>1, <3>2
  <2>4. OthersPart(p)
    BY <2>1, <2>2, <2>3 DEF OthersPart
  <2> QED  BY <2>1, <2>2, <2>3, <2>4
<1>3. \/ link[p] = Two("FIN_ACK", "FIN") /\ FinAnswered(p)
      \/ link[p] = One("FIN_ACK") /\ (FinsHeard \/ LastAck(q))
  BY <1>1, TypeTells
<1>4. CASE link[p] = Two("FIN_ACK", "FIN") /\ FinAnswered(p)
  <2>1. link'[p] = One("FIN") /\ link[p] # One("FIN")
    BY <1>1, <1>4, Frames, Singles, Pairs
  <2>2. FinAnswered(p)'
    BY <1>1, <1>2, <1>4, <2>1 DEF FinAnswered, Part, OthersPart
  <2> QED  BY <2>2 DEF Course
<1>5. CASE link[p] = One("FIN_ACK") /\ FinsHeard
  <2>1. link'[p] = << >> /\ link'[q] = One("FIN_ACK")
    BY <1>1, <1>5, Sides, Frames, Singles, Pairs DEF FinsHeard
  <2>2. LastAck(p)'
    BY <1>2, <1>5, <2>1, Sides DEF FinsHeard, LastAck, Part, OthersPart
  <2> QED  BY <2>2 DEF Course
<1>6. CASE link[p] = One("FIN_ACK") /\ LastAck(q)
  <2>1. link'[p] = << >> /\ link'[q] = << >>
    BY <1>1, <1>6, Frames, Singles, Pairs DEF LastAck
  <2>2. Part(p, "CLOSED", TRUE, TRUE, NoPacket)' /\ Part(q, "CLOSED", TRUE, TRUE, NoPacket)'
    BY <1>2, <1>6, Sides DEF LastAck, Part, OthersPart
  <2>3. Over'
    BY <2>1, <2>2, Sides DEF Over
  <2> QED  BY <2>3 DEF Course
<1> QED  BY <1>3, <1>4, <1>5, <1>6

LEMMA FinAckInCloseWaitCourse ==
    ASSUME Timely, BaseInv, Course, NEW p \in Peers, OnFinAckInCloseWait(p)
    PROVE  Course'
<1> DEFINE q == Peer(p)
<1>1. /\ link[p] # << >> /\ Head(link[p]).type = "FIN_ACK" /\ state[p] = "CLOSE_WAIT"
      /\ link'[p] = Tail(link[p]) /\ link'[q] = link[q]
  BY TakesInTime DEF OnFinAckInCloseWait, Accepts
<1>2. /\ OthersPart(p)
      /\ fin_acked'[p] = TRUE /\ pending_ctrl'[p] = NoPacket
      /\ peer_fin_acked'[p] = peer_fin_acked[p] /\ state'[p] = "CLOSED"
  BY <1>1, Sides DEF OnFinAckInCloseWait, Move, ClearPending, ArmPending, FinishClose,
     OthersPart, BaseInv, TypeOK
<1>3. link[p] = One("FIN_ACK") /\ LastAck(q)
  <2>1. ~ FinAnswered(p)
    BY <1>1, ClosingStates
  <2>2. ~ FinsHeard
    BY <1>1 DEF FinsHeard, Part
  <2> QED  BY <1>1, <2>1, <2>2, TypeTells
<1>4. link'[p] = << >> /\ link'[q] = << >>
  BY <1>1, <1>3, Frames, Singles, Pairs DEF LastAck
<1>5. Part(p, "CLOSED", TRUE, TRUE, NoPacket)' /\ Part(q, "CLOSED", TRUE, TRUE, NoPacket)'
  BY <1>2, <1>3, Sides DEF LastAck, Part, OthersPart
<1>6. Over'
  BY <1>4, <1>5, Sides DEF Over
<1> QED  BY <1>6 DEF Course

LEMMA FinInFinWaitCourse ==
    ASSUME Timely, BaseInv, Course, NEW p \in Peers, OnFinInFinWait(p)
    PROVE  Course'
<1> DEFINE q == Peer(p)
<1>1. link[p] # << >> /\ Head(link[p]).type = "FIN" /\ state[p] = "FIN_WAIT"
  BY DEF OnFinInFinWait, Accepts
<1>2. /\ OthersPart(p)
      /\ fin_acked'[p] = fin_acked[p] /\ pending_ctrl'[p] = pending_ctrl[p]
      /\ peer_fin_acked'[p] = TRUE
      /\ state'[p] = IF fin_acked[p] THEN "CLOSED" ELSE "FIN_WAIT"
  <2>1. /\ state \in [Peers -> States] /\ p \in Peers /\ Peer(p) \in Peers /\ Peer(p) # p
        /\ fin_acked \in [Peers -> BOOLEAN] /\ peer_fin_acked \in [Peers -> BOOLEAN]
    BY Sides DEF BaseInv, TypeOK
  <2>2. /\ peer_fin_acked' = [peer_fin_acked EXCEPT ![p] = TRUE]
        /\ fin_acked' = fin_acked /\ pending_ctrl' = pending_ctrl
    BY DEF OnFinInFinWait, Move, FinishClose, pendingVars
  <2>3. state' = [state EXCEPT ![p] = IF fin_acked[p] THEN "CLOSED" ELSE "FIN_WAIT"]
    <3>1. CASE fin_acked[p]
      BY <2>1, <3>1 DEF OnFinInFinWait, Move, FinishClose
    <3>2. CASE ~ fin_acked[p]
      <4>1. state' = state
        BY <2>1, <3>2 DEF OnFinInFinWait, Move, FinishClose, machineVars
      <4> QED  BY <1>1, <2>1, <3>2, <4>1
    <3> QED  BY <3>1, <3>2
  <2>4. OthersPart(p)
    BY <2>1, <2>2, <2>3 DEF OthersPart
  <2> QED  BY <2>1, <2>2, <2>3, <2>4
<1>3. \/ link[p] = One("FIN") /\ (FinAnswered(p) \/ FinsCross)
      \/ link[p] = Two("FIN", "FIN_ACK") /\ FinHeard(q)
  BY <1>1, TypeTells, ClosingStates
<1>4. q \in Peers /\ q # p /\ Peer(q) = p /\ link[q] \in Seq(Frame)
  BY Sides DEF BaseInv
<1>5. Len(link[q]) <= 2 =>
        link'[p] = Tail(link[p]) /\ link'[q] = Append(link[q], F("FIN_ACK"))
  <2>1. "FIN_ACK" \in ControlTypes
    BY DEF ControlTypes
  <2> QED  BY <1>1, <2>1, AnswersInTime DEF OnFinInFinWait
<1> HIDE DEF q
<1>6. CASE link[p] = One("FIN") /\ FinAnswered(p)
  <2>1. ~ Holds(p, Two("FIN_ACK", "FIN"))
    <3>1. link[p] # Two("FIN_ACK", "FIN")
      BY <1>6, Frames, Singles, Pairs
    <3>2. Head(link[p]) # F("HEARTBEAT")
      BY <1>6, Frames, Singles
    <3> QED  BY <3>1, <3>2 DEF Holds
  <2>2. Part(p, "FIN_WAIT", TRUE, FALSE, NoPacket) /\ link[q] = << >>
    BY <1>6, <2>1 DEF FinAnswered, q
  <2>3. link'[p] = << >> /\ link'[q] = One("FIN_ACK")
    <3>1. Len(link[q]) <= 2
      BY <2>2, Frames, Singles, Pairs
    <3>2. link'[p] = Tail(One("FIN")) /\ link'[q] = Append(<< >>, F("FIN_ACK"))
      BY <1>5, <1>6, <2>2, <3>1
    <3> QED  BY <3>2, Frames, Singles, Pairs
  <2>4. LastAck(p)'
    BY <1>2, <1>6, <2>2, <2>3, Sides DEF FinAnswered, LastAck, Part, OthersPart, q
  <2> QED  BY <2>4 DEF Course
<1>7. CASE link[p] = One("FIN") /\ FinsCross
  <2>1. Holds(q, One("FIN")) /\ One("FIN") \in Seq(Frame) /\ Len(One("FIN")) = 1
        /\ F("FIN_ACK") \in Frame /\ Append(One("FIN"), F("FIN_ACK")) = Two("FIN", "FIN_ACK")
        /\ Tail(One("FIN")) = << >>
    BY <1>4, <1>7, Frames, Singles, Pairs DEF FinsCross
  <2>2. Len(link[q]) <= 2
    BY <1>4, <2>1, HeldFrames
  <2>3. Holds(q, Append(One("FIN"), F("FIN_ACK")))'
    BY <1>4, <1>5, <2>1, <2>2, HoldsMore
  <2>4. Holds(q, Two("FIN", "FIN_ACK"))' /\ link'[p] = << >>
    BY <1>5, <1>7, <2>1, <2>2, <2>3 DEF Holds
  <2>5. Part(p, "FIN_WAIT", FALSE, TRUE, "FIN")' /\ Part(q, "FIN_WAIT", FALSE, FALSE, "FIN")'
    BY <1>2, <1>4, <1>7 DEF FinsCross, Part, OthersPart, q
  <2>6. FinHeard(p)'
    BY <2>4, <2>5 DEF FinHeard, q
  <2> QED  BY <2>6 DEF Course
<1>8. CASE link[p] = Two("FIN", "FIN_ACK") /\ FinHeard(q)
  <2>1. link[q] = << >> /\ Len(link[q]) <= 2
    BY <1>8, Frames, Singles, Pairs DEF FinHeard
  <2>2. link'[p] = One("FIN_ACK") /\ link'[q] = One("FIN_ACK")
    BY <1>5, <1>8, <2>1, Frames, Singles, Pairs
  <2>3. Part(p, "FIN_WAIT", FALSE, TRUE, "FIN")' /\ Part(q, "FIN_WAIT", FALSE, TRUE, "FIN")'
    BY <1>2, <1>4, <1>8 DEF FinHeard, Part, OthersPart, q
  <2>4. FinsHeard'
    BY <1>4, <2>2, <2>3, Sides DEF FinsHeard, q
  <2> QED  BY <2>4 DEF Course
<1> QED  BY <1>3, <1>6, <1>7, <1>8

(* Of the frames that are of no use only heartbeats come.                  *)
LEMMA UselessCourse ==
    ASSUME Timely, BaseInv, Course, NEW p \in Peers, OnUseless(p)
    PROVE  Course'
<1> DEFINE q == Peer(p)
<1>1. /\ link[p] # << >> /\ ~ OpensResponder(p, Head(link[p]))
      /\ <<state[p], Head(link[p]).type>> \notin Useful /\ Head(link[p]).type # "ACK"
      /\ link'[p] = Tail(link[p]) /\ link'[q] = link[q]
  BY TakesInTime DEF OnUseless
<1>2. SamePart(p) /\ OthersPart(p)
  BY DEF OnUseless, machineVars, pendingVars, SamePart, OthersPart
<1>3. \/ Tail(link[p]) = << >> /\ (Up \/ FinSent(p))
      \/ Tail(link[p]) = One("FIN") /\ (FinSent(q) \/ FinsCross)
      \/ Tail(link[p]) = Two("FIN_ACK", "FIN") /\ FinAnswered(p)
      \/ Tail(link[p]) = Two("FIN", "FIN_ACK") /\ FinHeard(q)
  <2>1. \A type : Leads(p, type) => Head(link[p]) = F(type)
    BY DEF Leads
  <2>2. ~ Leads(p, "SYN")
    <3>1. Asking /\ p = Responder => state[p] = "CLOSED"
      BY DEF Asking, Part
    <3> QED  BY <1>1, <2>1, <3>1, Frames, TypeTells DEF OpensResponder
  <2>3. ~ Leads(p, "SYN_ACK")
    <3>1. Answering /\ p = Initiator => state[p] = "SYN_SENT"
      BY DEF Answering, Part
    <3> QED  BY <1>1, <2>1, <3>1, Frames, TypeTells DEF Useful
  <2>4. ~ Leads(p, "ACK")
    BY <1>1, <2>1, Frames
  <2>5. ~ Leads(p, "FIN")
    <3>1. Head(link[p]).type = "FIN" => state[p] \in {"ESTABLISHED", "FIN_WAIT"}
      BY <1>1, TypeTells, ClosingStates
    <3> QED  BY <1>1, <2>1, <3>1, Frames DEF Useful
  <2>6. ~ Leads(p, "FIN_ACK")
    <3>1. Head(link[p]).type = "FIN_ACK" => state[p] \in {"FIN_WAIT", "CLOSE_WAIT"}
      BY <1>1, TypeTells, ClosingStates
    <3> QED  BY <1>1, <2>1, <3>1, Frames DEF Useful
  <2> QED  BY <1>1, <2>2, <2>3, <2>4, <2>5, <2>6, HeadTells DEF AtHead
<1>4. \A r \in Peers : \A s, fin, peer_fin, pending :
         Part(r, s, fin, peer_fin, pending) => Part(r, s, fin, peer_fin, pending)'
  BY <1>2, Sides DEF SamePart, OthersPart, Part
<1>5. \A s : Tail(link[p]) = s => Holds(p, s)'
  BY <1>1 DEF Holds
<1>6. \A s : Holds(q, s) => Holds(q, s)'
  BY <1>1 DEF Holds
<1>7. link'[q] = link[q] /\ q \in Peers /\ Peer(q) = p /\ p \in Peers
      /\ \A r \in Peers : r = p \/ r = q
  BY <1>1, Sides
<1> HIDE DEF q
<1>8. CASE Tail(link[p]) = << >> /\ Up
  <2>1. Up'
    BY <1>4, <1>5, <1>6, <1>7, <1>8 DEF Up
  <2> QED  BY <2>1 DEF Course
<1>9. CASE Tail(link[p]) = << >> /\ FinSent(p)
  <2>1. FinSent(p)'
    BY <1>4, <1>5, <1>6, <1>7, <1>9 DEF FinSent, q
  <2> QED  BY <2>1 DEF Course
<1>10. CASE Tail(link[p]) = One("FIN") /\ FinSent(q)
  <2>1. FinSent(q)'
    BY <1>4, <1>5, <1>6, <1>7, <1>10 DEF FinSent
  <2> QED  BY <1>7, <2>1 DEF Course
<1>11. CASE Tail(link[p]) = One("FIN") /\ FinsCross
  <2>1. FinsCross'
    BY <1>4, <1>5, <1>6, <1>7, <1>11 DEF FinsCross
  <2> QED  BY <2>1 DEF Course
<1>12. CASE Tail(link[p]) = Two("FIN_ACK", "FIN") /\ FinAnswered(p)
  <2>1. Part(p, "FIN_WAIT", FALSE, FALSE, "FIN") \/ link[p] = One("FIN")
    BY <1>12 DEF FinAnswered
  <2>2. link[p] # One("FIN")
    BY <1>12, Frames, Singles, Pairs
  <2>3. FinAnswered(p)'
    BY <1>4, <1>5, <1>7, <1>12, <2>1, <2>2 DEF FinAnswered, q
  <2> QED  BY <2>3 DEF Course
<1>13. CASE Tail(link[p]) = Two("FIN", "FIN_ACK") /\ FinHeard(q)
  <2>1. FinHeard(q)'
    BY <1>4, <1>5, <1>7, <1>13 DEF FinHeard
  <2> QED  BY <1>7, <2>1 DEF Course
<1> QED  BY <1>3, <1>8, <1>9, <1>10, <1>11, <1>12, <1>13

(* Nothing is repeated, and nothing is of another session.                 *)
LEMMA NothingAstray ==
    ASSUME BaseInv, Course, NEW p \in Peers
    PROVE  ~ OnRepeatedSynAck(p) /\ ~ OnForeign(p)
<1>1. ~ OnRepeatedSynAck(p)
  <2>1. Answering /\ p = Initiator => state[p] = "SYN_SENT"
    BY DEF Answering, Part
  <2> QED  BY <2>1, TypeTells DEF OnRepeatedSynAck, Accepts
<1>2. ASSUME OnForeign(p) PROVE FALSE
  <2>1. link[p] # << >> /\ Head(link[p]).sid = ProposedId
    BY <1>2, HeadFacts DEF OnForeign, BaseInv
  <2>2. Head(link[p]).type = "ACK" => state[p] = "SYN_RCVD"
    BY <2>1, TypeTells DEF Completing, Part
  <2>3. CASE Head(link[p]).type = "SYN"
    <3>1. Asking /\ p = Responder
      BY <2>1, <2>3, TypeTells
    <3>2. state[p] = "CLOSED"
      BY <3>1 DEF Asking, Part
    <3> QED  BY <1>2, <2>1, <2>3, <3>1, <3>2 DEF OnForeign, OpensResponder
  <2>4. CASE Head(link[p]).type # "SYN"
    <3>1. p = Initiator \/ state[p] # "CLOSED"
      <4>1. CASE Head(link[p]).type \in {"SYN_ACK", "ACK"}
        BY <2>1, <2>2, <4>1, TypeTells
      <4>2. CASE Head(link[p]).type \in {"FIN", "FIN_ACK"}
        <5>1. state[p] \in {"ESTABLISHED", "FIN_WAIT", "CLOSE_WAIT"}
          BY <2>1, <4>2, TypeTells, ClosingStates
        <5> QED  BY <5>1
      <4>3. CASE Leads(p, "HEARTBEAT")
        <5>1. ~ Leads(p, "SYN") /\ ~ Leads(p, "SYN_ACK") /\ ~ Leads(p, "ACK")
              /\ ~ Leads(p, "FIN") /\ ~ Leads(p, "FIN_ACK")
          BY <4>3, Frames DEF Leads
        <5>2. Up \/ FinSent(p) \/ FinSent(Peer(p)) \/ FinsCross \/ FinAnswered(p) \/ FinHeard(Peer(p))
          BY <2>1, <5>1, HeadTells DEF AtHead
        <5>3. Up => state[p] = "ESTABLISHED"
          BY DEF Up, Part
        <5>4. FinSent(p) => state[p] = "FIN_WAIT"
          BY DEF FinSent, Part
        <5> QED  BY <5>2, <5>3, <5>4, ClosingStates
      <4> QED  BY <2>1, <2>4, <4>1, <4>2, <4>3, TypeTells
    <3>2. session_id[p] = ProposedId
      BY <3>1, Sides DEF BaseInv, NeedsId, Joined
    <3> QED  BY <1>2, <2>1, <2>2, <3>2 DEF OnForeign
  <2> QED  BY <2>3, <2>4
<1> QED  BY <1>1, <1>2

LEMMA ConnectCourse ==
    ASSUME Timely, IInv, Course, connects = 0, Connect
    PROVE  Course' /\ Closed
<1>1. BaseInv /\ \A p \in Peers : state[p] = "CLOSED" /\ ~ fin_acked[p]
  BY DEF IInv, FirstSession, OpeningInv
<1>2. Closed
  <2>1. ~ Asking /\ ~ Answering /\ ~ Completing /\ ~ Up /\ ~ FinsCross /\ ~ FinsHeard /\ ~ Over
    BY <1>1, PeerFacts
       DEF Asking, Answering, Completing, Up, FinsCross, FinsHeard, Over, Part, Peers
  <2>2. ASSUME NEW p \in Peers
        PROVE  ~ FinSent(p) /\ ~ FinAnswered(p) /\ ~ FinHeard(p) /\ ~ LastAck(p)
    BY <1>1, <2>2 DEF FinSent, FinAnswered, FinHeard, LastAck, Part
  <2> QED  BY <2>1, <2>2 DEF Course
<1>3. link'[Initiator] = << >> /\ link'[Responder] = One("SYN")
  <2>1. /\ link[Initiator] = << >> /\ link[Responder] = << >> /\ Len(link[Responder]) <= 2
        /\ "SYN" \in ControlTypes /\ Peer(Initiator) = Responder /\ Initiator \in Peers
    <3>1. Initiator \in Peers /\ Responder \in Peers /\ Peer(Initiator) = Responder
      BY PeerFacts
    <3>2. link[Initiator] = << >> /\ link[Responder] = << >>
      BY <1>2, <3>1 DEF Closed
    <3> QED  BY <3>1, <3>2, Frames, Singles, Pairs
  <2>2. link'[Initiator] = link[Initiator] /\ link'[Responder] = Append(link[Responder], F("SYN"))
    BY <1>1, <2>1, SendsInTime DEF Connect
  <2> QED  BY <2>1, <2>2, Frames, Singles, Pairs
<1>4. Asking'
  <2>1. Initiator \in Peers /\ Responder \in Peers /\ Initiator # Responder
    BY PeerFacts
  <2> QED  BY <1>1, <1>2, <1>3, <2>1
           DEF Connect, Move, ArmPending, Closed, Asking, Part, BaseInv, TypeOK
<1> QED  BY <1>2, <1>4 DEF Course

LEMMA CloseCourse ==
    ASSUME Timely, BaseInv, Course, NEW p \in Peers, Close(p)
    PROVE  Course'
<1> DEFINE q == Peer(p)
<1>1. /\ q \in Peers /\ q # p /\ Peer(q) = p /\ link[q] \in Seq(Frame) /\ p \in Peers
      /\ \A r \in Peers : r = p \/ r = q
  BY Sides DEF BaseInv
<1>2. state[p] = "ESTABLISHED" /\ F("FIN") \in Frame /\ "FIN" \in ControlTypes
  BY Frames, Singles, Pairs DEF Close
<1>3. Len(link[q]) <= 2 => link'[p] = link[p] /\ link'[q] = Append(link[q], F("FIN"))
  BY <1>2, SendsInTime DEF Close
<1>4. /\ OthersPart(p) /\ fin_acked'[p] = fin_acked[p] /\ peer_fin_acked'[p] = peer_fin_acked[p]
      /\ state'[p] = "FIN_WAIT" /\ pending_ctrl'[p] = "FIN"
  BY Sides DEF Close, Move, ArmPending, OthersPart, BaseInv, TypeOK
<1>5. \/ Completing /\ p = Initiator
      \/ Up
      \/ FinSent(q)
  BY <1>2, Sides DEF Course, Closed, Asking, Answering, Completing, FinSent, FinAnswered,
     FinsCross, FinHeard, FinsHeard, LastAck, Over, Part
<1>6. ASSUME Holds(q, << >>)
      PROVE  Holds(q, One("FIN"))' /\ link'[p] = link[p]
  <2>1. /\ << >> \in Seq(Frame) /\ Len(<< >>) = 0 /\ Append(<< >>, F("FIN")) = One("FIN")
    BY <1>2, Frames, Singles, Pairs
  <2>2. Len(link[q]) <= Len(<< >>) + 1
    <3> HIDE DEF q
    <3> QED  BY <1>1, <1>6, <2>1, HeldFrames
  <2>3. link'[p] = link[p] /\ link'[q] = Append(link[q], F("FIN"))
    BY <1>1, <1>3, <2>1, <2>2
  <2> HIDE DEF q
  <2>4. Holds(q, Append(<< >>, F("FIN")))'
    BY <1>1, <1>2, <1>6, <2>1, <2>3, HoldsMore
  <2> QED  BY <2>1, <2>3, <2>4 DEF Holds
<1> HIDE DEF q
<1>7. CASE Completing /\ p = Initiator
  <2>1. q = Responder
    BY <1>7, PeerFacts DEF q
  <2>2. /\ link[q] = One("ACK") /\ link[p] = << >>
        /\ Part(p, "ESTABLISHED", FALSE, FALSE, NoPacket)
        /\ Part(q, "SYN_RCVD", FALSE, FALSE, "SYN_ACK")
    BY <1>2, <1>7, <2>1 DEF Completing, Part
  <2>3. Len(link[q]) <= 2
    <3>1. Len(One("ACK")) = 1
      BY Frames, Singles, Pairs
    <3> QED  BY <2>2, <3>1
  <2>4. link'[p] = << >> /\ link'[q] = Two("ACK", "FIN")
    BY <1>3, <2>2, <2>3, Frames, Singles, Pairs
  <2>5. Part(p, "FIN_WAIT", FALSE, FALSE, "FIN")' /\ Part(q, "SYN_RCVD", FALSE, FALSE, "SYN_ACK")'
    BY <1>4, <2>2 DEF Part, OthersPart, q
  <2>6. Completing'
    BY <1>7, <2>1, <2>4, <2>5 DEF Completing
  <2> QED  BY <2>6 DEF Course
<1>8. CASE Up
  <2>1. Holds(q, << >>) /\ Holds(p, << >>)
    BY <1>1, <1>8 DEF Up
  <2>2. Holds(q, One("FIN"))' /\ Holds(p, << >>)'
    BY <1>6, <2>1 DEF Holds
  <2>3. Part(p, "FIN_WAIT", FALSE, FALSE, "FIN")' /\ Part(q, "ESTABLISHED", FALSE, FALSE, NoPacket)'
    BY <1>1, <1>4, <1>8 DEF Up, Part, OthersPart, q
  <2>4. FinSent(p)'
    BY <2>2, <2>3 DEF FinSent, q
  <2> QED  BY <2>4 DEF Course
<1>9. CASE FinSent(q)
  <2>1. Holds(q, << >>) /\ Holds(p, One("FIN"))
    BY <1>1, <1>9 DEF FinSent
  <2>2. Holds(q, One("FIN"))' /\ Holds(p, One("FIN"))'
    BY <1>6, <2>1 DEF Holds
  <2>3. Part(p, "FIN_WAIT", FALSE, FALSE, "FIN")' /\ Part(q, "FIN_WAIT", FALSE, FALSE, "FIN")'
    BY <1>1, <1>4, <1>9 DEF FinSent, Part, OthersPart, q
  <2>4. FinsCross'
    BY <1>1, <2>2, <2>3 DEF FinsCross
  <2> QED  BY <2>4 DEF Course
<1> QED  BY <1>5, <1>7, <1>8, <1>9

(* A heartbeat is due only when nothing is on its way to the peer.         *)
LEMMA HeartbeatCourse ==
    ASSUME Timely, BaseInv, Course, InTime, NEW p \in Peers, TickHeartbeat(p)
    PROVE  Course' /\ link'[p] = link[p] /\ link[Peer(p)] = << >> /\ link'[Peer(p)] # << >>
<1> DEFINE q == Peer(p)
<1>1. /\ q \in Peers /\ q # p /\ Peer(q) = p /\ p \in Peers
      /\ \A r \in Peers : r = p \/ r = q
  BY Sides
<1>2. state[p] = "ESTABLISHED" /\ "HEARTBEAT" \in ControlTypes
  BY DEF TickHeartbeat, HeartbeatDue, ControlTypes
<1>3. link[q] = << >>
  <2>1. send_age[p] # Unset
    BY <1>2 DEF InTime
  <2>2. send_age[p] >= HeartbeatInterval
    BY <2>1 DEF TickHeartbeat, HeartbeatDue
  <2>3. send_age[p] # 0
    BY <2>2, Bounds
  <2> QED  BY <2>3 DEF InTime
<1>4. link'[p] = link[p] /\ link'[q] = One("HEARTBEAT")
  <2>1. Len(link[q]) <= 2
    BY <1>3, Frames, Singles, Pairs
  <2>2. link'[p] = link[p] /\ link'[q] = Append(link[q], F("HEARTBEAT"))
    BY <1>2, <2>1, SendsInTime DEF TickHeartbeat
  <2> QED  BY <1>2, <1>3, <2>2, Frames, Singles, Pairs
<1>5. Holds(q, << >>)' /\ (\A s : Holds(p, s) => Holds(p, s)') /\ link'[q] # << >>
  BY <1>2, <1>4, Frames, Singles, Pairs DEF Holds
<1>6. SamePart(p) /\ OthersPart(p)
  BY DEF TickHeartbeat, machineVars, pendingVars, SamePart, OthersPart
<1>7. \A r \in Peers : \A s, fin, peer_fin, pending :
         Part(r, s, fin, peer_fin, pending) => Part(r, s, fin, peer_fin, pending)'
  BY <1>6, Sides DEF SamePart, OthersPart, Part
<1>8. Up \/ FinSent(q)
  <2>1. ~ Closed /\ ~ Asking /\ ~ Answering /\ ~ FinsCross /\ ~ FinsHeard /\ ~ Over
    BY <1>1, <1>2, Sides
       DEF Closed, Asking, Answering, FinsCross, FinsHeard, Over, Part
  <2>2. ~ Completing
    <3>1. One("ACK") # << >>
      BY Frames, Singles, Pairs
    <3> QED  BY <1>2, <1>3, <3>1, Sides DEF Completing, Part
  <2>3. ASSUME NEW r \in Peers
        PROVE  /\ FinSent(r) => r = q
               /\ ~ FinAnswered(r) /\ ~ LastAck(r) /\ ~ FinHeard(r)
    BY <1>1, <1>2, <2>3 DEF FinSent, FinAnswered, FinHeard, LastAck, Part
  <2> QED  BY <2>1, <2>2, <2>3 DEF Course
<1> HIDE DEF q
<1>9. CASE Up
  <2>1. Up'
    BY <1>1, <1>5, <1>7, <1>9 DEF Up
  <2> QED  BY <1>3, <1>4, <1>5, <2>1 DEF Course, q
<1>10. CASE FinSent(q)
  <2>1. FinSent(q)'
    BY <1>1, <1>5, <1>7, <1>10 DEF FinSent
  <2> QED  BY <1>1, <1>3, <1>4, <1>5, <2>1 DEF Course, q
<1> QED  BY <1>8, <1>9, <1>10

(* A step that neither moves a frame nor a state.                          *)
LEMMA SameCourse ==
    ASSUME Course, UNCHANGED <<machineVars, pending_ctrl, link>>,
           Closed => recv_age'[Initiator] = Unset
    PROVE  Course'
<1>1. \A r, s, fin, peer_fin, pending :
         Part(r, s, fin, peer_fin, pending) => Part(r, s, fin, peer_fin, pending)'
  BY DEF machineVars, Part
<1>2. \A r, s : Holds(r, s) => Holds(r, s)'
  BY DEF Holds
<1>3. link' = link
  OBVIOUS
<1>4. Closed => Closed'  BY <1>1, <1>3 DEF Closed
<1>5. Asking => Asking'  BY <1>1, <1>3 DEF Asking
<1>6. Answering => Answering'  BY <1>1, <1>3 DEF Answering
<1>7. Completing => Completing'  BY <1>1, <1>3 DEF Completing
<1>8. Up => Up'  BY <1>1, <1>2 DEF Up
<1>9. \A r : FinSent(r) => FinSent(r)'  BY <1>1, <1>2 DEF FinSent
<1>10. \A r : FinAnswered(r) => FinAnswered(r)'
  BY <1>1, <1>2, <1>3 DEF FinAnswered
<1>11. FinsCross => FinsCross'  BY <1>1, <1>2 DEF FinsCross
<1>12. \A r : FinHeard(r) => FinHeard(r)'  BY <1>1, <1>2, <1>3 DEF FinHeard
<1>13. FinsHeard => FinsHeard'  BY <1>1, <1>3 DEF FinsHeard
<1>14. \A r : LastAck(r) => LastAck(r)'  BY <1>1, <1>3 DEF LastAck
<1>15. Over => Over'  BY <1>1, <1>3 DEF Over
<1> QED  BY <1>4, <1>5, <1>6, <1>7, <1>8, <1>9, <1>10, <1>11, <1>12, <1>13, <1>14, <1>15
         DEF Course

-----------------------------------------------------------------------------
(* Everybody is in time.                                                   *)

LEMMA NothingExpires ==
    ASSUME Timely, Typed, InTime, NEW p \in Peers
    PROVE  ~ IdleExpired(p) /\ ~ ControlDue(p)
<1>1. /\ HeartbeatInterval \in Nat /\ IdleTimeout \in Nat /\ ControlRto \in Nat
      /\ ControlRto >= 1 /\ HeartbeatInterval < IdleTimeout
  BY Bounds DEF Timely
<1>2. recv_age[p] \in {Unset} \cup 0 .. IdleTimeout
  BY DEF Typed
<1>3. state[p] # "CLOSED" => recv_age[p] <= HeartbeatInterval
  BY DEF InTime
<1>4. pending_ctrl[p] # NoPacket => ctrl_age[p] = 0
  BY DEF InTime
<1> QED  BY <1>1, <1>2, <1>3, <1>4 DEF IdleExpired, ControlDue, Unset

(* What a step of p, in time, does to the ages and to the inboxes.         *)
InTimeMove(p) ==
    LET q == Peer(p)
    IN  /\ state'[q] = state[q] /\ pending_ctrl'[q] = pending_ctrl[q]
        /\ ctrl_age'[q] = ctrl_age[q]
        /\ recv_age'[q] = recv_age[q] /\ send_age'[q] = send_age[q]
        /\ link'[p] # << >> => link[p] # << >>
        /\ pending_ctrl'[p] # NoPacket =>
              \/ ctrl_age'[p] = 0
              \/ ctrl_age'[p] = ctrl_age[p] /\ pending_ctrl'[p] = pending_ctrl[p]
        /\ \/ send_age'[p] = 0 /\ link'[q] # << >>
           \/ /\ send_age'[p] = send_age[p] /\ link'[q] = link[q]
              /\ state[p] = "CLOSED" => state'[p] = "CLOSED"
              /\ state'[p] \in {"ESTABLISHED", "SYN_RCVD"} =>
                    state[p] \in {"ESTABLISHED", "SYN_RCVD"}
        /\ \/ recv_age'[p] = 0
           \/ /\ recv_age'[p] = recv_age[p] /\ link'[p] = link[p]
              /\ state'[p] = "ESTABLISHED" => state[p] = "ESTABLISHED"
              /\ state'[p] # "CLOSED" => state[p] # "CLOSED" \/ recv_age[p] = Unset

LEMMA InTimeStays ==
    ASSUME Typed, InTime, NEW p \in Peers, InTimeMove(p)
    PROVE  InTime'
<1> DEFINE q == Peer(p)
<1>1. /\ q \in Peers /\ q # p /\ Peer(q) = p /\ p \in Peers
      /\ \A r \in Peers : r = p \/ r = q
  BY Sides
<1>2. /\ \A r \in Peers : /\ recv_age[r] \in {Unset} \cup Nat
                          /\ send_age[r] \in {Unset} \cup Nat
      /\ HeartbeatInterval \in Nat /\ Unset = -1
  BY Bounds DEF Typed, Unset
<1>3. InTimeMove(p)
  OBVIOUS
<1> HIDE DEF q
<1>4. ASSUME NEW r \in Peers
      PROVE  link'[Peer(r)] # << >> => send_age'[r] = 0
  BY <1>1, <1>3 DEF InTime, InTimeMove, q
<1>5. ASSUME NEW r \in Peers
      PROVE  pending_ctrl'[r] # NoPacket => ctrl_age'[r] = 0
  BY <1>1, <1>3 DEF InTime, InTimeMove, q
<1>6. ASSUME NEW r \in Peers, state'[r] # "CLOSED"
      PROVE  recv_age'[r] <= HeartbeatInterval /\ send_age'[r] # Unset
  <2>1. CASE r = q
    BY <1>1, <1>3, <1>6, <2>1 DEF InTime, InTimeMove, q
  <2>2. CASE r = p
    <3>1. recv_age'[p] <= HeartbeatInterval
      BY <1>1, <1>2, <1>3, <1>6, <2>2 DEF InTime, InTimeMove
    <3>2. send_age'[p] # Unset
      BY <1>1, <1>2, <1>3, <1>6, <2>2 DEF InTime, InTimeMove
    <3> QED  BY <2>2, <3>1, <3>2
  <2> QED  BY <1>1, <2>1, <2>2
<1>7. ASSUME NEW r \in Peers, state'[r] = "ESTABLISHED", link'[r] = << >>,
             state'[Peer(r)] \in {"ESTABLISHED", "SYN_RCVD"}
      PROVE  recv_age'[r] <= send_age'[Peer(r)]
  <2>1. CASE r = q
    <3>1. /\ state[q] = "ESTABLISHED" /\ recv_age'[q] = recv_age[q]
          /\ state'[p] \in {"ESTABLISHED", "SYN_RCVD"} /\ link'[q] = << >>
      BY <1>1, <1>3, <1>7, <2>1 DEF InTimeMove, q
    <3>2. /\ link[q] = << >> /\ send_age'[p] = send_age[p]
          /\ state[p] \in {"ESTABLISHED", "SYN_RCVD"}
      BY <1>3, <3>1 DEF InTimeMove, q
    <3>3. recv_age[q] <= send_age[p]
      BY <1>1, <3>1, <3>2 DEF InTime
    <3> QED  BY <1>1, <2>1, <3>1, <3>2, <3>3
  <2>2. CASE r = p
    <3>1. /\ state[q] \in {"ESTABLISHED", "SYN_RCVD"} /\ send_age'[q] = send_age[q]
          /\ state'[p] = "ESTABLISHED" /\ link'[p] = << >>
      BY <1>1, <1>3, <1>7, <2>2 DEF InTimeMove, q
    <3>2. send_age[q] # Unset
      BY <1>1, <3>1 DEF InTime
    <3>3. CASE recv_age'[p] = 0
      BY <1>1, <1>2, <2>2, <3>1, <3>2, <3>3 DEF q
    <3>4. CASE recv_age'[p] # 0
      <4>1. recv_age'[p] = recv_age[p] /\ link[p] = << >> /\ state[p] = "ESTABLISHED"
        BY <1>3, <3>1, <3>4 DEF InTimeMove
      <4>2. recv_age[p] <= send_age[q]
        BY <1>1, <3>1, <4>1 DEF InTime, q
      <4> QED  BY <1>1, <2>2, <3>1, <4>1, <4>2 DEF q
    <3> QED  BY <3>3, <3>4
  <2> QED  BY <1>1, <2>1, <2>2
<1> QED  BY <1>4, <1>5, <1>6, <1>7 DEF InTime

LEMMA SomethingArrives ==
    ASSUME Timely, NEW q \in Seq(Frame), NEW type \in ControlTypes,
           NEW new \in Sent(q, type, ProposedId)
    PROVE  new # << >> /\ new \in Seq(Frame)
<1> DEFINE f == [type |-> type, sid |-> ProposedId]
           l == Len(q)
           all == q \o << f >>
           m == Min({l + 1, MaxInFlight})
<1>1. l \in Nat /\ MaxInFlight \in Nat /\ MaxInFlight >= 3 /\ f \in Frame
  BY SessionAssumption DEF Timely, Frame
<1> HIDE DEF f
<1>2. m \in 1 .. l + 1
  <2> HIDE DEF l
  <2>1. \E z \in {l + 1, MaxInFlight} : \A t \in {l + 1, MaxInFlight} : z <= t
    <3>1. CASE l + 1 <= MaxInFlight  BY <1>1, <3>1
    <3>2. CASE MaxInFlight <= l + 1  BY <1>1, <3>2
    <3> QED  BY <1>1, <3>1, <3>2
  <2>2. m \in {l + 1, MaxInFlight} /\ m <= l + 1
    BY <2>1 DEF Min
  <2> QED  BY <1>1, <2>2
<1>3. [c \in 1 .. 1 |-> f] = << f >>
  OBVIOUS
<1>4. new = SubSeq(all, 1, m)
  <2>1. 1 \in Copies /\ \A n \in Copies : n = 1
    BY DEF Timely
  <2> QED  BY <1>3, <2>1 DEF Sent, f
<1>5. all \in Seq(Frame) /\ Len(all) = l + 1
  BY <1>1
<1> HIDE DEF all, l, m
<1>6. new \in Seq(Frame) /\ Len(new) = m
  BY <1>1, <1>2, <1>4, <1>5
<1>7. new # << >>
  BY <1>2, <1>6
<1> QED  BY <1>6, <1>7

(* What is sent is on the link.                                            *)
LEMMA OnTheLink ==
    ASSUME Timely, BaseInv, NEW p \in Peers
    PROVE  /\ \A type \in ControlTypes :
                 /\ Transmit(p, type) /\ session_id[p] = ProposedId =>
                       link'[p] = link[p] /\ link'[Peer(p)] # << >>
                 /\ Answer(p, type) /\ link[p] # << >> => link'[Peer(p)] # << >>
           /\ \A a, b \in ControlTypes :
                 AnswerBoth(p, a, b) /\ link[p] # << >> => link'[Peer(p)] # << >>
<1>1. /\ link \in [Peers -> Seq(Frame)] /\ p \in Peers
      /\ Peer(p) \in Peers /\ Peer(p) # p /\ link[Peer(p)] \in Seq(Frame)
  BY PeerFacts DEF BaseInv
<1>2. ASSUME NEW type \in ControlTypes, Transmit(p, type), session_id[p] = ProposedId
      PROVE  link'[p] = link[p] /\ link'[Peer(p)] # << >>
  <2>1. PICK new \in Sent(link[Peer(p)], type, ProposedId) :
          link' = [link EXCEPT ![Peer(p)] = new]
    BY <1>2 DEF Transmit
  <2> QED  BY <1>1, <2>1, SomethingArrives
<1>3. link[p] # << >> => Head(link[p]).sid = ProposedId
  BY <1>1, HeadFacts
<1>4. ASSUME NEW type \in ControlTypes, Answer(p, type), link[p] # << >>
      PROVE  link'[Peer(p)] # << >>
  <2>1. PICK new \in Sent(link[Peer(p)], type, ProposedId) :
          link' = [link EXCEPT ![p] = Tail(@), ![Peer(p)] = new]
    BY <1>3, <1>4 DEF Answer
  <2> QED  BY <1>1, <2>1, SomethingArrives
<1>5. ASSUME NEW a \in ControlTypes, NEW b \in ControlTypes,
             AnswerBoth(p, a, b), link[p] # << >>
      PROVE  link'[Peer(p)] # << >>
  <2>1. PICK f \in Sent(link[Peer(p)], a, ProposedId) :
          \E q \in Sent(f, b, ProposedId) :
              link' = [link EXCEPT ![p] = Tail(@), ![Peer(p)] = q]
    BY <1>3, <1>5 DEF AnswerBoth
  <2>2. PICK q \in Sent(f, b, ProposedId) :
          link' = [link EXCEPT ![p] = Tail(@), ![Peer(p)] = q]
    BY <2>1
  <2>3. f \in Seq(Frame)
    BY <1>1, SomethingArrives
  <2> QED  BY <1>1, <2>2, <2>3, SomethingArrives
<1> QED  BY <1>2, <1>4, <1>5

LEMMA PacketInTime ==
    ASSUME Timely, BaseInv, Typed, NEW p \in Peers,
           OnPacket(p), ~ OnForeign(p), ~ OnRepeatedSynAck(p)
    PROVE  InTimeMove(p)
<1> USE DEF ControlTypes, InTimeMove, Typed, Accepts, RecvNow, SendNow, Move, ArmPending,
        ClearPending, FinishClose, machineVars, pendingVars
<1>1. /\ Peer(p) \in Peers /\ Peer(p) # p
      /\ link[p] = << >> \/ link[p] # << >>
  BY Sides
<1>2. CASE OnSyn(p)  BY <1>1, <1>2, OnTheLink DEF OnSyn
<1>3. CASE OnSynAck(p)  BY <1>1, <1>3, OnTheLink DEF OnSynAck
<1>4. CASE OnHandshakeAck(p)  BY <1>1, <1>4, TakesInTime DEF OnHandshakeAck
<1>5. CASE OnFin(p)  BY <1>1, <1>5, OnTheLink DEF OnFin
<1>6. CASE OnFinAckInFinWait(p)
  BY <1>1, <1>6, TakesInTime DEF OnFinAckInFinWait
<1>7. CASE OnFinInFinWait(p)
  BY <1>1, <1>7, OnTheLink DEF OnFinInFinWait
<1>8. CASE OnFinAckInCloseWait(p)
  BY <1>1, <1>8, TakesInTime DEF OnFinAckInCloseWait
<1>9. CASE OnUseless(p)  BY <1>1, <1>9, TakesInTime DEF OnUseless
<1> QED  BY <1>2, <1>3, <1>4, <1>5, <1>6, <1>7, <1>8, <1>9 DEF OnPacket

LEMMA OtherInTime ==
    ASSUME Timely, BaseInv, Typed
    PROVE  /\ Connect /\ Closed => InTimeMove(Initiator)
           /\ \A p \in Peers : Close(p) => InTimeMove(p)
           /\ \A p \in Peers : TickHeartbeat(p) => InTimeMove(p)
           /\ \A p \in Peers : NoteDataActivity(p) => InTimeMove(p)
<1> USE DEF ControlTypes, InTimeMove, Typed, SendNow, Move, ArmPending, machineVars, pendingVars
<1>1. \A p \in Peers : p = Initiator \/ state[p] # "CLOSED" => session_id[p] = ProposedId
  BY Sides DEF BaseInv, NeedsId, Joined
<1>2. Connect /\ Closed => InTimeMove(Initiator)
  <2>1. Initiator \in Peers /\ Peer(Initiator) \in Peers /\ Peer(Initiator) # Initiator
    BY PeerFacts
  <2> QED  BY <1>1, <2>1, OnTheLink DEF Connect, Closed
<1>3. ASSUME NEW p \in Peers, Close(p) PROVE InTimeMove(p)
  BY <1>1, <1>3, Sides, OnTheLink DEF Close
<1>4. ASSUME NEW p \in Peers, TickHeartbeat(p) PROVE InTimeMove(p)
  BY <1>1, <1>4, Sides, OnTheLink DEF TickHeartbeat, HeartbeatDue
<1>5. ASSUME NEW p \in Peers, NoteDataActivity(p) PROVE InTimeMove(p)
  BY <1>5, Sides DEF NoteDataActivity
<1> QED  BY <1>2, <1>3, <1>4, <1>5

(* Time passes only when nothing is on its way and nothing is due.         *)
LEMMA ElapseOnCourse ==
    ASSUME Timely, Typed, OnCourse, Elapse,
           \A p \in Peers : link[p] = << >> /\ ~ HeartbeatDue(p)
    PROVE  OnCourse'
<1>1. Course /\ InTime /\ Surfaced
  BY DEF OnCourse
<1>2. UNCHANGED <<machineVars, pending_ctrl, link, event, agreed>>
  BY DEF Elapse
<1>3. Course'
  <2>1. Closed => recv_age'[Initiator] = Unset
    BY PeerFacts DEF Closed, Elapse, Older, Peers
  <2> QED  BY <1>1, <1>2, <2>1, SameCourse
<1>4. Surfaced'
  BY <1>1, <1>2 DEF Surfaced, machineVars
<1>5. \A p \in Peers : ~ Holds(p, One("FIN")) /\ link[p] # One("FIN_ACK") /\ link[p] # One("FIN")
  <2>1. One("FIN") # << >> /\ One("FIN_ACK") # << >>
    BY Frames, Singles, Pairs
  <2> QED  BY <2>1 DEF Holds
<1>6. Closed \/ Up \/ Over
  <2>1. \A p \in Peers : /\ link[p] # One("SYN") /\ link[p] # One("SYN_ACK") /\ link[p] # One("ACK")
                         /\ link[p] # Two("ACK", "FIN")
                         /\ ~ Holds(p, Two("FIN_ACK", "FIN"))
                         /\ ~ Holds(p, Two("FIN", "FIN_ACK"))
    <3>1. /\ One("SYN") # << >> /\ One("SYN_ACK") # << >> /\ One("ACK") # << >>
          /\ Two("ACK", "FIN") # << >> /\ Two("FIN_ACK", "FIN") # << >>
          /\ Two("FIN", "FIN_ACK") # << >>
      BY Frames, Singles, Pairs
    <3> QED  BY <3>1 DEF Holds
  <2>2. ~ Asking /\ ~ Answering /\ ~ Completing /\ ~ FinsCross /\ ~ FinsHeard
    BY <1>5, <2>1, PeerFacts DEF Asking, Answering, Completing, FinsCross, FinsHeard, Peers
  <2>3. ASSUME NEW p \in Peers
        PROVE  ~ FinSent(p) /\ ~ FinAnswered(p) /\ ~ FinHeard(p) /\ ~ LastAck(p)
    BY <1>5, <2>1, Sides DEF FinSent, FinAnswered, FinHeard, LastAck
  <2> QED  BY <1>1, <2>2, <2>3 DEF Course
<1>7. \A p \in Peers : pending_ctrl[p] = NoPacket
  BY <1>6 DEF Closed, Up, Over, Part
<1>8. \/ \A p \in Peers : state[p] = "CLOSED"
      \/ \A p \in Peers : state[p] = "ESTABLISHED"
  BY <1>6 DEF Closed, Up, Over, Part
<1>9. InTime'
  <2>1. \A p \in Peers : Peer(p) \in Peers
    BY Sides
  <2>2. \A p \in Peers : link'[Peer(p)] = << >> /\ pending_ctrl'[p] = NoPacket
    BY <1>2, <1>7, <2>1
  <2>3. CASE \A p \in Peers : state[p] = "CLOSED"
    BY <1>2, <2>2, <2>3 DEF InTime, machineVars
  <2>4. CASE \A p \in Peers : state[p] = "ESTABLISHED"
    <3>1. ASSUME NEW p \in Peers
          PROVE  /\ send_age[p] \in 0 .. HeartbeatInterval - 1
                 /\ recv_age[p] \in {-1} \cup 0 .. HeartbeatInterval - 1
                 /\ recv_age[p] <= send_age[Peer(p)]
      <4>1. \A r \in Peers : send_age[r] \in 0 .. HeartbeatInterval - 1
        <5>1. ASSUME NEW r \in Peers PROVE send_age[r] \in 0 .. HeartbeatInterval - 1
          <6>1. ~ HeartbeatDue(r) /\ ~ IdleExpired(r) /\ ~ ControlDue(r)
            BY <1>1, NothingExpires
          <6>2. send_age[r] # Unset /\ ~ send_age[r] >= HeartbeatInterval
            BY <2>4, <6>1 DEF HeartbeatDue
          <6> QED  BY <6>2, Bounds DEF Typed
        <5> QED  BY <5>1
      <4>2. recv_age[p] <= send_age[Peer(p)]
        BY <1>1, <2>1, <2>4 DEF InTime
      <4>3. recv_age[p] \in {-1} \cup Nat
        BY Bounds DEF Typed, Unset
      <4> QED  BY <2>1, <4>1, <4>2, <4>3, Bounds
    <3>2. ASSUME NEW p \in Peers
          PROVE  /\ send_age'[p] = send_age[p] + 1
                 /\ recv_age'[p] = IF recv_age[p] = -1 THEN -1 ELSE recv_age[p] + 1
      <4>1. /\ send_age'[p] = Older(send_age, HeartbeatInterval)[p]
            /\ recv_age'[p] = Older(recv_age, IdleTimeout)[p]
        BY DEF Elapse
      <4>2. HeartbeatInterval \in Nat /\ IdleTimeout \in Nat /\ HeartbeatInterval < IdleTimeout
        BY Bounds DEF Timely
      <4>3. send_age[p] # Unset /\ send_age[p] # HeartbeatInterval /\ recv_age[p] # IdleTimeout
        BY <3>1, <4>2 DEF Unset
      <4> QED  BY <4>1, <4>3 DEF Older, Unset
    <3>3. ASSUME NEW p \in Peers
          PROVE  /\ recv_age'[p] <= HeartbeatInterval /\ send_age'[p] # Unset
                 /\ recv_age'[p] <= send_age'[Peer(p)]
      <4>1. HeartbeatInterval \in Nat /\ Peer(p) \in Peers /\ Unset = -1
        BY <2>1, Bounds DEF Unset
      <4>2. /\ send_age[p] \in Nat /\ send_age[Peer(p)] \in Nat
            /\ recv_age[p] \in {-1} \cup 0 .. HeartbeatInterval - 1
            /\ recv_age[p] <= send_age[Peer(p)]
        BY <3>1, <4>1
      <4>3. /\ send_age'[p] = send_age[p] + 1 /\ send_age'[Peer(p)] = send_age[Peer(p)] + 1
            /\ recv_age'[p] = IF recv_age[p] = -1 THEN -1 ELSE recv_age[p] + 1
        BY <3>2, <4>1
      <4> HIDE DEF Unset
      <4> QED  BY <4>1, <4>2, <4>3
    <3> QED  BY <2>2, <3>3 DEF InTime
  <2> QED  BY <1>8, <2>3, <2>4
<1> QED  BY <1>3, <1>4, <1>9 DEF OnCourse

(* Whoever closes does so by agreement.                                    *)
LEMMA PacketSurfaced ==
    ASSUME Typed, Course, Surfaced, NEW p \in Peers,
           OnPacket(p), ~ OnForeign(p), ~ OnRepeatedSynAck(p)
    PROVE  Surfaced'
<1> USE DEF Surfaced, Typed, Accepts, Move, Surface, FinishClose, machineVars
<1>1. CASE OnSyn(p)
  <2>1. Asking /\ p = Responder
    BY <1>1, TypeTells DEF OnSyn, OpensResponder
  <2>2. ~ fin_acked[p]
    BY <2>1 DEF Asking, Part
  <2> QED  BY <1>1, <2>2 DEF OnSyn
<1>2. CASE OnSynAck(p)  BY <1>2 DEF OnSynAck
<1>3. CASE OnHandshakeAck(p)  BY <1>3 DEF OnHandshakeAck
<1>4. CASE OnFin(p)  BY <1>4 DEF OnFin
<1>5. CASE OnFinAckInFinWait(p)
  <2>1. CASE peer_fin_acked[p]  BY <1>5, <2>1 DEF OnFinAckInFinWait
  <2>2. CASE ~ peer_fin_acked[p]  BY <1>5, <2>2 DEF OnFinAckInFinWait
  <2> QED  BY <2>1, <2>2
<1>6. CASE OnFinInFinWait(p)
  <2>1. CASE fin_acked[p]
    <3>1. /\ state' = [state EXCEPT ![p] = "CLOSED"] /\ event' = [event EXCEPT ![p] = "CLOSED"]
          /\ agreed' = [agreed EXCEPT ![p] = TRUE] /\ fin_acked' = fin_acked
      BY <1>6, <2>1 DEF OnFinInFinWait
    <3>2. ASSUME NEW r \in Peers, r # p
          PROVE  event'[r] = event[r] /\ agreed'[r] = agreed[r] /\ state'[r] = state[r]
      BY <3>1, <3>2
    <3>3. event'[p] = "CLOSED" /\ agreed'[p] = TRUE /\ state'[p] = "CLOSED" /\ fin_acked'[p]
      BY <2>1, <3>1
    <3> QED  BY <3>1, <3>2, <3>3
  <2>2. CASE ~ fin_acked[p]  BY <1>6, <2>2 DEF OnFinInFinWait
  <2> QED  BY <2>1, <2>2
<1>7. CASE OnFinAckInCloseWait(p)  BY <1>7 DEF OnFinAckInCloseWait
<1>8. CASE OnUseless(p)  BY <1>8 DEF OnUseless
<1> QED  BY <1>1, <1>2, <1>3, <1>4, <1>5, <1>6, <1>7, <1>8 DEF OnPacket

LEMMA TimelyNextIsNext == [TimelyNext]_vars => [Next]_vars
  BY DEF TimelyNext, Next

LEMMA OnCourseNext ==
    ASSUME Timely, IInv, OnCourse, connects' <= 1, [TimelyNext]_vars
    PROVE  OnCourse'
<1>1. Typed /\ BaseInv /\ Course /\ InTime /\ Surfaced
  BY TypedIsTypeOK DEF IInv, BaseInv, OnCourse
<1>2. ASSUME NEW p \in Peers, OnPacket(p) PROVE OnCourse'
  <2>1. ~ OnForeign(p) /\ ~ OnRepeatedSynAck(p)
    BY <1>1, NothingAstray
  <2>2. InTime' /\ Surfaced'
    BY <1>1, <1>2, <2>1, PacketInTime, InTimeStays, PacketSurfaced
  <2>3. Course'
    BY <1>1, <1>2, <2>1, SynCourse, SynAckCourse, HandshakeAckCourse, FinCourse,
       FinAckInFinWaitCourse, FinInFinWaitCourse, FinAckInCloseWaitCourse, UselessCourse
       DEF OnPacket
  <2> QED  BY <2>2, <2>3 DEF OnCourse
<1>3. ASSUME NEW p \in Peers, OnTick(p) PROVE OnCourse'
  <2>1. TickHeartbeat(p)
    BY <1>1, <1>3, NothingExpires DEF OnTick, TickIdle, TickGiveUp, TickResend
  <2>2. Course' /\ InTime'
    BY <1>1, <2>1, HeartbeatCourse, OtherInTime, InTimeStays
  <2>3. Surfaced'
    BY <1>1, <2>1 DEF TickHeartbeat, Surfaced, machineVars
  <2> QED  BY <2>2, <2>3 DEF OnCourse
<1>4. CASE Connect
  <2>1. connects = 0
    BY <1>1, <1>4 DEF Connect, Typed
  <2>2. Closed /\ Course'
    BY <1>1, <1>4, <2>1, ConnectCourse
  <2>3. InTime'
    BY <1>1, <1>4, <2>2, PeerFacts, OtherInTime, InTimeStays
  <2>4. ~ fin_acked[Initiator]
    BY <2>2, PeerFacts DEF Closed, Part
  <2>5. Surfaced'
    BY <1>1, <1>4, <2>4 DEF Connect, Surfaced, Move, Typed
  <2> QED  BY <2>2, <2>3, <2>5 DEF OnCourse
<1>5. ASSUME NEW p \in Peers, Close(p) PROVE OnCourse'
  <2>1. Course' /\ InTime'
    BY <1>1, <1>5, CloseCourse, OtherInTime, InTimeStays
  <2>2. Surfaced'
    BY <1>1, <1>5 DEF Close, Surfaced, Move, Typed
  <2> QED  BY <2>1, <2>2 DEF OnCourse
<1>6. ASSUME NEW p \in Peers, NoteDataActivity(p) PROVE OnCourse'
  <2>1. InTime'
    BY <1>1, <1>6, OtherInTime, InTimeStays
  <2>2. UNCHANGED <<machineVars, pending_ctrl, link, event, agreed>>
    BY <1>6 DEF NoteDataActivity, pendingVars
  <2>3. Closed => recv_age'[Initiator] = Unset
    BY <1>6, PeerFacts DEF NoteDataActivity, Closed, Part
  <2>4. Course' /\ Surfaced'
    BY <1>1, <2>2, <2>3, SameCourse DEF Surfaced, machineVars
  <2> QED  BY <2>1, <2>4 DEF OnCourse
<1>7. CASE Elapse /\ \A p \in Peers : link[p] = << >> /\ ~ HeartbeatDue(p)
  BY <1>1, <1>7, ElapseOnCourse
<1>8. CASE UNCHANGED vars
  <2>1. UNCHANGED <<machineVars, pending_ctrl, ctrl_age, recv_age, send_age, link, event, agreed>>
    BY <1>8 DEF vars, pendingVars
  <2>2. Course'
    BY <1>1, <2>1, SameCourse DEF Closed
  <2>3. InTime' /\ Surfaced'
    BY <1>1, <2>1 DEF InTime, Surfaced, machineVars
  <2> QED  BY <2>2, <2>3 DEF OnCourse
<1> QED  BY <1>2, <1>3, <1>4, <1>5, <1>6, <1>7, <1>8 DEF TimelyNext, PeerStep

LEMMA InitOnCourse == Init => OnCourse
<1> SUFFICES ASSUME Init PROVE OnCourse
  OBVIOUS
<1>1. Closed
  BY PeerFacts DEF Init, Closed, Part
<1>2. InTime /\ Surfaced
  BY PeerFacts DEF Init, InTime, Surfaced
<1> QED  BY <1>1, <1>2 DEF OnCourse, Course

(* Heartbeats keep a session up.  When both hosts pump and every frame     *)
(* arrives within a unit of time, and heartbeat_interval is below          *)
(* idle_timeout, the first session is given up by neither peer, neither    *)
(* for its idle timer nor for a control packet that is not answered: it    *)
(* ends by agreement (on_tick, state_machine.py:438-520; states.py:85-87). *)
THEOREM HeartbeatsKeepItUp ==
    ASSUME Timely
    PROVE  TimelySpec => [](connects <= 1 => NeverGivenUp)
<1>1. TimelySpec => Spec
  BY TimelyNextIsNext, PTL DEF TimelySpec, Spec
<1>2. Init => TimelyInv
  BY InitOnCourse DEF TimelyInv
<1>3. ASSUME TimelyInv, IInv, [TimelyNext]_vars PROVE TimelyInv'
  <2>1. ASSUME connects' <= 1 PROVE OnCourse'
    <3>1. connects <= 1
      <4>1. [Next]_vars /\ connects \in Nat
        BY <1>3, TimelyNextIsNext, Bounds DEF IInv, BaseInv, TypeOK
      <4>2. connects' = connects \/ connects' = connects + 1
        BY <4>1 DEF Next, PeerStep, Connect, Elapse, Close, NoteDataActivity, OnPacket, OnTick,
           OnSyn, OnSynAck, OnHandshakeAck, OnRepeatedSynAck, OnFin, OnFinAckInFinWait,
           OnFinInFinWait, OnFinAckInCloseWait, OnUseless, OnForeign, TickIdle, TickGiveUp,
           TickResend, TickHeartbeat, boundVars, vars
      <4> QED  BY <2>1, <4>1, <4>2
    <3> QED  BY <1>3, <2>1, <3>1, OnCourseNext DEF TimelyInv
  <2> QED  BY <2>1 DEF TimelyInv
<1>4. TimelyInv => (connects <= 1 => NeverGivenUp)
  BY DEF TimelyInv, OnCourse, Surfaced, NeverGivenUp
<1> QED  BY <1>1, <1>2, <1>3, <1>4, InvariantHolds, PTL DEF TimelySpec
=============================================================================
