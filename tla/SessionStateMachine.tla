------------------------- MODULE SessionStateMachine -------------------------
(***************************************************************************)
(* src/photontcp/session/state_machine.py: the two state machines of a     *)
(* session, driven as Session drives them (session.py: connect, close,     *)
(* pump, _route_packet), and the link between them.                        *)
(*                                                                         *)
(* Time.  The code never looks at a time but to ask whether at least some  *)
(* interval has passed since last_recv, last_send or _pending_ctrl_since.  *)
(* So the model keeps the three ages instead, each up to its interval, and *)
(* Elapse lets them grow.  Intervals are in units of the host's pump.      *)
(*                                                                         *)
(* A control packet is its type and its session id: on_packet reads no     *)
(* other field.  Data packets never reach the state machine; what they do  *)
(* to it (note_data_activity) is an action of the environment.             *)
(*                                                                         *)
(* The link carries frames in order, as a screen and a camera do and as    *)
(* LoopbackChannel does (a frame it holds back is still released first);   *)
(* a frame may be lost or arrive twice.                                    *)
(***************************************************************************)
EXTENDS Integers, SequencesExt

CONSTANTS
    Initiator, Responder,   \* the two peers
    ProposedId,             \* session_id of the initiator
    PlaceholderId,          \* session_id the responder is constructed with
    HeartbeatInterval,      \* heartbeat_interval
    IdleTimeout,            \* idle_timeout
    ControlRto,             \* control_rto
    MaxControlRetries,      \* max_control_retries
    Copies,                 \* how many times a sent frame may arrive
    MaxInFlight,            \* bound: frames on one direction of the link
    MaxConnects,            \* bound: calls of connect
    MaxDataFrames           \* bound: data frames that arrive at one peer

ASSUME SessionAssumption ==
    /\ Initiator # Responder
    /\ HeartbeatInterval \in Nat \ {0}
    /\ IdleTimeout \in Nat \ {0}
    /\ ControlRto \in Nat \ {0}
    /\ MaxControlRetries \in Nat
    /\ Copies \subseteq 0 .. 2
    /\ MaxInFlight \in Nat \ {0}
    /\ MaxConnects \in Nat
    /\ MaxDataFrames \in Nat

Peers == {Initiator, Responder}
Peer(p) == IF p = Initiator THEN Responder ELSE Initiator

States == {"CLOSED", "SYN_SENT", "SYN_RCVD", "ESTABLISHED", "FIN_WAIT", "CLOSE_WAIT"}
Events == {"ESTABLISHED", "PEER_CLOSED", "CLOSED", "TIMED_OUT", "CONNECT_FAILED"}
ControlTypes == {"SYN", "SYN_ACK", "ACK", "FIN", "FIN_ACK", "HEARTBEAT"}

Unset == -1         \* the age of a time that is None
NoPacket == "none"  \* _pending_ctrl is None

VARIABLES
    state,          \* peer -> _state
    session_id,     \* peer -> session_id
    fin_acked,      \* peer -> _fin_acked
    peer_fin_acked, \* peer -> _peer_fin_acked
    pending_ctrl,   \* peer -> type of _pending_ctrl, NoPacket for None
    ctrl_age,       \* peer -> now - _pending_ctrl_since, up to ControlRto
    ctrl_retries,   \* peer -> _ctrl_retries
    recv_age,       \* peer -> now - last_recv, up to IdleTimeout
    send_age,       \* peer -> now - last_send, up to HeartbeatInterval
    link,           \* peer -> frames on their way to it
    event,          \* history: peer -> event surfaced last
    agreed,         \* history: peer -> CLOSED was reached by FIN and FIN_ACK
    connects,       \* bound: calls of connect
    dataFrames      \* bound: peer -> data frames that arrived

machineVars == <<state, session_id, fin_acked, peer_fin_acked>>
pendingVars == <<pending_ctrl, ctrl_age, ctrl_retries>>
boundVars   == <<connects, dataFrames>>
vars == <<machineVars, pendingVars, recv_age, send_age, link, event, agreed,
          boundVars>>

Init ==
    /\ state = [p \in Peers |-> "CLOSED"]
    /\ session_id = [p \in Peers |->
                       IF p = Initiator THEN ProposedId ELSE PlaceholderId]
    /\ fin_acked = [p \in Peers |-> FALSE]
    /\ peer_fin_acked = [p \in Peers |-> FALSE]
    /\ pending_ctrl = [p \in Peers |-> NoPacket]
    /\ ctrl_age = [p \in Peers |-> 0]
    /\ ctrl_retries = [p \in Peers |-> 0]
    /\ recv_age = [p \in Peers |-> Unset]
    /\ send_age = [p \in Peers |-> Unset]
    /\ link = [p \in Peers |-> << >>]
    /\ event = [p \in Peers |-> "none"]
    /\ agreed = [p \in Peers |-> FALSE]
    /\ connects = 0
    /\ dataFrames = [p \in Peers |-> 0]

-----------------------------------------------------------------------------
(* The link, and what the handlers have in common.                         *)

(* The frames a receiver may find after queue when a packet was sent: it   *)
(* arrives as often as Copies allows, and what finds no room is lost.      *)
Sent(queue, type, sid) ==
    LET arrived(n) == queue \o [c \in 1 .. n |-> [type |-> type, sid |-> sid]]
    IN  {SubSeq(arrived(n), 1, Min({Len(queue) + n, MaxInFlight})) : n \in Copies}

(* p sends a packet of its own accord ...                                  *)
Transmit(p, type) ==
    \E q \in Sent(link[Peer(p)], type, session_id[p]) :
        link' = [link EXCEPT ![Peer(p)] = q]

(* ... or in answer to the frame at the head of its inbox, whose session   *)
(* id is the one p has, or has just adopted; or takes that frame from the  *)
(* inbox and sends nothing.                                                *)
Answer(p, type) ==
    \E q \in Sent(link[Peer(p)], type, Head(link[p]).sid) :
        link' = [link EXCEPT ![p] = Tail(@), ![Peer(p)] = q]

AnswerBoth(p, first, second) ==
    \E f \in Sent(link[Peer(p)], first, Head(link[p]).sid) :
        \E q \in Sent(f, second, Head(link[p]).sid) :
            link' = [link EXCEPT ![p] = Tail(@), ![Peer(p)] = q]

Consume(p) == link' = [link EXCEPT ![p] = Tail(@)]

ArmPending(p, type) ==
    /\ pending_ctrl' = [pending_ctrl EXCEPT ![p] = type]
    /\ ctrl_age' = [ctrl_age EXCEPT ![p] = 0]
    /\ ctrl_retries' = [ctrl_retries EXCEPT ![p] = 0]

ClearPending(p) == ArmPending(p, NoPacket)

Move(p, s) == state' = [state EXCEPT ![p] = s]
Surface(p, e) == event' = [event EXCEPT ![p] = e]
SendNow(p) == send_age' = [send_age EXCEPT ![p] = 0]
RecvNow(p) == recv_age' = [recv_age EXCEPT ![p] = 0]

(* Reaching CLOSED through the closing handshake.                          *)
FinishClose(p) ==
    /\ Move(p, "CLOSED")
    /\ Surface(p, "CLOSED")
    /\ agreed' = [agreed EXCEPT ![p] = TRUE]

-----------------------------------------------------------------------------
(* Calls of the application.                                               *)

(* connect(): the initiator of a closed session sends a SYN.               *)
Connect ==
    /\ connects < MaxConnects
    /\ state[Initiator] = "CLOSED"
    /\ connects' = connects + 1
    /\ Move(Initiator, "SYN_SENT")
    /\ ArmPending(Initiator, "SYN")
    /\ SendNow(Initiator)
    /\ Transmit(Initiator, "SYN")
    /\ agreed' = [agreed EXCEPT ![Initiator] = FALSE]
    /\ UNCHANGED <<session_id, fin_acked, peer_fin_acked, recv_age, event,
                   dataFrames>>

(* close(): an established session sends a FIN; otherwise nothing happens. *)
Close(p) ==
    /\ state[p] = "ESTABLISHED"
    /\ Move(p, "FIN_WAIT")
    /\ ArmPending(p, "FIN")
    /\ SendNow(p)
    /\ Transmit(p, "FIN")
    /\ UNCHANGED <<session_id, fin_acked, peer_fin_acked, recv_age, event, agreed,
                   boundVars>>

(* note_data_activity(): a frame of an application stream arrived.         *)
NoteDataActivity(p) ==
    /\ dataFrames[p] < MaxDataFrames
    /\ dataFrames' = [dataFrames EXCEPT ![p] = @ + 1]
    /\ recv_age' = IF state[p] \in {"ESTABLISHED", "FIN_WAIT", "CLOSE_WAIT"}
                   THEN [recv_age EXCEPT ![p] = 0]
                   ELSE recv_age
    /\ UNCHANGED <<machineVars, pendingVars, send_age, link, event, agreed,
                   connects>>

-----------------------------------------------------------------------------
(* on_packet().                                                            *)

(* A SYN that reaches a closed responder is accepted whatever its id;      *)
(* anything else must carry the id of the session.                         *)
OpensResponder(p, pkt) ==
    p = Responder /\ state[p] = "CLOSED" /\ pkt.type = "SYN"

(* The frame at the head of p's inbox is one of the given type, and p is   *)
(* in state s and accepts it: the idle timer starts again.                 *)
Accepts(p, s, type) ==
    /\ link[p] # << >>
    /\ Head(link[p]).type = type
    /\ state[p] = s
    /\ Head(link[p]).sid = session_id[p]
    /\ RecvNow(p)

OnSyn(p) ==
    /\ link[p] # << >>
    /\ OpensResponder(p, Head(link[p]))
    /\ RecvNow(p)
    /\ session_id' = [session_id EXCEPT ![p] = Head(link[p]).sid]
    /\ Move(p, "SYN_RCVD")
    /\ ArmPending(p, "SYN_ACK")
    /\ SendNow(p)
    /\ Answer(p, "SYN_ACK")
    /\ agreed' = [agreed EXCEPT ![p] = FALSE]
    /\ UNCHANGED <<fin_acked, peer_fin_acked, event, boundVars>>

OnSynAckStillPending(p) ==    \* slip: the SYN stays armed
    /\ Accepts(p, "SYN_SENT", "SYN_ACK")
    /\ Move(p, "ESTABLISHED")
    /\ SendNow(p)
    /\ Answer(p, "ACK")
    /\ Surface(p, "ESTABLISHED")
    /\ UNCHANGED <<session_id, fin_acked, peer_fin_acked, pendingVars, agreed,
                   boundVars>>

OnSynAck(p) ==
    /\ Accepts(p, "SYN_SENT", "SYN_ACK")
    /\ ClearPending(p)
    /\ Move(p, "ESTABLISHED")
    /\ SendNow(p)
    /\ Answer(p, "ACK")
    /\ Surface(p, "ESTABLISHED")
    /\ UNCHANGED <<session_id, fin_acked, peer_fin_acked, agreed, boundVars>>

OnHandshakeRepeat(p) ==    \* slip: a repeated SYN completes the handshake
    /\ Accepts(p, "SYN_RCVD", "SYN")
    /\ ClearPending(p)
    /\ Move(p, "ESTABLISHED")
    /\ Consume(p)
    /\ Surface(p, "ESTABLISHED")
    /\ UNCHANGED <<session_id, fin_acked, peer_fin_acked, send_age, agreed,
                   boundVars>>

OnHandshakeAck(p) ==
    /\ Accepts(p, "SYN_RCVD", "ACK")
    /\ ClearPending(p)
    /\ Move(p, "ESTABLISHED")
    /\ Consume(p)
    /\ Surface(p, "ESTABLISHED")
    /\ UNCHANGED <<session_id, fin_acked, peer_fin_acked, send_age, agreed,
                   boundVars>>

(* The ACK was lost: the responder repeats its SYN_ACK, and it is answered *)
(* again.                                                                  *)
OnRepeatedSynAck(p) ==
    /\ Accepts(p, "ESTABLISHED", "SYN_ACK")
    /\ SendNow(p)
    /\ Answer(p, "ACK")
    /\ UNCHANGED <<machineVars, pendingVars, event, agreed, boundVars>>

(* The peer closes: its FIN is acknowledged and answered by our own.       *)
OnFin(p) ==
    /\ Accepts(p, "ESTABLISHED", "FIN")
    /\ Move(p, "CLOSE_WAIT")
    /\ peer_fin_acked' = [peer_fin_acked EXCEPT ![p] = TRUE]
    /\ ArmPending(p, "FIN")
    /\ SendNow(p)
    /\ AnswerBoth(p, "FIN_ACK", "FIN")
    /\ Surface(p, "PEER_CLOSED")
    /\ UNCHANGED <<session_id, fin_acked, agreed, boundVars>>

OnFinAckInFinWait(p) ==
    /\ Accepts(p, "FIN_WAIT", "FIN_ACK")
    /\ ClearPending(p)
    /\ fin_acked' = [fin_acked EXCEPT ![p] = TRUE]
    /\ Consume(p)
    /\ IF peer_fin_acked[p] THEN FinishClose(p) ELSE UNCHANGED <<state, event, agreed>>
    /\ UNCHANGED <<session_id, peer_fin_acked, send_age, boundVars>>

OnFinClosesAtOnce(p) ==    \* slip: our own FIN need not be acknowledged
    /\ Accepts(p, "FIN_WAIT", "FIN")
    /\ peer_fin_acked' = [peer_fin_acked EXCEPT ![p] = TRUE]
    /\ SendNow(p)
    /\ Answer(p, "FIN_ACK")
    /\ FinishClose(p)
    /\ UNCHANGED <<session_id, fin_acked, pendingVars, boundVars>>

OnFinInFinWait(p) ==
    /\ Accepts(p, "FIN_WAIT", "FIN")
    /\ peer_fin_acked' = [peer_fin_acked EXCEPT ![p] = TRUE]
    /\ SendNow(p)
    /\ Answer(p, "FIN_ACK")
    /\ IF fin_acked[p] THEN FinishClose(p) ELSE UNCHANGED <<state, event, agreed>>
    /\ UNCHANGED <<session_id, fin_acked, pendingVars, boundVars>>

OnFinAckInCloseWait(p) ==
    /\ Accepts(p, "CLOSE_WAIT", "FIN_ACK")
    /\ ClearPending(p)
    /\ fin_acked' = [fin_acked EXCEPT ![p] = TRUE]
    /\ FinishClose(p)
    /\ Consume(p)
    /\ UNCHANGED <<session_id, peer_fin_acked, send_age, boundVars>>

(* What Session routes to the machine and is of no use in this state only  *)
(* starts the idle timer again.                                            *)
Useful == {<<"SYN_SENT", "SYN_ACK">>, <<"SYN_RCVD", "ACK">>,
           <<"ESTABLISHED", "SYN_ACK">>, <<"ESTABLISHED", "FIN">>,
           <<"FIN_WAIT", "FIN_ACK">>, <<"FIN_WAIT", "FIN">>,
           <<"CLOSE_WAIT", "FIN_ACK">>}

OnUseless(p) ==
    /\ link[p] # << >>
    /\ ~ OpensResponder(p, Head(link[p]))
    /\ <<state[p], Head(link[p]).type>> \notin Useful
    /\ Head(link[p]).type # "ACK"
    /\ Accepts(p, state[p], Head(link[p]).type)
    /\ Consume(p)
    /\ UNCHANGED <<machineVars, pendingVars, send_age, event, agreed, boundVars>>

(* A packet of another session, and an ACK on the control stream outside   *)
(* SYN_RCVD (_route_packet), leave no trace.                               *)
OnForeign(p) ==
    /\ link[p] # << >>
    /\ ~ OpensResponder(p, Head(link[p]))
    /\ \/ Head(link[p]).sid # session_id[p]
       \/ Head(link[p]).type = "ACK" /\ state[p] # "SYN_RCVD"
    /\ Consume(p)
    /\ UNCHANGED <<machineVars, pendingVars, recv_age, send_age, event, agreed,
                   boundVars>>

OnPacket(p) ==
    \/ OnSyn(p) \/ OnSynAck(p) \/ OnHandshakeAck(p) \/ OnRepeatedSynAck(p)
    \/ OnFin(p) \/ OnFinAckInFinWait(p) \/ OnFinInFinWait(p)
    \/ OnFinAckInCloseWait(p) \/ OnUseless(p) \/ OnForeign(p)

-----------------------------------------------------------------------------
(* on_tick(), in the order of its checks.                                  *)

IdleExpired(p) ==
    state[p] # "CLOSED" /\ recv_age[p] # Unset /\ recv_age[p] >= IdleTimeout

ControlDue(p) ==
    ~ IdleExpired(p) /\ pending_ctrl[p] # NoPacket /\ ctrl_age[p] >= ControlRto

(* The retries a packet is granted, compared as the code compares them.    *)
RetriesLeftForEver(p) == TRUE    \* slip: the limit is not looked at

RetriesLeft(p) == ctrl_retries[p] <= MaxControlRetries

(* Nothing was received for too long.                                      *)
TickIdleStillPending(p) ==    \* slip: the control packet stays armed
    /\ IdleExpired(p)
    /\ Move(p, "CLOSED")
    /\ Surface(p, IF state[p] \in {"FIN_WAIT", "CLOSE_WAIT"} THEN "CLOSED"
                  ELSE "TIMED_OUT")
    /\ UNCHANGED <<session_id, fin_acked, peer_fin_acked, pendingVars, recv_age,
                   send_age, link, agreed, boundVars>>

TickIdle(p) ==
    /\ IdleExpired(p)
    /\ Move(p, "CLOSED")
    /\ ClearPending(p)
    /\ Surface(p, IF state[p] \in {"FIN_WAIT", "CLOSE_WAIT"} THEN "CLOSED"
                  ELSE "TIMED_OUT")
    /\ UNCHANGED <<session_id, fin_acked, peer_fin_acked, recv_age, send_age, link,
                   agreed, boundVars>>

(* A control packet was never answered.                                    *)
TickGiveUp(p) ==
    /\ ControlDue(p)
    /\ ~ RetriesLeft(p)
    /\ Move(p, "CLOSED")
    /\ ClearPending(p)
    /\ Surface(p, IF state[p] \in {"SYN_SENT", "SYN_RCVD"} THEN "CONNECT_FAILED"
                  ELSE "TIMED_OUT")
    /\ UNCHANGED <<session_id, fin_acked, peer_fin_acked, recv_age, send_age, link,
                   agreed, boundVars>>

TickResendUncounted(p) ==    \* slip: _ctrl_retries is not raised
    /\ ControlDue(p)
    /\ RetriesLeft(p)
    /\ ctrl_age' = [ctrl_age EXCEPT ![p] = 0]
    /\ SendNow(p)
    /\ Transmit(p, pending_ctrl[p])
    /\ UNCHANGED <<machineVars, pending_ctrl, ctrl_retries, recv_age, event, agreed,
                   boundVars>>

TickResend(p) ==
    /\ ControlDue(p)
    /\ RetriesLeft(p)
    /\ ctrl_retries' = [ctrl_retries EXCEPT ![p] = @ + 1]
    /\ ctrl_age' = [ctrl_age EXCEPT ![p] = 0]
    /\ SendNow(p)
    /\ Transmit(p, pending_ctrl[p])
    /\ UNCHANGED <<machineVars, pending_ctrl, recv_age, event, agreed, boundVars>>

HeartbeatDueLate(p) ==    \* slip: only once the interval is exceeded
    /\ ~ IdleExpired(p)
    /\ ~ ControlDue(p)
    /\ state[p] = "ESTABLISHED"
    /\ send_age[p] > HeartbeatInterval

HeartbeatDue(p) ==
    /\ ~ IdleExpired(p)
    /\ ~ ControlDue(p)
    /\ state[p] = "ESTABLISHED"
    /\ send_age[p] = Unset \/ send_age[p] >= HeartbeatInterval

TickHeartbeat(p) ==
    /\ HeartbeatDue(p)
    /\ SendNow(p)
    /\ Transmit(p, "HEARTBEAT")
    /\ UNCHANGED <<machineVars, pendingVars, recv_age, event, agreed, boundVars>>

OnTick(p) == TickIdle(p) \/ TickGiveUp(p) \/ TickResend(p) \/ TickHeartbeat(p)

(* A unit of time passes at both peers.                                    *)
Older(age, limit) ==
    [p \in Peers |-> IF age[p] = Unset \/ age[p] = limit THEN age[p] ELSE age[p] + 1]

Elapse ==
    /\ recv_age' = Older(recv_age, IdleTimeout)
    /\ send_age' = Older(send_age, HeartbeatInterval)
    /\ ctrl_age' = [p \in Peers |->
                      IF pending_ctrl[p] = NoPacket THEN 0
                      ELSE Older(ctrl_age, ControlRto)[p]]
    /\ <<recv_age, send_age, ctrl_age>>' # <<recv_age, send_age, ctrl_age>>
    /\ UNCHANGED <<machineVars, pending_ctrl, ctrl_retries, link, event, agreed,
                   boundVars>>

-----------------------------------------------------------------------------
PeerStep(p) == Close(p) \/ NoteDataActivity(p) \/ OnPacket(p) \/ OnTick(p)

Next == Connect \/ Elapse \/ \E p \in Peers : PeerStep(p)

Spec == Init /\ [][Next]_vars

(* Hosts pump, so time passes for the machines and timers are looked at.   *)
FairSpec == Spec /\ WF_vars(Elapse) /\ \A p \in Peers : WF_vars(OnTick(p))

(* Both hosts pump at least once per unit of time, and whatever is on the  *)
(* link arrives within it.                                                 *)
TimelyNext ==
    \/ Connect
    \/ \E p \in Peers : PeerStep(p)
    \/ /\ Elapse
       /\ \A p \in Peers :
             /\ link[p] = << >>
             /\ ~ IdleExpired(p) /\ ~ ControlDue(p) /\ ~ HeartbeatDue(p)

TimelySpec == Init /\ [][TimelyNext]_vars

-----------------------------------------------------------------------------
(* Properties.                                                             *)

TypeOK ==
    /\ state \in [Peers -> States]
    /\ session_id \in [Peers -> {ProposedId, PlaceholderId}]
    /\ fin_acked \in [Peers -> BOOLEAN]
    /\ peer_fin_acked \in [Peers -> BOOLEAN]
    /\ pending_ctrl \in [Peers -> ControlTypes \cup {NoPacket}]
    /\ ctrl_age \in [Peers -> 0 .. ControlRto]
    /\ ctrl_retries \in [Peers -> 0 .. MaxControlRetries + 1]
    /\ recv_age \in [Peers -> {Unset} \cup 0 .. IdleTimeout]
    /\ send_age \in [Peers -> {Unset} \cup 0 .. HeartbeatInterval]
    /\ link \in [Peers -> Seq([type : ControlTypes, sid : {ProposedId, PlaceholderId}])]
    /\ event \in [Peers -> Events \cup {"none"}]
    /\ agreed \in [Peers -> BOOLEAN]
    /\ connects \in 0 .. MaxConnects
    /\ dataFrames \in [Peers -> 0 .. MaxDataFrames]

(* The packet a machine repeats is the one its state waits to have         *)
(* answered (state_machine.py:49-51), and a session that is established or *)
(* closed repeats none (state_machine.py:60-62): a closed session that did *)
(* would meet the retry limit and surface a second verdict.                *)
PendingFitsState ==
    \A p \in Peers :
        pending_ctrl[p] \in
            CASE state[p] = "SYN_SENT"   -> {"SYN"}
              [] state[p] = "SYN_RCVD"   -> {"SYN_ACK"}
              [] state[p] = "CLOSE_WAIT" -> {"FIN"}
              [] state[p] = "FIN_WAIT"   -> IF fin_acked[p] THEN {NoPacket} ELSE {"FIN"}
              [] OTHER                   -> {NoPacket}

(* Nobody comes up alone from the start: the responder only after the      *)
(* initiator did, and the initiator only with a responder that has adopted *)
(* its session id (state_machine.py:322-359).                              *)
HandshakeOrder ==
    LET up(p) == event[p] \in {"ESTABLISHED", "PEER_CLOSED", "CLOSED"}
    IN  /\ up(Responder) => up(Initiator) \/ event[Initiator] = "TIMED_OUT"
        /\ up(Initiator) => session_id[Responder] = session_id[Initiator]

(* A peer closes by agreement only when each of the two has seen and       *)
(* acknowledged the FIN of the other, and nobody is left behind who still  *)
(* takes the session for established (state_machine.py:169-173).           *)
CloseIsMutual ==
    \A p \in Peers :
        agreed[p] => /\ peer_fin_acked[p]
                     /\ peer_fin_acked[Peer(p)]
                     /\ state[Peer(p)] \in {"FIN_WAIT", "CLOSE_WAIT", "CLOSED"}

(* With both hosts and the link in time, heartbeats alone keep the session *)
(* up: it never ends but by agreement (states.py:85-87).                   *)
NeverGivenUp ==
    \A p \in Peers :
        /\ event[p] \notin {"TIMED_OUT", "CONNECT_FAILED"}
        /\ event[p] = "CLOSED" => agreed[p]

(* What a peer surfaces follows the life cycle of a session.               *)
Phase(p) ==
    CASE state[p] = "CLOSED" -> "down"
      [] state[p] \in {"SYN_SENT", "SYN_RCVD"} -> "opening"
      [] state[p] = "ESTABLISHED" -> "up"
      [] OTHER -> "closing"

InitiatorLife == INSTANCE SessionLifecycle WITH
    phase <- Phase(Initiator), event <- event[Initiator]
ResponderLife == INSTANCE SessionLifecycle WITH
    phase <- Phase(Responder), event <- event[Responder]

Lifecycles == InitiatorLife!Spec /\ ResponderLife!Spec

(* No attempt to open or to close goes on for ever, whatever is lost.      *)
AttemptsEnd ==
    \A p \in Peers :
        /\ state[p] \in {"SYN_SENT", "SYN_RCVD"} ~>
              state[p] \in {"ESTABLISHED", "CLOSED"}
        /\ state[p] \in {"FIN_WAIT", "CLOSE_WAIT"} ~> state[p] = "CLOSED"

(* "The pending packet is cleared [...] whenever the session reaches       *)
(* ESTABLISHED or CLOSED" (state_machine.py:60-62).                        *)
PendingCleared ==
    \A p \in Peers :
        state[p] \in {"ESTABLISHED", "CLOSED"} => pending_ctrl[p] = NoPacket
=============================================================================
