----------------------------- MODULE DataPlane -----------------------------
(***************************************************************************)
(* Two Sessions with their StreamMux over a pair of LoopbackChannels       *)
(* (src/photontcp/session/session.py, stream/mux.py, channel/loopback.py)  *)
(* or of ImageLoopbackChannels, whose frames are images (image_loopback.py). *)
(* The control plane is cut down to its handshake, and to a session that   *)
(* may end at any time and be opened again: SessionStateMachine.tla has    *)
(* the rest.  The endpoints are those of an arq_window_size of 1, with     *)
(* retransmissions to spare: ArqEndpoint.tla has the rest.                 *)
(***************************************************************************)
EXTENDS Naturals, Sequences, FiniteSets, SequencesExt

CONSTANTS
  Initiator, Responder,
  ProposedId, PlaceholderId,  \* the session ids the two are made with
  Settings,    \* the noise of the channels, and bounds: calls of send_on and of
               \* open_stream of each peer
  MaxLeaves,   \* bound: sessions that end, for each peer
  MaxInFlight  \* bound: frames in a queue; one more is lost

Peers == {Initiator, Responder}
Other(p) == IF p = Initiator THEN Responder ELSE Initiator

ASSUME DataPlaneAssumption ==
  /\ Initiator # Responder /\ ProposedId # PlaceholderId
  /\ MaxInFlight \in Nat /\ MaxLeaves \in Nat
  /\ Settings \subseteq [noise : SUBSET {"loss", "corrupt", "dup", "reorder", "degrade"},
                          sends : [Peers -> Nat],
                          opens : [Peers -> 0..127]]  \* ids of one byte: 3, 5, ..., 255 and 2, 4, ..., 254

CONTROL_STREAM_ID == 0
DEFAULT_STREAM_ID == 1

VARIABLES
  setting,  \* chosen once
  side,  \* of each peer: its Session, its StreamMux, and what the application did
  link   \* of each peer: the frames on their way to it, and the one held back

vars == <<setting, side, link>>

\* A chunk names its sender, its stream and its place among what was sent there.
Control(p, type) == [type |-> type, stream |-> CONTROL_STREAM_ID, id |-> side[p].id]
Data(ep, s, n) == [type |-> "DATA", stream |-> s, id |-> ep.id, num |-> n, chunk |-> ep.queued[n]]
Ack(ep, s) == [type |-> "ACK", stream |-> s, id |-> ep.id, num |-> ep.got]

----------------------------------------------------------------------------
(* The channel of one direction.                                           *)

\* pack and unpack: the checksum tells a frame that was changed on its way.
Pack(packet) == [packet |-> packet, intact |-> TRUE, readable |-> TRUE]
Corrupt(f) == [f EXCEPT !.intact = FALSE]
Unpacks(f) == f.intact

\* An image may come out so that it is not decoded.
Degrade(f) == [f EXCEPT !.readable = FALSE]

\* A frame is held back one slot, or follows the one held.
Pass(l, f) ==
  {[queue |-> l.queue \o l.held \o <<f>>, held |-> <<>>]}
  \cup {k \in {[queue |-> l.queue \o l.held, held |-> <<f>>]} : "reorder" \in setting.noise}

\* Lost, or passed on as it is, or changed, or unreadable, once or twice.
SendFrame(l, f) ==
  LET forms == {f} \cup {g \in {Corrupt(f)} : "corrupt" \in setting.noise}
                     \cup {g \in {Degrade(f)} : "degrade" \in setting.noise}
      once == UNION {Pass(l, g) : g \in forms}
      twice == UNION {UNION {Pass(k, g) : k \in Pass(l, g)} : g \in {g \in forms : "dup" \in setting.noise}}
      kept == {k \in once \cup twice : Len(k.queue) <= MaxInFlight}
  IN  IF "loss" \in setting.noise \/ kept = {} THEN kept \cup {l} ELSE kept

\* What may become of link l when one frame after the other is sent.
Outcomes(l, fs) ==
  LET some[i \in 0..Len(fs)] == IF i = 0 THEN {l} ELSE UNION {SendFrame(k, fs[i]) : k \in some[i - 1]}
  IN  some[Len(fs)]

\* Peer p sends packets when the links are ls; undisturbed: nothing happens to them.
Transmit(p, ls, packets, undisturbed) ==
  /\ UNCHANGED setting
  /\ LET l == ls[Other(p)]
         fs == [i \in 1..Len(packets) |-> Pack(packets[i])]
         all == [queue |-> l.queue \o l.held \o fs, held |-> <<>>]
     IN  \E k \in (IF undisturbed THEN {k \in {all} : Len(k.queue) <= MaxInFlight} ELSE Outcomes(l, fs)) :
           link' = [ls EXCEPT ![Other(p)] = k]

----------------------------------------------------------------------------
(* The multiplexer.  d is a side; a function on streams is a dict.         *)

NewEndpoint(d) == [id |-> d.mux_id, queued |-> <<>>, acked |-> 0, got |-> 0]

Endpoint(d, s) == IF s \in DOMAIN d.endpoints THEN d.endpoints[s] ELSE NewEndpoint(d)

\* dict[s] = v
Put(dict, s, v) == [t \in DOMAIN dict \cup {s} |-> IF t = s THEN v ELSE dict[t]]

\* slip: starts every stream anew
SetSessionIdAfresh(d) == [d EXCEPT !.mux_id = d.id, !.endpoints = <<>>]

SetSessionId(d) ==
  [d EXCEPT !.mux_id = d.id, !.endpoints = [s \in DOMAIN d.endpoints |-> [d.endpoints[s] EXCEPT !.id = d.id]]]

Unacked(d) == {s \in DOMAIN d.endpoints : d.endpoints[s].acked < Len(d.endpoints[s].queued)}

FirstOpenId(p) == IF p = Initiator THEN 3 ELSE 2

\* The lowest free id of this peer's parity.
OpenId(d) == CHOOSE s \in {d.next_open + 2 * k : k \in 0..Cardinality(DOMAIN d.endpoints)} :
  /\ s \notin DOMAIN d.endpoints
  /\ \A t \in {d.next_open + 2 * k : k \in 0..Cardinality(DOMAIN d.endpoints)} : t < s => t \in DOMAIN d.endpoints

----------------------------------------------------------------------------

\* A StreamMux in a Session, made with an id; what open_stream gave out, and two counts.
NewSide(p, id) ==
  [mux_id |-> id, endpoints |-> <<>>, next_open |-> FirstOpenId(p), opened |-> {},
   state |-> "CLOSED", id |-> id, pumping |-> FALSE, buffers |-> <<>>, sends |-> 0, leaves |-> 0]

\* A queue for each direction; nothing held back.
NewChannels == [p \in Peers |-> [queue |-> <<>>, held |-> <<>>]]

Init ==
  /\ setting \in Settings
  /\ side = [p \in Peers |-> NewSide(p, IF p = Initiator THEN ProposedId ELSE PlaceholderId)]
  /\ link = NewChannels

Idle(p) == ~side[p].pumping
Become(p, d) == side' = [side EXCEPT ![p] = d]

Connect(p) ==
  /\ p = Initiator /\ Idle(p) /\ side[p].state = "CLOSED"
  /\ Become(p, [side[p] EXCEPT !.state = "SYN_SENT"])
  /\ Transmit(p, link, <<Control(p, "SYN")>>, FALSE)

OpenStream(p) ==
  /\ Idle(p) /\ Cardinality(side[p].opened) < setting.opens[p]
  /\ LET d == side[p]  s == OpenId(d)
     IN  Become(p, [d EXCEPT !.endpoints = Put(@, s, NewEndpoint(d)), !.next_open = s + 2, !.opened = @ \cup {s}])
  /\ UNCHANGED <<setting, link>>

\* The application sends on the default stream, and on those that either has opened.
SendOn(p, s) ==
  /\ Idle(p) /\ side[p].state = "ESTABLISHED" /\ side[p].sends < setting.sends[p]
  /\ s \in {DEFAULT_STREAM_ID} \cup side[p].opened \cup DOMAIN side[p].endpoints
  /\ LET d == SetSessionId(side[p])
         ep == Endpoint(d, s)
         n == Len(ep.queued) + 1
         new == [ep EXCEPT !.queued = Append(@, <<p, s, n>>)]
     IN  /\ Become(p, [d EXCEPT !.endpoints = Put(@, s, new), !.sends = @ + 1])
         /\ Transmit(p, link, IF ep.acked = Len(ep.queued) THEN <<Data(new, s, n)>> ELSE <<>>, FALSE)

\* close, or a timer of the machine.
Leave(p) ==
  /\ side[p].state # "CLOSED" /\ side[p].leaves < MaxLeaves
  /\ Become(p, [side[p] EXCEPT !.state = "CLOSED", !.leaves = @ + 1])
  /\ UNCHANGED <<setting, link>>

\* slip: the data plane keeps the id it was made with
PumpBeginsUnsynced(p) ==
  /\ Idle(p)
  /\ Become(p, [side[p] EXCEPT !.pumping = TRUE])
  /\ UNCHANGED <<setting, link>>

PumpBegins(p) ==
  /\ Idle(p)
  /\ Become(p, [SetSessionId(side[p]) EXCEPT !.pumping = TRUE])
  /\ UNCHANGED <<setting, link>>

\* A control frame f: the side after it, and the answer.
OnControl(p, f) ==
  LET d == side[p]  answer(type) == <<[Control(p, type) EXCEPT !.id = f.id]>>
  IN  CASE d.state = "CLOSED" /\ p = Responder /\ f.type = "SYN" ->
             [d |-> [d EXCEPT !.state = "SYN_RCVD", !.id = f.id], out |-> answer("SYN_ACK")]
        [] f.id = d.id /\ d.state \in {"SYN_SENT", "ESTABLISHED"} /\ f.type = "SYN_ACK" ->
             [d |-> [d EXCEPT !.state = "ESTABLISHED"], out |-> answer("ACK")]
        [] f.id = d.id /\ d.state = "SYN_RCVD" /\ f.type = "ACK" ->
             [d |-> [d EXCEPT !.state = "ESTABLISHED"], out |-> <<>>]
        [] OTHER -> [d |-> d, out |-> <<>>]

\* A frame of stream s: its endpoint exists from now on, whosever session it is of.
OnStream(d, f) ==
  LET s == f.stream
      ep == Endpoint(d, s)
      got == IF f.type = "DATA" /\ f.num = ep.got + 1 THEN [ep EXCEPT !.got = f.num] ELSE ep
      acked == [ep EXCEPT !.acked = f.num]
  IN  CASE f.id # ep.id -> [d |-> [d EXCEPT !.endpoints = Put(@, s, ep)], out |-> <<>>]
        [] f.id = ep.id /\ f.type = "DATA" ->
             [d |-> [d EXCEPT !.endpoints = Put(@, s, got),
                              !.buffers = IF got = ep THEN @
                                          ELSE Put(@, s, (IF s \in DOMAIN @ THEN @[s] ELSE <<>>) \o <<f.chunk>>)],
              out |-> <<Ack(got, s)>>]
        [] f.id = ep.id /\ f.type = "ACK" /\ f.num > ep.acked ->
             [d |-> [d EXCEPT !.endpoints = Put(@, s, acked)],
              out |-> IF f.num < Len(ep.queued) THEN <<Data(acked, s, f.num + 1)>> ELSE <<>>]
        [] OTHER -> [d |-> [d EXCEPT !.endpoints = Put(@, s, ep)], out |-> <<>>]

\* What recv_frame returns: nothing, also where the image that is next is not decoded.
Received(p) == {f \in ToSet(link[p].queue) : f = Head(link[p].queue) /\ f.readable}

RoutePacket(p, undisturbed) ==
  /\ side[p].pumping /\ Received(p) # {} /\ Unpacks(Head(link[p].queue))
  /\ LET f == Head(link[p].queue).packet
         r == IF f.stream = CONTROL_STREAM_ID THEN OnControl(p, f) ELSE OnStream(side[p], f)
     IN  /\ Become(p, r.d)
         /\ Transmit(p, [link EXCEPT ![p].queue = Tail(@)], r.out, undisturbed)

DropMalformed(p) ==
  /\ side[p].pumping /\ Received(p) # {} /\ ~Unpacks(Head(link[p].queue))
  /\ link' = [link EXCEPT ![p].queue = Tail(@)]
  /\ UNCHANGED <<setting, side>>

\* The control packet that is armed, if it is due, and the chunks outstanding on the streams
\* that are due, in whatever order these were made.
Ticks(p, control_due, due) ==
  (CASE control_due /\ side[p].state = "SYN_SENT" -> <<Control(p, "SYN")>>
     [] control_due /\ side[p].state = "SYN_RCVD" -> <<Control(p, "SYN_ACK")>>
     [] OTHER -> <<>>)
  \o [i \in 1..Len(due) |-> LET ep == side[p].endpoints[due[i]] IN Data(ep, due[i], ep.acked + 1)]

\* The queue was found empty, or an image that is lost with it.
PumpEnds(p, undisturbed) ==
  /\ side[p].pumping /\ Received(p) = {}
  /\ Become(p, [side[p] EXCEPT !.pumping = FALSE])
  /\ \E control_due \in BOOLEAN, some \in SUBSET Unacked(side[p]) : \E due \in SetToSeqs(some) :
       /\ undisturbed => some = Unacked(side[p])
       /\ Transmit(p, [link EXCEPT ![p].queue = IF @ = <<>> THEN @ ELSE Tail(@)], Ticks(p, control_due, due), undisturbed)

Next ==
  \E p \in Peers :
    \/ Connect(p) \/ OpenStream(p) \/ Leave(p)
    \/ \E s \in DOMAIN side[p].endpoints \cup {DEFAULT_STREAM_ID} : SendOn(p, s)
    \/ PumpBegins(p) \/ RoutePacket(p, FALSE) \/ DropMalformed(p) \/ PumpEnds(p, FALSE)

Spec == Init /\ [][Next]_vars

RoutesControl(p) == link[p].queue # <<>> /\ Head(link[p].queue).packet.stream = CONTROL_STREAM_ID

\* Both hosts keep pumping, each drains its queue faster than the other's timers fill it,
\* and the channel does not disturb every frame of either plane for ever.
FairSpec ==
  /\ Spec
  /\ \A p \in Peers :
       /\ WF_vars(PumpBegins(p)) /\ WF_vars(RoutePacket(p, FALSE) \/ DropMalformed(p)) /\ WF_vars(PumpEnds(p, FALSE))
       /\ []<>~side[p].pumping
       /\ SF_vars(PumpEnds(p, TRUE))
       /\ SF_vars(RoutesControl(p) /\ RoutePacket(p, TRUE)) /\ SF_vars(~RoutesControl(p) /\ RoutePacket(p, TRUE))

----------------------------------------------------------------------------

SentOn(p, s) == IF s \in DOMAIN side[p].endpoints THEN side[p].endpoints[s].queued ELSE <<>>
ArrivedOn(p, s) == IF s \in DOMAIN side[p].buffers THEN side[p].buffers[s] ELSE <<>>
StreamsUsed == UNION {DOMAIN side[p].endpoints : p \in Peers}

\* What arrives on a stream is what the other peer sent on it, in order and once, over
\* implicitly opened endpoints and sessions that end and come back on the same objects;
\* what a peer takes for acknowledged, and so never sends again, has arrived, whichever
\* session the acknowledgement is of; and the peers never open the same stream, whichever
\* endpoints the packets of the other have created meanwhile (mux.py:162-197, 209-228,
\* 247-255; session.py:506-518).
StreamsIntact ==
  /\ \A p \in Peers : \A s \in StreamsUsed : IsPrefix(ArrivedOn(p, s), SentOn(Other(p), s))
  /\ \A p \in Peers : \A s \in DOMAIN side[p].endpoints : side[p].endpoints[s].acked <= Len(ArrivedOn(Other(p), s))
  /\ side[Initiator].opened \cap side[Responder].opened = {}

\* What send_on accepts arrives, although DATA drained in the cycle of the SYN is dropped
\* as foreign, and whatever becomes of the session (session.py:405, 448-452): time and
\* again nothing is missing.
SendsArrive ==
  []<>(\A p \in Peers : \A s \in StreamsUsed : ArrivedOn(Other(p), s) = SentOn(p, s))
=============================================================================
