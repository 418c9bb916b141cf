----------------------------- MODULE ArqEndpoint -----------------------------
(***************************************************************************)
(* One direction of src/photontcp/reliability/arq.py: the sender half of   *)
(* one ArqEndpoint, the receiver half of its peer, and the link between.   *)
(*                                                                         *)
(* The two halves of an endpoint share no state that either reads: a DATA  *)
(* packet carries an ack and a window too (_emit_data), but _on_data uses  *)
(* only its seq and payload, and _on_ack / _on_nack only their ack and     *)
(* window.  So one direction is the whole protocol, and the fields nobody  *)
(* reads are left out of the packets.                                      *)
(*                                                                         *)
(* A chunk is the number of its submission (1 for the first chunk the      *)
(* application ever passed to send), so that the properties can tell one   *)
(* from another; its bytes do not matter.  Time is left out: which         *)
(* outstanding packets have timed out when on_tick runs is any non-empty   *)
(* set of them.                                                            *)
(*                                                                         *)
(* The link (LoopbackChannel, or a screen and a camera) may lose, repeat,  *)
(* delay and reorder.  A packet put on it stays there and may be received  *)
(* any number of times, or never, at any later moment; with LossyLink it   *)
(* may also be destroyed, so that only a retransmission brings it back.    *)
(***************************************************************************)
EXTENDS SerialArith, Sequences, FiniteSetsExt

CONSTANTS
    ISN,          \* send_isn of the sender, recv_isn of the receiver
    SendWindow,   \* window_size of the sender
    RecvWindow,   \* window_size of the receiver
    MaxRetx,      \* max_retx of the sender
    MaxChunks,    \* bound: chunks the application submits in all
    MaxBurst,     \* bound: chunks one send() is split into
    RetxCap,      \* retx_count is recorded up to here (see Retransmit)
    LossyLink     \* whether the link also destroys packets

(* The constructor's checks (arq.py:141-146); and sequence numbers never   *)
(* get half of the space apart, which the 32-bit space grants a stream of  *)
(* fewer than 2 ^ 31 - window chunks.                                      *)
ASSUME ArqAssumption ==
    /\ ISN \in Seqs
    /\ SendWindow \in Nat \ {0}
    /\ RecvWindow \in Nat \ {0}
    /\ MaxRetx \in Nat
    /\ MaxChunks \in Nat
    /\ MaxBurst \in Nat
    /\ RetxCap \in Nat \ {0}
    /\ LossyLink \in BOOLEAN
    /\ MaxChunks + RecvWindow < SeqHalf

VARIABLES
    next_seq,     \* next sequence number to emit
    outstanding,  \* seq -> [chunk, retx], emitted and not yet acknowledged
    peer_window,  \* window of the last ACK or NACK processed
    pending,      \* chunks queued because the window was full
    acked,        \* chunks acknowledged (acked_bytes, a chunk being one unit)
    failed,       \* a packet ran out of retransmissions
    rcv_base,     \* next sequence number to deliver
    reorder,      \* seq -> chunk, received ahead of rcv_base
    nacked,       \* holes a NACK was already sent for
    dataLink,     \* DATA packets on the link
    ackLink,      \* ACK and NACK packets on the link
    submitted,    \* history: number of chunks passed to send
    emitted,      \* history: chunks in the order they got sequence numbers
    delivered     \* history: chunks in the order the application got them

senderVars   == <<next_seq, outstanding, peer_window, pending, acked, failed>>
receiverVars == <<rcv_base, reorder, nacked>>
linkVars     == <<dataLink, ackLink>>
historyVars  == <<submitted, emitted, delivered>>
vars == <<senderVars, receiverVars, linkVars, historyVars>>

Chunks == 1 .. MaxChunks

DataPacket(s, c) == [seq |-> s, chunk |-> c]
Ack(base, window) == [type |-> "ACK", ack |-> base, window |-> window]
Nack(missing, window) == [type |-> "NACK", ack |-> missing, window |-> window]

Init ==
    /\ next_seq = ISN
    /\ outstanding = << >>
    /\ peer_window = SendWindow
    /\ pending = << >>
    /\ acked = 0
    /\ failed = FALSE
    /\ rcv_base = ISN
    /\ reorder = << >>
    /\ nacked = {}
    /\ dataLink = {}
    /\ ackLink = {}
    /\ submitted = 0
    /\ emitted = << >>
    /\ delivered = << >>

-----------------------------------------------------------------------------
(* The sender half.                                                        *)

(* How many more packets _can_send lets out when o is outstanding and the  *)
(* peer has advertised w.                                                  *)
SendRoomIgnoringFlight(o, w) == Min({SendWindow, w})    \* slip: see SendRoom

SendRoom(o, w) ==
    Max({0, Min({SendWindow, w}) - Cardinality(DOMAIN o)})

(* _emit_data for each chunk of cs in turn, o being outstanding.           *)
EmitSeqs(n) == {seq_add(next_seq, j) : j \in 0 .. n - 1}

Emit(o, cs) ==
    LET new == EmitSeqs(Len(cs))
        chunkOf(s) == cs[seq_diff(s, next_seq) + 1]
    IN  /\ outstanding' =
             [s \in DOMAIN o \cup new |->
                IF s \in new THEN [chunk |-> chunkOf(s), retx |-> 0] ELSE o[s]]
        /\ next_seq' = seq_add(next_seq, Len(cs))
        /\ dataLink' = dataLink \cup {DataPacket(s, chunkOf(s)) : s \in new}
        /\ emitted' = emitted \o cs

(* send(): the data is split into k chunks; those that fit in the window   *)
(* are emitted at once, the rest are queued.  Nothing looks at the queue   *)
(* first, and nothing looks at failed.                                     *)
SendDroppingOverflow(k) ==    \* slip: the rest is not queued
    /\ submitted + k <= MaxChunks
    /\ LET cs   == [j \in 1 .. k |-> submitted + j]
           fits == Min({k, SendRoom(outstanding, peer_window)})
       IN  Emit(outstanding, SubSeq(cs, 1, fits))
    /\ submitted' = submitted + k
    /\ UNCHANGED <<peer_window, pending, acked, failed, receiverVars, ackLink,
                   delivered>>

Send(k) ==
    /\ submitted + k <= MaxChunks
    /\ LET cs   == [j \in 1 .. k |-> submitted + j]
           fits == Min({k, SendRoom(outstanding, peer_window)})
       IN  /\ Emit(outstanding, SubSeq(cs, 1, fits))
           /\ pending' = pending \o SubSeq(cs, fits + 1, k)
    /\ submitted' = submitted + k
    /\ UNCHANGED <<peer_window, acked, failed, receiverVars, ackLink, delivered>>

(* The outstanding packets a cumulative ACK covers.                        *)
CoveredInclusive(ack) ==    \* slip: the packet the peer expects next too
    {s \in DOMAIN outstanding : seq_leq(s, ack)}

Covered(ack) == {s \in DOMAIN outstanding : seq_lt(s, ack)}

(* How many queued chunks _flush_pending emits when o is outstanding.      *)
FlushNothing(o, w) == 0    \* slip: the queue is left alone

FlushLength(o, w) == Min({Len(pending), SendRoom(o, w)})

(* _on_ack(): adopt the window, drop what the cumulative ACK covers, then  *)
(* emit as much of the queue as the window allows (_flush_pending).        *)
OnAck(p) ==
    /\ p \in ackLink
    /\ p.type = "ACK"
    /\ LET rest == [s \in DOMAIN outstanding \ Covered(p.ack) |-> outstanding[s]]
           n == FlushLength(rest, p.window)
       IN  /\ acked' = acked + Cardinality(Covered(p.ack))
           /\ Emit(rest, SubSeq(pending, 1, n))
           /\ pending' = SubSeq(pending, n + 1, Len(pending))
    /\ peer_window' = p.window
    /\ UNCHANGED <<failed, receiverVars, ackLink, submitted, delivered>>

(* A retransmission counts against the budget and puts the packet on the   *)
(* link again.  The code only compares retx_count with max_retx (and with  *)
(* 0, for RTT samples), so counts are recorded up to RetxCap: MaxRetx + 1  *)
(* loses nothing, and a smaller one stands for a budget without end.       *)
RetransmitUncounted(S) ==    \* slip: retx_count is not raised
    /\ dataLink' = dataLink \cup
         {DataPacket(s, outstanding[s].chunk) : s \in S}
    /\ UNCHANGED outstanding

RetransmitUnsent(S) ==    \* slip: the packet is counted and not sent
    /\ outstanding' =
         [s \in DOMAIN outstanding |->
            IF s \in S
            THEN [outstanding[s] EXCEPT !.retx = Min({@ + 1, RetxCap})]
            ELSE outstanding[s]]
    /\ UNCHANGED dataLink

Retransmit(S) ==
    /\ outstanding' =
         [s \in DOMAIN outstanding |->
            IF s \in S
            THEN [outstanding[s] EXCEPT !.retx = Min({@ + 1, RetxCap})]
            ELSE outstanding[s]]
    /\ dataLink' = dataLink \cup
         {DataPacket(s, outstanding[s].chunk) : s \in S}

(* _on_nack(): adopt the window and resend the packet asked for, if it is  *)
(* still outstanding.  Neither the budget nor failed is looked at, and the *)
(* queue is not flushed.                                                   *)
OnNack(p) ==
    /\ p \in ackLink
    /\ p.type = "NACK"
    /\ Retransmit({p.ack} \cap DOMAIN outstanding)
    /\ peer_window' = p.window
    /\ UNCHANGED <<next_seq, pending, acked, failed, receiverVars, ackLink,
                   historyVars>>

(* on_tick() when the packets of T have timed out: they are resent in      *)
(* order until one is met that has used up its budget; then the endpoint   *)
(* fails.  A failed endpoint does nothing on a tick.                       *)
OnTick(T) ==
    /\ ~failed
    /\ T # {}
    /\ T \subseteq DOMAIN outstanding
    /\ LET exhausted == {s \in T : outstanding[s].retx >= MaxRetx}
       IN  /\ Retransmit({s \in T : \A e \in exhausted : seq_lt(s, e)})
           /\ failed' = (exhausted # {})
    /\ UNCHANGED <<next_seq, peer_window, pending, acked, receiverVars, ackLink,
                   historyVars>>

-----------------------------------------------------------------------------
(* The receiver half.                                                      *)

(* _recv_advertised_window(): free slots of the reorder buffer.            *)
AdvertisedWindowLessOne(buf) ==    \* slip: a slot kept for the next chunk
    Max({0, RecvWindow - 1 - Cardinality(DOMAIN buf)})

AdvertisedWindow(buf) == Max({0, RecvWindow - Cardinality(DOMAIN buf)})

(* Chunks buffered without a gap from base on: what the drain loop of      *)
(* _on_data pops.                                                          *)
DrainLength(base, buf) ==
    Min({k \in 0 .. RecvWindow : seq_add(base, k) \notin DOMAIN buf})

(* Distances from base to the holes below the highest buffered chunk.      *)
Holes(base, buf) ==
    {k \in 0 .. RecvWindow :
        /\ seq_add(base, k) \notin DOMAIN buf
        /\ \E s \in DOMAIN buf : k < seq_diff(s, base)}

(* _lowest_missing_seq(), as the set of at most one number.                *)
LowestMissing(base, buf) ==
    IF Holes(base, buf) = {} THEN {} ELSE {seq_add(base, Min(Holes(base, buf)))}

(* _prune_nacked(): the NACK records still ahead of base.                  *)
PruneNothing(base) == nacked    \* slip: old records stay

Prune(base) == {s \in nacked : seq_lt(base, s)}

(* The end of _on_data: always a cumulative ACK of the new state, and a    *)
(* NACK for the lowest hole unless one was sent for it; kept is what       *)
(* _prune_nacked left of the record.                                       *)
Reply(base, buf, kept) ==
    LET w == AdvertisedWindow(buf)
        fresh == LowestMissing(base, buf) \ kept
    IN  /\ ackLink' = ackLink \cup {Ack(base, w)} \cup {Nack(s, w) : s \in fresh}
        /\ nacked' = kept \cup fresh

(* _on_data() of the chunk expected next: deliver it and what it makes     *)
(* contiguous, and forget the NACKs now passed.                            *)
OnDataInOrder(p) ==
    /\ p \in dataLink
    /\ p.seq = rcv_base
    /\ LET n == DrainLength(seq_add(rcv_base, 1), reorder)
           base == seq_add(rcv_base, n + 1)
           drained == {seq_add(rcv_base, k) : k \in 1 .. n}
           buf == [s \in DOMAIN reorder \ drained |-> reorder[s]]
       IN  /\ delivered' = delivered \o <<p.chunk>>
                             \o [k \in 1 .. n |-> reorder[seq_add(rcv_base, k)]]
           /\ rcv_base' = base
           /\ reorder' = buf
           /\ Reply(base, buf, Prune(base))
    /\ UNCHANGED <<senderVars, dataLink, submitted, emitted>>

(* _on_data() of a later chunk: keep it if it is inside the window and     *)
(* new; answer in any case.                                                *)
OnDataAhead(p) ==
    /\ p \in dataLink
    /\ seq_lt(rcv_base, p.seq)
    /\ LET keep == /\ seq_diff(p.seq, rcv_base) < RecvWindow
                   /\ p.seq \notin DOMAIN reorder
           buf == IF keep
                  THEN [s \in DOMAIN reorder \cup {p.seq} |->
                          IF s = p.seq THEN p.chunk ELSE reorder[s]]
                  ELSE reorder
       IN  /\ reorder' = buf
           /\ Reply(rcv_base, buf, nacked)
    /\ UNCHANGED <<senderVars, rcv_base, dataLink, historyVars>>

(* _on_data() of a chunk delivered before: only the answer.                *)
OnDataOldDelivers(p) ==    \* slip: it is handed over again
    /\ p \in dataLink
    /\ p.seq # rcv_base
    /\ ~seq_lt(rcv_base, p.seq)
    /\ delivered' = Append(delivered, p.chunk)
    /\ Reply(rcv_base, reorder, nacked)
    /\ UNCHANGED <<senderVars, rcv_base, reorder, dataLink, submitted, emitted>>

OnDataOld(p) ==
    /\ p \in dataLink
    /\ p.seq # rcv_base
    /\ ~seq_lt(rcv_base, p.seq)
    /\ Reply(rcv_base, reorder, nacked)
    /\ UNCHANGED <<senderVars, rcv_base, reorder, dataLink, historyVars>>

OnData(p) == OnDataInOrder(p) \/ OnDataAhead(p) \/ OnDataOld(p)

-----------------------------------------------------------------------------
(* The link.                                                               *)

LoseData(p) ==
    /\ LossyLink
    /\ p \in dataLink
    /\ dataLink' = dataLink \ {p}
    /\ UNCHANGED <<senderVars, receiverVars, ackLink, historyVars>>

LoseAck(p) ==
    /\ LossyLink
    /\ p \in ackLink
    /\ ackLink' = ackLink \ {p}
    /\ UNCHANGED <<senderVars, receiverVars, dataLink, historyVars>>

-----------------------------------------------------------------------------
Tick == \E T \in SUBSET DOMAIN outstanding : OnTick(T)

Next ==
    \/ \E k \in 1 .. MaxBurst : Send(k)
    \/ \E p \in ackLink : OnAck(p) \/ OnNack(p)
    \/ Tick
    \/ \E p \in dataLink : OnData(p)
    \/ \E p \in dataLink : LoseData(p)
    \/ \E p \in ackLink : LoseAck(p)

Spec == Init /\ [][Next]_vars

-----------------------------------------------------------------------------
(* Properties.                                                             *)

(* The kinds of value every variable holds: sequence numbers are numbers   *)
(* of the space, the windows are within what the endpoints advertise.      *)
TypeOK ==
    /\ next_seq \in Seqs
    /\ DOMAIN outstanding \subseteq Seqs
    /\ outstanding \in [DOMAIN outstanding -> [chunk : Chunks, retx : 0 .. RetxCap]]
    /\ peer_window \in 0 .. Max({SendWindow, RecvWindow})
    /\ pending \in Seq(Chunks)
    /\ acked \in 0 .. MaxChunks
    /\ failed \in BOOLEAN
    /\ rcv_base \in Seqs
    /\ DOMAIN reorder \subseteq Seqs
    /\ reorder \in [DOMAIN reorder -> Chunks]
    /\ nacked \subseteq Seqs
    /\ dataLink \subseteq [seq : Seqs, chunk : Chunks]
    /\ ackLink \subseteq [type : {"ACK", "NACK"}, ack : Seqs, window : 0 .. RecvWindow]
    /\ submitted \in 0 .. MaxChunks
    /\ emitted \in Seq(Chunks)
    /\ delivered \in Seq(Chunks)

(* What the receiving application has been handed is, whatever the link    *)
(* did and however often sequence numbers wrapped, exactly the chunks in   *)
(* the order they were first transmitted: nothing skipped, repeated or     *)
(* taken from another position (_on_data).                                 *)
InOrderDelivery ==
    /\ Len(delivered) <= Len(emitted)
    /\ \A i \in 1 .. Len(delivered) : delivered[i] = emitted[i]

(* A chunk the sender has dropped from its window as acknowledged was      *)
(* handed to the receiving application (_on_ack), so acked_bytes never     *)
(* reports progress that was not made; the rest of what was emitted is     *)
(* still outstanding under its own number and can be retransmitted.        *)
NoFalseAck ==
    /\ acked <= Len(delivered)
    /\ DOMAIN outstanding = {SeqOf(ISN, i) : i \in acked .. Len(emitted) - 1}
    /\ \A i \in acked .. Len(emitted) - 1 :
          outstanding[SeqOf(ISN, i)].chunk = emitted[i + 1]

(* Every chunk passed to send has been emitted or is queued, exactly once  *)
(* (send, _flush_pending).                                                 *)
ChunkConservation ==
    /\ Len(emitted) + Len(pending) = submitted
    /\ Range(emitted) \cup Range(pending) = 1 .. submitted

(* No receiver ever advertises a closed window.  The code has no probe for *)
(* one: a sender that adopted window 0 with nothing outstanding could      *)
(* never send again (_recv_advertised_window, _can_send).                  *)
NoZeroWindow ==
    /\ \A p \in ackLink : p.window >= 1
    /\ peer_window >= 1

(* While chunks are queued a packet is outstanding, so an ACK or a timeout *)
(* is still to come that gets the queue moving: the queue is flushed by    *)
(* _on_ack alone.                                                          *)
QueueHasPilot == pending # << >> => DOMAIN outstanding # {}

(* The reorder buffer holds only chunks strictly inside the window, and    *)
(* while it holds any the lowest hole - which is the chunk expected next - *)
(* has been NACKed and no other hole is remembered (_lowest_missing_seq,   *)
(* _prune_nacked).                                                         *)
HoleIsNacked ==
    /\ \A s \in DOMAIN reorder : seq_diff(s, rcv_base) \in 1 .. RecvWindow - 1
    /\ nacked \subseteq {rcv_base}
    /\ DOMAIN reorder # {} => nacked = {rcv_base}

(* Flow control: the sender never has more packets outstanding than its    *)
(* window, and, when the receiver's window is no smaller, nothing it has   *)
(* ever sent is so far ahead that the receiver would throw it away.        *)
WindowRespected ==
    /\ Cardinality(DOMAIN outstanding) <= SendWindow
    /\ SendWindow <= RecvWindow =>
          \A p \in dataLink : seq_diff(p.seq, rcv_base) < RecvWindow

(* send's docstring (arq.py:296): "Queue *data* for reliable, ordered      *)
(* delivery to the peer".  Chunks are handed over in submission order.     *)
SubmissionOrder ==
    \A i \in 1 .. Len(delivered) : delivered[i] = i

(* This direction implements a reliable stream of the emitted chunks.      *)
Stream == INSTANCE ReliableStream WITH
    Chunk <- Chunks, log <- emitted, received <- delivered, confirmed <- acked

ImplementsStream == Stream!Spec

-----------------------------------------------------------------------------
(* The inductive invariant: what the two halves and the link are, in terms *)
(* of positions in the log of emitted chunks.  It implies the invariants   *)
(* above.                                                                  *)

(* Position i of the stream as a sequence number, and a run of them.       *)
Pos(i) == SeqOf(ISN, i)
PosSet(a, b) == {Pos(i) : i \in a .. b - 1}

(* o holds exactly the chunks at positions a, a+1, ... of the log.         *)
Flight(o, a, chunks) ==
    /\ o = [s \in PosSet(a, Len(chunks)) |-> o[s]]
    /\ \A i \in a .. Len(chunks) - 1 :
          o[Pos(i)] \in [chunk : {chunks[i + 1]}, retx : 0 .. RetxCap]

SenderInv ==
    /\ emitted \in Seq(Chunks)
    /\ pending \in Seq(Chunks)
    /\ submitted \in 0 .. MaxChunks
    /\ Len(emitted) + Len(pending) = submitted
    /\ acked \in 0 .. Len(emitted)
    /\ Len(emitted) - acked <= SendWindow
    /\ next_seq = Pos(Len(emitted))
    /\ Flight(outstanding, acked, emitted)
    /\ peer_window \in 1 .. Max({SendWindow, RecvWindow})
    /\ failed \in BOOLEAN
    /\ pending # << >> => acked < Len(emitted)

(* b holds chunks of the log from positions after d, inside the window.    *)
Buffered(b, d, chunks) ==
    /\ b = [s \in DOMAIN b |-> b[s]]
    /\ \A s \in DOMAIN b : \E i \in d + 1 .. Len(chunks) - 1 :
          /\ i < d + RecvWindow
          /\ s = Pos(i)
          /\ b[s] = chunks[i + 1]

ReceiverInv ==
    /\ delivered \in Seq(Chunks)
    /\ acked <= Len(delivered)
    /\ InOrderDelivery
    /\ rcv_base = Pos(Len(delivered))
    /\ Buffered(reorder, Len(delivered), emitted)
    /\ nacked \subseteq {rcv_base}
    /\ DOMAIN reorder # {} => nacked = {rcv_base}

LinkInv ==
    /\ \A p \in dataLink : \E i \in 0 .. Len(emitted) - 1 :
          p = DataPacket(Pos(i), emitted[i + 1])
    /\ \A p \in ackLink : \E i \in 0 .. Len(delivered), w \in 1 .. RecvWindow :
          p = Ack(Pos(i), w) \/ p = Nack(Pos(i), w)

IInv == SenderInv /\ ReceiverInv /\ LinkInv

-----------------------------------------------------------------------------
(* Liveness.                                                               *)

(* Hosts call on_tick on every pass of their pump loop and time advances,  *)
(* so while packets are outstanding and not failed, some timer runs out.   *)
TimedSpec == Spec /\ WF_vars(Tick)

(* The timer of the oldest outstanding packet is one of those: nothing     *)
(* but its own retransmission restarts it.                                 *)
TickOldest ==
    \E T \in SUBSET DOMAIN outstanding :
        SeqOf(ISN, acked) \in T /\ OnTick(T)

(* A link that may destroy packets, but not forever: when the chunk        *)
(* expected next, a chunk delivered before, or an ACK with news is on the  *)
(* link again and again, one is received.                                  *)
FairSpec ==
    /\ Spec
    /\ WF_vars(TickOldest)
    /\ SF_vars(\E p \in dataLink : OnDataInOrder(p))
    /\ SF_vars(\E p \in dataLink : OnDataOld(p))
    /\ SF_vars(\E p \in ackLink : OnAck(p) /\ acked' > acked)

(* Every chunk's fate is decided, even over a dead link: it is             *)
(* acknowledged, or the endpoint reports SEND_FAILED (on_tick).            *)
EventuallySettled ==
    \A i \in Chunks : (submitted >= i) ~> (acked >= i \/ failed)

(* Over a link that may destroy any packet, but not forever, and with      *)
(* retransmissions to spare, everything submitted is delivered and         *)
(* acknowledged.                                                           *)
EventuallyDelivered ==
    \A i \in Chunks : (submitted >= i) ~> (Len(delivered) >= i /\ acked >= i)
=============================================================================
