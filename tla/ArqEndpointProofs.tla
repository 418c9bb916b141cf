-------------------------- MODULE ArqEndpointProofs --------------------------
(***************************************************************************)
(* Proofs about ArqEndpoint, for every modulus, initial sequence number,   *)
(* window and retransmission budget that its assumptions allow.            *)
(***************************************************************************)
EXTENDS ArqEndpoint, SerialArithProofs, FiniteSetTheorems, WellFoundedInduction

(* Positions the endpoints ever name.                                      *)
Positions == 0 .. MaxChunks + RecvWindow

LEMMA ConstantFacts ==
    /\ ISN \in Seqs
    /\ SendWindow \in Nat /\ SendWindow >= 1
    /\ RecvWindow \in Nat /\ RecvWindow >= 1
    /\ MaxRetx \in Nat
    /\ MaxChunks \in Nat
    /\ MaxBurst \in Nat
    /\ RetxCap \in Nat /\ RetxCap >= 1
    /\ SeqHalf \in Nat
    /\ MaxChunks + RecvWindow < SeqHalf
  BY ArqAssumption, HalfFacts, SMT

LEMMA PosType == ASSUME NEW i \in Int PROVE Pos(i) \in Seqs
  BY SeqOfType, ConstantFacts DEF Pos

LEMMA PosAdd ==
    ASSUME NEW i \in Int, NEW n \in Int
    PROVE  seq_add(Pos(i), n) = Pos(i + n)
  BY SeqOfAdd, ConstantFacts DEF Pos

LEMMA PosLt ==
    ASSUME NEW i \in Positions, NEW j \in Positions
    PROVE  seq_lt(Pos(i), Pos(j)) <=> i < j
<1>1. i \in Int /\ j \in Int /\ -SeqHalf < j - i /\ j - i < SeqHalf
  BY ConstantFacts, SMT DEF Positions
<1> QED  BY <1>1, SeqLtOrder, ConstantFacts DEF Pos

LEMMA PosDiff ==
    ASSUME NEW i \in Positions, NEW j \in Positions
    PROVE  seq_diff(Pos(i), Pos(j)) = i - j
<1>1. i \in Int /\ j \in Int /\ -SeqHalf < i - j /\ i - j < SeqHalf
  BY ConstantFacts, SMT DEF Positions
<1> QED  BY <1>1, SeqDiffOrder, ConstantFacts DEF Pos

LEMMA PosInjective ==
    ASSUME NEW i \in Positions, NEW j \in Positions, Pos(i) = Pos(j)
    PROVE  i = j
<1>1. i \in Int /\ j \in Int /\ -SeqHalf < i - j /\ i - j < SeqHalf
  BY ConstantFacts, SMT DEF Positions
<1> QED  BY <1>1, SeqOfInjective, ConstantFacts DEF Pos

(* A run of consecutive positions has as many numbers as positions.        *)
LEMMA PosSetCardinality ==
    ASSUME NEW a \in Positions, NEW b \in Positions, a <= b
    PROVE  IsFiniteSet(PosSet(a, b)) /\ Cardinality(PosSet(a, b)) = b - a
<1> DEFINE f == [i \in a .. b - 1 |-> Pos(i)]
<1>1. IsFiniteSet(a .. b - 1) /\ Cardinality(a .. b - 1) = b - a
  <2>1. a \in Int /\ b - 1 \in Int /\ (a > b - 1 => b - a = 0)
        /\ (b - 1) - a + 1 = b - a
    BY ConstantFacts, SMT DEF Positions
  <2> QED  BY <2>1, FS_Interval
<1>2. f \in Bijection(a .. b - 1, PosSet(a, b))
  <2>1. f \in Surjection(a .. b - 1, PosSet(a, b))
    BY DEF Surjection, PosSet
  <2>2. ASSUME NEW i \in a .. b - 1, NEW j \in a .. b - 1, f[i] = f[j]
        PROVE  i = j
    <3>1. i \in Positions /\ j \in Positions
      BY ConstantFacts, SMT DEF Positions
    <3> QED  BY <2>2, <3>1, PosInjective
  <2>3. f \in [a .. b - 1 -> PosSet(a, b)]
    BY <2>1 DEF Surjection
  <2> QED  BY <2>1, <2>2, <2>3 DEF Bijection, Injection, IsInjective
<1>3. ExistsBijection(a .. b - 1, PosSet(a, b))
  BY <1>2 DEF ExistsBijection
<1> QED  BY <1>1, <1>3, FS_Bijection

LEMMA PosSetSplit ==
    ASSUME NEW a \in Int, NEW b \in Int, NEW c \in Int, a <= b, b <= c
    PROVE  /\ PosSet(a, c) = PosSet(a, b) \cup PosSet(b, c)
           /\ PosSet(a, b) \subseteq PosSet(a, c)
           /\ PosSet(b, c) \subseteq PosSet(a, c)
<1>1. ASSUME NEW s \in PosSet(a, c)
      PROVE  s \in PosSet(a, b) \cup PosSet(b, c)
  <2>1. PICK i \in a .. c - 1 : s = Pos(i)
    BY DEF PosSet
  <2>2. i \in a .. b - 1 \/ i \in b .. c - 1
    OBVIOUS
  <2> QED  BY <2>1, <2>2 DEF PosSet
<1>2. ASSUME NEW s \in PosSet(a, b) PROVE s \in PosSet(a, c)
  <2>1. PICK i \in a .. b - 1 : s = Pos(i)
    BY DEF PosSet
  <2>2. i \in a .. c - 1
    OBVIOUS
  <2> QED  BY <2>1, <2>2 DEF PosSet
<1>3. ASSUME NEW s \in PosSet(b, c) PROVE s \in PosSet(a, c)
  <2>1. PICK i \in b .. c - 1 : s = Pos(i)
    BY DEF PosSet
  <2>2. i \in a .. c - 1
    OBVIOUS
  <2> QED  BY <2>1, <2>2 DEF PosSet
<1> QED  BY <1>1, <1>2, <1>3

LEMMA PosSetMinus ==
    ASSUME NEW a \in Positions, NEW b \in Positions, NEW c \in Positions,
           a <= b, b <= c
    PROVE  PosSet(a, c) \ PosSet(a, b) = PosSet(b, c)
<1>1. a \in Int /\ b \in Int /\ c \in Int /\ MaxChunks + RecvWindow \in Int
  BY ConstantFacts DEF Positions
<1>2. ASSUME NEW i \in b .. c - 1, NEW j \in a .. b - 1, Pos(i) = Pos(j)
      PROVE  FALSE
  <2>1. i \in Positions /\ j \in Positions /\ i # j
    BY <1>1 DEF Positions
  <2> QED  BY <1>2, <2>1, PosInjective
<1>3. PosSet(b, c) \cap PosSet(a, b) = {}
  BY <1>2 DEF PosSet
<1> QED  BY <1>1, <1>3, PosSetSplit

LEMMA PairBounds ==
    ASSUME NEW x \in Int, NEW y \in Int
    PROVE  /\ Max({x, y}) \in {x, y} /\ Max({x, y}) >= x /\ Max({x, y}) >= y
           /\ Min({x, y}) \in {x, y} /\ Min({x, y}) <= x /\ Min({x, y}) <= y
<1>1. \E z \in {x, y} : \A t \in {x, y} : z >= t
  <2>1. CASE x >= y  BY <2>1
  <2>2. CASE y >= x  BY <2>2
  <2> QED  BY <2>1, <2>2, SMT
<1>2. \E z \in {x, y} : \A t \in {x, y} : z <= t
  <2>1. CASE x <= y  BY <2>1
  <2>2. CASE y <= x  BY <2>2
  <2> QED  BY <2>1, <2>2, SMT
<1> QED  BY <1>1, <1>2 DEF Max, Min

LEMMA ConcatFacts ==
    ASSUME NEW S, NEW s \in Seq(S), NEW t \in Seq(S)
    PROVE  /\ s \o t \in Seq(S)
           /\ Len(s \o t) = Len(s) + Len(t)
           /\ \A i \in 1 .. Len(s) : (s \o t)[i] = s[i]
           /\ \A i \in 1 .. Len(t) : (s \o t)[Len(s) + i] = t[i]
  OBVIOUS

LEMMA MinNat ==
    ASSUME NEW x \in Nat, NEW y \in Nat
    PROVE  Min({x, y}) \in 0 .. x /\ Min({x, y}) \in 0 .. y
<1>1. Min({x, y}) \in {x, y} /\ Min({x, y}) <= x /\ Min({x, y}) <= y
  <2>1. x \in Int /\ y \in Int  OBVIOUS
  <2> QED  BY <2>1, PairBounds
<1>2. Min({x, y}) \in Nat
  BY <1>1
<1> QED  BY <1>1, <1>2

-----------------------------------------------------------------------------
(* The sender half.                                                        *)

(* What the send window still lets out when the positions a .. b-1 are     *)
(* outstanding.                                                            *)
LEMMA SendRoomFacts ==
    ASSUME NEW o, NEW a \in Positions, NEW b \in Positions, a <= b,
           DOMAIN o = PosSet(a, b), NEW w \in Nat, w >= 1
    PROVE  /\ SendRoom(o, w) \in Nat
           /\ b - a <= SendWindow => (b - a) + SendRoom(o, w) <= SendWindow
           /\ SendRoom(o, w) = 0 => a < b
<1> DEFINE m == Min({SendWindow, w})
           c == Cardinality(DOMAIN o)
<1>1. c = b - a /\ c \in Nat
  BY PosSetCardinality, ConstantFacts, SMT DEF Positions
<1>2. m \in {SendWindow, w} /\ m <= SendWindow
  <2>1. SendWindow \in Int /\ w \in Int
    BY ConstantFacts
  <2> QED  BY <2>1, PairBounds
<1>3. m \in Nat /\ m >= 1
  BY <1>2, ConstantFacts
<1>4. /\ SendRoom(o, w) \in {0, m - c}
      /\ SendRoom(o, w) >= 0
      /\ SendRoom(o, w) >= m - c
  <2>1. 0 \in Int /\ m - c \in Int
    BY <1>1, <1>3
  <2>2. SendRoom(o, w) = Max({0, m - c})
    BY DEF SendRoom
  <2> HIDE DEF m, c
  <2> QED  BY <2>1, <2>2, PairBounds
<1>5. a \in Int /\ b \in Int /\ SendWindow \in Int
  BY ConstantFacts DEF Positions
<1> HIDE DEF m, c
<1>6. SendRoom(o, w) \in Nat
  BY <1>1, <1>3, <1>4
<1> QED  BY <1>1, <1>2, <1>3, <1>4, <1>5, <1>6

(* Emitting cs appends it to the log under the next numbers.               *)
LEMMA EmitFacts ==
    ASSUME emitted \in Seq(Chunks), next_seq = Pos(Len(emitted)),
           NEW o, NEW a \in 0 .. Len(emitted), Flight(o, a, emitted),
           NEW cs \in Seq(Chunks), Len(emitted) + Len(cs) <= MaxChunks,
           Emit(o, cs)
    PROVE  /\ emitted' \in Seq(Chunks)
           /\ Len(emitted') = Len(emitted) + Len(cs)
           /\ \A i \in 1 .. Len(emitted) : emitted'[i] = emitted[i]
           /\ next_seq' = Pos(Len(emitted'))
           /\ Flight(outstanding', a, emitted')
           /\ \A p \in dataLink' : \/ p \in dataLink
                                   \/ \E i \in 0 .. Len(emitted') - 1 :
                                        p = DataPacket(Pos(i), emitted'[i + 1])
<1> DEFINE e == Len(emitted)
           n == Len(cs)
           new == PosSet(e, e + n)
           chunkOf(s) == cs[seq_diff(s, next_seq) + 1]
<1>1. /\ e \in Nat /\ n \in Nat /\ e + n <= MaxChunks /\ a \in 0 .. e
      /\ MaxChunks \in Nat /\ RecvWindow \in Nat
  BY ConstantFacts
<1>2. /\ emitted' = emitted \o cs
      /\ emitted' \in Seq(Chunks)
      /\ Len(emitted') = e + n
      /\ \A i \in 1 .. e : emitted'[i] = emitted[i]
      /\ \A i \in e .. e + n - 1 : emitted'[i + 1] = cs[i - e + 1]
  BY <1>1 DEF Emit
<1>3. EmitSeqs(n) = new
  <2>1. \A j \in 0 .. n - 1 : seq_add(next_seq, j) = Pos(e + j)
    BY <1>1, PosAdd
  <2>2. ASSUME NEW s \in EmitSeqs(n) PROVE s \in new
    <3>1. PICK j \in 0 .. n - 1 : s = seq_add(next_seq, j)
      BY DEF EmitSeqs
    <3>2. e + j \in e .. e + n - 1
      BY <1>1
    <3> QED  BY <2>1, <3>1, <3>2 DEF PosSet
  <2>3. ASSUME NEW s \in new PROVE s \in EmitSeqs(n)
    <3>1. PICK i \in e .. e + n - 1 : s = Pos(i)
      BY DEF PosSet
    <3>2. i - e \in 0 .. n - 1 /\ e + (i - e) = i
      BY <1>1
    <3>3. s = seq_add(next_seq, i - e)
      BY <2>1, <3>1, <3>2
    <3> QED  BY <3>2, <3>3 DEF EmitSeqs
  <2> QED  BY <2>2, <2>3
<1>4. \A i \in e .. e + n - 1 : chunkOf(Pos(i)) = emitted'[i + 1]
  <2>1. ASSUME NEW i \in e .. e + n - 1
        PROVE  seq_diff(Pos(i), next_seq) = i - e
    <3>1. i \in Positions /\ e \in Positions
      BY <1>1 DEF Positions
    <3> QED  BY <3>1, PosDiff
  <2> QED  BY <1>2, <2>1
<1>5. DOMAIN o = PosSet(a, e)
  BY DEF Flight
<1>6. PosSet(a, e) \cup new = PosSet(a, e + n)
  BY <1>1, PosSetSplit
<1>7. outstanding' = [s \in PosSet(a, e + n) |->
                        IF s \in new THEN [chunk |-> chunkOf(s), retx |-> 0] ELSE o[s]]
  BY <1>3, <1>5, <1>6 DEF Emit
<1>8. \A i \in a .. e - 1 : Pos(i) \notin new
  <2>1. ASSUME NEW i \in a .. e - 1, NEW j \in e .. e + n - 1, Pos(i) = Pos(j)
        PROVE  FALSE
    <3>1. i \in Positions /\ j \in Positions /\ i # j
      BY <1>1 DEF Positions
    <3> QED  BY <2>1, <3>1, PosInjective
  <2> QED  BY <2>1 DEF PosSet
<1>9. ASSUME NEW i \in a .. e + n - 1
      PROVE  outstanding'[Pos(i)] \in [chunk : {emitted'[i + 1]}, retx : 0 .. RetxCap]
  <2>1. Pos(i) \in PosSet(a, e + n)
    BY DEF PosSet
  <2>2. CASE i \in e .. e + n - 1
    <3>1. Pos(i) \in new
      BY <2>2 DEF PosSet
    <3>2. outstanding'[Pos(i)] = [chunk |-> emitted'[i + 1], retx |-> 0]
      BY <1>4, <1>7, <2>1, <2>2, <3>1
    <3> QED  BY <3>2, ConstantFacts
  <2>3. CASE i \in a .. e - 1
    <3>1. outstanding'[Pos(i)] = o[Pos(i)]
      BY <1>7, <1>8, <2>1, <2>3
    <3>2. o[Pos(i)] \in [chunk : {emitted[i + 1]}, retx : 0 .. RetxCap]
      BY <2>3 DEF Flight
    <3>3. emitted'[i + 1] = emitted[i + 1]
      BY <1>1, <1>2, <2>3
    <3> QED  BY <3>1, <3>2, <3>3
  <2> QED  BY <1>1, <2>2, <2>3
<1>10. Flight(outstanding', a, emitted')
  <2>1. outstanding' = [s \in PosSet(a, e + n) |-> outstanding'[s]]
    BY <1>7
  <2> QED  BY <1>2, <1>9, <2>1 DEF Flight
<1>11. ASSUME NEW p \in dataLink', p \notin dataLink
       PROVE  \E i \in 0 .. Len(emitted') - 1 : p = DataPacket(Pos(i), emitted'[i + 1])
  <2>1. PICK s \in new : p = DataPacket(s, chunkOf(s))
    BY <1>3, <1>11 DEF Emit
  <2>2. PICK i \in e .. e + n - 1 : s = Pos(i)
    BY DEF PosSet
  <2>3. i \in 0 .. Len(emitted') - 1
    BY <1>1, <1>2
  <2> QED  BY <1>4, <2>1, <2>2, <2>3
<1>12. next_seq' = Pos(Len(emitted'))
  BY <1>1, <1>2, PosAdd DEF Emit
<1> QED  BY <1>2, <1>10, <1>11, <1>12

(* Retransmitting outstanding packets leaves the window as it is and puts  *)
(* nothing new on the link.                                                *)
LEMMA RetransmitFacts ==
    ASSUME SenderInv, NEW S, S \subseteq DOMAIN outstanding, Retransmit(S)
    PROVE  /\ Flight(outstanding', acked, emitted)
           /\ \A p \in dataLink' : \/ p \in dataLink
                                   \/ \E i \in 0 .. Len(emitted) - 1 :
                                        p = DataPacket(Pos(i), emitted[i + 1])
<1> DEFINE e == Len(emitted)
<1>1. e \in Nat /\ acked \in 0 .. e
  BY DEF SenderInv
<1>2. /\ DOMAIN outstanding = PosSet(acked, e)
      /\ \A i \in acked .. e - 1 :
            outstanding[Pos(i)] \in [chunk : {emitted[i + 1]}, retx : 0 .. RetxCap]
  BY DEF SenderInv, Flight
<1>3. outstanding' = [s \in PosSet(acked, e) |->
                        IF s \in S
                        THEN [outstanding[s] EXCEPT !.retx = Min({@ + 1, RetxCap})]
                        ELSE outstanding[s]]
  BY <1>2 DEF Retransmit
<1>4. ASSUME NEW i \in acked .. e - 1
      PROVE  outstanding'[Pos(i)] \in [chunk : {emitted[i + 1]}, retx : 0 .. RetxCap]
  <2> DEFINE r == outstanding[Pos(i)]
  <2>1. r \in [chunk : {emitted[i + 1]}, retx : 0 .. RetxCap] /\ Pos(i) \in PosSet(acked, e)
    BY <1>2 DEF PosSet
  <2>2. r.retx + 1 \in Nat /\ RetxCap \in Nat
    BY <2>1, ConstantFacts
  <2>4. Min({r.retx + 1, RetxCap}) \in 0 .. RetxCap
    BY <2>2, MinNat
  <2>5. outstanding'[Pos(i)] = IF Pos(i) \in S
                               THEN [r EXCEPT !.retx = Min({r.retx + 1, RetxCap})]
                               ELSE r
    BY <1>3, <2>1
  <2> QED  BY <2>1, <2>4, <2>5
<1>5. Flight(outstanding', acked, emitted)
  <2>1. outstanding' = [s \in PosSet(acked, e) |-> outstanding'[s]]
    BY <1>3
  <2> QED  BY <1>4, <2>1 DEF Flight
<1>6. ASSUME NEW p \in dataLink', p \notin dataLink
      PROVE  \E i \in 0 .. e - 1 : p = DataPacket(Pos(i), emitted[i + 1])
  <2>1. PICK s \in S : p = DataPacket(s, outstanding[s].chunk)
    BY <1>6 DEF Retransmit
  <2>2. PICK i \in acked .. e - 1 : s = Pos(i)
    BY <1>2 DEF PosSet
  <2>3. outstanding[s].chunk = emitted[i + 1] /\ i \in 0 .. e - 1
    BY <1>1, <1>2, <2>2
  <2> QED  BY <2>1, <2>2, <2>3
<1> QED  BY <1>5, <1>6

(* The receiver and the link do not notice that the log has grown.         *)
LEMMA LogGrows ==
    ASSUME IInv, emitted' \in Seq(Chunks), Len(emitted) <= Len(emitted'),
           \A i \in 1 .. Len(emitted) : emitted'[i] = emitted[i],
           acked' <= Len(delivered),
           \A p \in dataLink' : \/ p \in dataLink
                               \/ \E i \in 0 .. Len(emitted') - 1 :
                                    p = DataPacket(Pos(i), emitted'[i + 1]),
           UNCHANGED <<receiverVars, ackLink, delivered>>
    PROVE  ReceiverInv' /\ LinkInv'
<1> DEFINE e == Len(emitted)
           f == Len(emitted')
           d == Len(delivered)
<1>1. e \in Nat /\ f \in Nat /\ e <= f
  BY DEF IInv, SenderInv
<1>2. /\ delivered' = delivered /\ rcv_base' = rcv_base /\ reorder' = reorder
      /\ nacked' = nacked /\ ackLink' = ackLink
  BY DEF receiverVars
<1>3. InOrderDelivery'
  <2>1. d \in Nat /\ d <= e /\ \A i \in 1 .. d : delivered[i] = emitted[i]
    BY DEF IInv, ReceiverInv, InOrderDelivery
  <2>2. \A i \in 1 .. d : i \in 1 .. e
    BY <1>1, <2>1
  <2> QED  BY <1>1, <1>2, <2>1, <2>2 DEF InOrderDelivery
<1>4. Buffered(reorder', Len(delivered'), emitted')
  <2>1. Buffered(reorder, d, emitted) /\ d \in Nat
    BY DEF IInv, ReceiverInv
  <2>2. ASSUME NEW s \in DOMAIN reorder
        PROVE  \E i \in d + 1 .. f - 1 :
                 i < d + RecvWindow /\ s = Pos(i) /\ reorder[s] = emitted'[i + 1]
    <3>1. PICK i \in d + 1 .. e - 1 :
            i < d + RecvWindow /\ s = Pos(i) /\ reorder[s] = emitted[i + 1]
      BY <2>1 DEF Buffered
    <3>2. i \in d + 1 .. f - 1 /\ i + 1 \in 1 .. e
      BY <1>1, <2>1
    <3> QED  BY <3>1, <3>2
  <2> QED  BY <1>2, <2>1, <2>2 DEF Buffered
<1>5. ReceiverInv'
  BY <1>2, <1>3, <1>4 DEF IInv, ReceiverInv
<1>6. ASSUME NEW p \in dataLink'
      PROVE  \E i \in 0 .. f - 1 : p = DataPacket(Pos(i), emitted'[i + 1])
  <2>1. CASE p \in dataLink
    <3>1. PICK i \in 0 .. e - 1 : p = DataPacket(Pos(i), emitted[i + 1])
      BY <2>1 DEF IInv, LinkInv
    <3>2. i \in 0 .. f - 1 /\ i + 1 \in 1 .. e
      BY <1>1
    <3> QED  BY <3>1, <3>2
  <2> QED  BY <2>1
<1>7. LinkInv'
  BY <1>2, <1>6 DEF IInv, LinkInv
<1> QED  BY <1>5, <1>7

LEMMA FlightRoom ==
    ASSUME SenderInv
    PROVE  /\ SendRoom(outstanding, peer_window) \in Nat
           /\ (Len(emitted) - acked) + SendRoom(outstanding, peer_window) <= SendWindow
           /\ SendRoom(outstanding, peer_window) = 0 => acked < Len(emitted)
<1>1. acked \in Positions /\ Len(emitted) \in Positions /\ acked <= Len(emitted)
  BY ConstantFacts DEF SenderInv, Positions
<1>2. DOMAIN outstanding = PosSet(acked, Len(emitted))
  BY DEF SenderInv, Flight
<1>3. peer_window \in Nat /\ peer_window >= 1
  <2>1. SendWindow \in Int /\ RecvWindow \in Int
    BY ConstantFacts
  <2>2. Max({SendWindow, RecvWindow}) \in Int
    BY <2>1, PairBounds
  <2> QED  BY <2>2 DEF SenderInv
<1>4. Len(emitted) - acked <= SendWindow
  BY DEF SenderInv
<1> QED  BY <1>1, <1>2, <1>3, <1>4, SendRoomFacts

(* A step of the sender as the abstract stream sees it: the log grows and  *)
(* what was handed over may be confirmed.                                  *)
LogStep ==
    /\ Len(emitted) <= Len(emitted')
    /\ \A i \in 1 .. Len(emitted) : emitted'[i] = emitted[i]
    /\ acked' \in acked .. Len(delivered)
    /\ UNCHANGED delivered

(* send() keeps the invariant.                                             *)
LEMMA SendStep ==
    ASSUME IInv, NEW k \in 1 .. MaxBurst, Send(k)
    PROVE  IInv' /\ LogStep
<1> DEFINE cs   == [j \in 1 .. k |-> submitted + j]
           room == SendRoom(outstanding, peer_window)
           fits == Min({k, room})
           now  == SubSeq(cs, 1, fits)
           rest == SubSeq(cs, fits + 1, k)
           e    == Len(emitted)
<1>1. /\ SenderInv
      /\ k \in Nat /\ k >= 1 /\ submitted + k <= MaxChunks
      /\ e \in Nat /\ submitted \in Nat /\ MaxChunks \in Nat
      /\ e + Len(pending) = submitted /\ Len(pending) \in Nat
      /\ acked \in 0 .. e
  BY ConstantFacts DEF IInv, SenderInv, Send
<1>2. /\ Emit(outstanding, now)
      /\ pending' = pending \o rest
      /\ submitted' = submitted + k
      /\ UNCHANGED <<peer_window, acked, failed, receiverVars, ackLink, delivered>>
  BY DEF Send
<1>3. room \in Nat /\ (e - acked) + room <= SendWindow /\ (room = 0 => acked < e)
  BY <1>1, FlightRoom
<1>4. fits \in 0 .. k /\ fits \in 0 .. room /\ fits \in {k, room}
  <2>1. k \in Int /\ room \in Int
    BY <1>1, <1>3
  <2> HIDE DEF room
  <2> QED  BY <1>1, <1>3, <2>1, MinNat, PairBounds
<1>5. cs \in Seq(Chunks) /\ Len(cs) = k
  BY <1>1 DEF Chunks
<1> HIDE DEF cs, room, fits
<1>6. /\ now \in Seq(Chunks) /\ Len(now) = fits
      /\ rest \in Seq(Chunks) /\ Len(rest) = k - fits
  BY <1>1, <1>4, <1>5
<1> HIDE DEF now, rest
<1>7. /\ emitted' \in Seq(Chunks)
      /\ Len(emitted') = e + fits
      /\ \A i \in 1 .. e : emitted'[i] = emitted[i]
      /\ next_seq' = Pos(Len(emitted'))
      /\ Flight(outstanding', acked, emitted')
      /\ \A p \in dataLink' : \/ p \in dataLink
                              \/ \E i \in 0 .. Len(emitted') - 1 :
                                   p = DataPacket(Pos(i), emitted'[i + 1])
  <2>1. e + Len(now) <= MaxChunks
    BY <1>1, <1>4, <1>6
  <2>2. /\ emitted \in Seq(Chunks) /\ next_seq = Pos(Len(emitted))
        /\ Flight(outstanding, acked, emitted)
    BY <1>1 DEF SenderInv
  <2> QED  BY <1>1, <1>2, <1>6, <2>1, <2>2, EmitFacts
<1>8. SenderInv'
  <2>1. pending' \in Seq(Chunks) /\ Len(pending') = Len(pending) + (k - fits)
    <3>1. pending \in Seq(Chunks)
      BY <1>1 DEF SenderInv
    <3>2. /\ pending \o rest \in Seq(Chunks)
          /\ Len(pending \o rest) = Len(pending) + Len(rest)
      BY <1>6, <3>1, ConcatFacts
    <3>3. pending' = pending \o rest
      BY <1>2
    <3> QED  BY <1>6, <3>2, <3>3
  <2>2. Len(emitted') + Len(pending') = submitted' /\ submitted' \in 0 .. MaxChunks
    <3>1. submitted' = submitted + k /\ submitted' \in 0 .. MaxChunks
      BY <1>1, <1>2
    <3>2. Len(emitted') = e + fits
      BY <1>7
    <3>3. (e + fits) + (Len(pending) + (k - fits)) = submitted + k
      BY <1>1, <1>4
    <3> QED  BY <2>1, <3>1, <3>2, <3>3
  <2>3. acked' \in 0 .. Len(emitted') /\ Len(emitted') - acked' <= SendWindow
    BY <1>1, <1>2, <1>3, <1>4, <1>7, ConstantFacts
  <2>4. pending' # << >> => acked' < Len(emitted')
    <3>1. CASE pending # << >>
      <4>1. acked < e
        BY <1>1, <3>1 DEF SenderInv
      <4> QED  BY <1>1, <1>2, <1>4, <1>7, <4>1
    <3>2. CASE fits > 0
      BY <1>1, <1>2, <1>4, <1>7, <3>2
    <3>3. CASE fits = 0
      <4>1. room = 0
        BY <1>1, <1>4, <3>3
      <4> QED  BY <1>1, <1>2, <1>3, <1>4, <1>7, <4>1
    <3> QED  BY <1>4, <3>2, <3>3
  <2> QED  BY <1>1, <1>2, <1>7, <2>1, <2>2, <2>3, <2>4 DEF SenderInv
<1>9. ReceiverInv' /\ LinkInv'
  <2>1. acked' <= Len(delivered)
    BY <1>2 DEF IInv, ReceiverInv
  <2>2. Len(emitted) <= Len(emitted')
    BY <1>1, <1>4, <1>7
  <2> QED  BY <1>2, <1>7, <2>1, <2>2, LogGrows
<1>10. LogStep
  <2>1. acked <= Len(delivered) /\ Len(delivered) \in Nat
    BY DEF IInv, ReceiverInv
  <2>2. acked' \in acked .. Len(delivered)
    BY <1>1, <1>2, <2>1
  <2>3. Len(emitted) <= Len(emitted')
    BY <1>1, <1>4, <1>7
  <2>4. delivered' = delivered
    BY <1>2
  <2> QED  BY <1>7, <2>2, <2>3, <2>4 DEF LogStep
<1> QED  BY <1>8, <1>9, <1>10 DEF IInv

(* The numbers the invariant speaks of, and their order.                   *)
LEMMA Counters ==
    ASSUME IInv
    PROVE  /\ emitted \in Seq(Chunks) /\ Len(emitted) \in Nat
           /\ pending \in Seq(Chunks) /\ Len(pending) \in Nat
           /\ delivered \in Seq(Chunks) /\ Len(delivered) \in Nat
           /\ submitted \in Nat /\ submitted <= MaxChunks /\ MaxChunks \in Nat
           /\ RecvWindow \in Nat /\ RecvWindow >= 1 /\ SendWindow \in Nat
           /\ Len(emitted) + Len(pending) = submitted
           /\ Len(emitted) <= MaxChunks
           /\ acked \in Nat /\ acked <= Len(delivered)
           /\ Len(delivered) <= Len(emitted)
           /\ Len(emitted) - acked <= SendWindow
           /\ DOMAIN outstanding = PosSet(acked, Len(emitted))
<1>1. /\ emitted \in Seq(Chunks) /\ pending \in Seq(Chunks)
      /\ delivered \in Seq(Chunks)
  BY DEF IInv, SenderInv, ReceiverInv
<1>2. Len(emitted) \in Nat /\ Len(pending) \in Nat /\ Len(delivered) \in Nat
  BY <1>1
<1>3. /\ submitted \in 0 .. MaxChunks /\ Len(emitted) + Len(pending) = submitted
      /\ acked \in 0 .. Len(emitted) /\ Len(emitted) - acked <= SendWindow
  BY DEF IInv, SenderInv
<1>4. acked <= Len(delivered) /\ Len(delivered) <= Len(emitted)
  BY DEF IInv, ReceiverInv, InOrderDelivery
<1>5. DOMAIN outstanding = PosSet(acked, Len(emitted))
  BY DEF IInv, SenderInv, Flight
<1> QED  BY <1>1, <1>2, <1>3, <1>4, <1>5, ConstantFacts

(* What an ACK or a NACK on the link says.                                 *)
LEMMA AckOnLink ==
    ASSUME LinkInv, NEW p \in ackLink, delivered \in Seq(Chunks)
    PROVE  /\ p.window \in 1 .. RecvWindow
           /\ \E i \in 0 .. Len(delivered) : p.ack = Pos(i)
<1>1. PICK i \in 0 .. Len(delivered), w \in 1 .. RecvWindow :
        p = Ack(Pos(i), w) \/ p = Nack(Pos(i), w)
  BY DEF LinkInv
<1>2. p.ack = Pos(i) /\ p.window = w
  BY <1>1 DEF Ack, Nack
<1> QED  BY <1>2

LEMMA WindowAdopted ==
    ASSUME NEW w \in 1 .. RecvWindow
    PROVE  w \in 1 .. Max({SendWindow, RecvWindow})
<1>1. SendWindow \in Int /\ RecvWindow \in Int
  BY ConstantFacts
<1>2. Max({SendWindow, RecvWindow}) \in {SendWindow, RecvWindow}
      /\ Max({SendWindow, RecvWindow}) >= RecvWindow
  BY <1>1, PairBounds
<1>3. Max({SendWindow, RecvWindow}) \in Int
  BY <1>1, <1>2
<1> QED  BY <1>1, <1>2, <1>3

(* An ACK for position i covers the outstanding positions below i.         *)
LEMMA CoveredFacts ==
    ASSUME SenderInv, NEW i \in 0 .. Len(emitted),
           NEW c \in acked .. Len(emitted), c = IF acked < i THEN i ELSE acked
    PROVE  Covered(Pos(i)) = PosSet(acked, c)
<1>1. /\ Len(emitted) \in Nat /\ acked \in 0 .. Len(emitted)
      /\ Len(emitted) <= MaxChunks /\ MaxChunks \in Nat /\ RecvWindow \in Nat
      /\ DOMAIN outstanding = PosSet(acked, Len(emitted))
  BY ConstantFacts DEF SenderInv, Flight
<1>2. i \in Positions
  BY <1>1 DEF Positions
<1>3. ASSUME NEW s \in Covered(Pos(i)) PROVE s \in PosSet(acked, c)
  <2>1. s \in PosSet(acked, Len(emitted)) /\ seq_lt(s, Pos(i))
    BY <1>1 DEF Covered
  <2>2. PICK j \in acked .. Len(emitted) - 1 : s = Pos(j)
    BY <2>1 DEF PosSet
  <2>3. j \in Positions
    BY <1>1 DEF Positions
  <2>4. j < i
    BY <1>2, <2>1, <2>2, <2>3, PosLt
  <2>5. j \in acked .. c - 1
    BY <1>1, <2>4
  <2> QED  BY <2>2, <2>5 DEF PosSet
<1>4. ASSUME NEW s \in PosSet(acked, c) PROVE s \in Covered(Pos(i))
  <2>1. PICK j \in acked .. c - 1 : s = Pos(j)
    BY DEF PosSet
  <2>2. j \in Positions /\ j < i /\ j \in acked .. Len(emitted) - 1
    BY <1>1, <2>1 DEF Positions
  <2>3. seq_lt(s, Pos(i))
    BY <1>2, <2>1, <2>2, PosLt
  <2> QED  BY <1>1, <2>1, <2>2, <2>3 DEF Covered, PosSet
<1> QED  BY <1>3, <1>4

(* on_ack() keeps the invariant.                                           *)
LEMMA OnAckStep ==
    ASSUME IInv, NEW p \in ackLink, OnAck(p)
    PROVE  IInv' /\ LogStep
<1> DEFINE e == Len(emitted)
           o == [s \in DOMAIN outstanding \ Covered(p.ack) |-> outstanding[s]]
           n == FlushLength(o, p.window)
           room == SendRoom(o, p.window)
           out  == SubSeq(pending, 1, n)
           rest == SubSeq(pending, n + 1, Len(pending))
<1>1. /\ SenderInv
      /\ e \in Nat /\ submitted \in 0 .. MaxChunks /\ MaxChunks \in Nat
      /\ RecvWindow \in Nat
      /\ pending \in Seq(Chunks) /\ Len(pending) \in Nat
      /\ e + Len(pending) = submitted
      /\ acked \in 0 .. e /\ e - acked <= SendWindow
      /\ DOMAIN outstanding = PosSet(acked, e)
      /\ Len(delivered) \in Nat /\ Len(delivered) <= e /\ acked <= Len(delivered)
      /\ delivered \in Seq(Chunks)
  <2>1. SenderInv
    BY DEF IInv
  <2> QED  BY <2>1, Counters
<1>2. /\ acked' = acked + Cardinality(Covered(p.ack))
      /\ Emit(o, out)
      /\ pending' = rest
      /\ peer_window' = p.window
      /\ UNCHANGED <<failed, receiverVars, ackLink, submitted, delivered>>
  BY DEF OnAck
<1>3. p.window \in 1 .. RecvWindow
  BY <1>1, AckOnLink DEF IInv
<1>4. PICK i \in 0 .. Len(delivered) : p.ack = Pos(i)
  BY <1>1, AckOnLink DEF IInv
<1> DEFINE c == IF acked < i THEN i ELSE acked
<1>5. /\ c \in acked .. e /\ c <= Len(delivered) /\ i \in 0 .. e
      /\ acked \in Positions /\ c \in Positions /\ e \in Positions
  BY <1>1, <1>4 DEF Positions
<1>6. Covered(p.ack) = PosSet(acked, c)
  BY <1>1, <1>4, <1>5, CoveredFacts
<1> HIDE DEF c
<1>7. acked' = c
  <2>1. Cardinality(PosSet(acked, c)) = c - acked
    BY <1>5, PosSetCardinality
  <2> QED  BY <1>1, <1>2, <1>5, <1>6, <2>1
<1>8. DOMAIN o = PosSet(c, e)
  BY <1>1, <1>5, <1>6, PosSetMinus
<1>9. Flight(o, c, emitted)
  <2>1. ASSUME NEW j \in c .. e - 1
        PROVE  o[Pos(j)] \in [chunk : {emitted[j + 1]}, retx : 0 .. RetxCap]
    <3>1. Pos(j) \in PosSet(c, e) /\ j \in acked .. e - 1
      BY <1>1, <1>5 DEF PosSet
    <3>2. o[Pos(j)] = outstanding[Pos(j)]
      BY <1>8, <3>1
    <3> QED  BY <1>1, <3>1, <3>2 DEF SenderInv, Flight
  <2>2. o = [s \in PosSet(c, e) |-> o[s]]
    BY <1>8
  <2> QED  BY <2>1, <2>2 DEF Flight
<1>10. room \in Nat /\ (e - c) + room <= SendWindow /\ (room = 0 => c < e)
  <2>1. p.window \in Nat /\ p.window >= 1 /\ c <= e /\ e - c <= SendWindow
    BY <1>1, <1>3, <1>5, ConstantFacts
  <2> HIDE DEF o
  <2> QED  BY <1>5, <1>8, <2>1, SendRoomFacts
<1> HIDE DEF o
<1>11. n \in 0 .. Len(pending) /\ n \in 0 .. room /\ n \in {Len(pending), room}
  <2>1. n = Min({Len(pending), room})
    BY DEF FlushLength
  <2>2. Len(pending) \in Int /\ room \in Int
    BY <1>1, <1>10
  <2> HIDE DEF room, n
  <2> QED  BY <1>1, <1>10, <2>1, <2>2, MinNat, PairBounds
<1> HIDE DEF room, n
<1>12. /\ out \in Seq(Chunks) /\ Len(out) = n
       /\ rest \in Seq(Chunks) /\ Len(rest) = Len(pending) - n
  BY <1>1, <1>11
<1> HIDE DEF out, rest
<1>13. /\ emitted' \in Seq(Chunks)
       /\ Len(emitted') = e + n
       /\ \A j \in 1 .. e : emitted'[j] = emitted[j]
       /\ next_seq' = Pos(Len(emitted'))
       /\ Flight(outstanding', c, emitted')
       /\ \A q \in dataLink' : \/ q \in dataLink
                               \/ \E j \in 0 .. Len(emitted') - 1 :
                                    q = DataPacket(Pos(j), emitted'[j + 1])
  <2>1. e + Len(out) <= MaxChunks /\ c \in 0 .. Len(emitted)
    BY <1>1, <1>5, <1>11, <1>12
  <2>2. emitted \in Seq(Chunks) /\ next_seq = Pos(Len(emitted))
    BY <1>1 DEF SenderInv
  <2> QED  BY <1>2, <1>9, <1>12, <2>1, <2>2, EmitFacts
<1>14. SenderInv'
  <2>1. pending' \in Seq(Chunks) /\ Len(pending') = Len(pending) - n
    BY <1>2, <1>12
  <2>2. Len(emitted') + Len(pending') = submitted' /\ submitted' \in 0 .. MaxChunks
    <3>1. submitted' = submitted /\ n \in Int
      BY <1>2, <1>11
    <3>2. Len(emitted') = e + n /\ Len(pending') = Len(pending) - n
      BY <1>13, <2>1
    <3>3. e + Len(pending) = submitted /\ e \in Int /\ Len(pending) \in Int
          /\ submitted \in 0 .. MaxChunks
      BY <1>1
    <3> HIDE DEF e
    <3> QED  BY <3>1, <3>2, <3>3
  <2>3. acked' \in 0 .. Len(emitted') /\ Len(emitted') - acked' <= SendWindow
    BY <1>1, <1>5, <1>7, <1>10, <1>11, <1>13, ConstantFacts
  <2>4. pending' # << >> => acked' < Len(emitted')
    <3>1. CASE n > 0
      BY <1>1, <1>5, <1>7, <1>11, <1>13, <3>1
    <3>2. CASE n = 0 /\ room = 0
      BY <1>1, <1>5, <1>7, <1>10, <1>13, <3>2
    <3>3. CASE n = 0 /\ room # 0
      <4>1. Len(pending') = 0
        BY <1>1, <1>10, <1>11, <2>1, <3>3
      <4> QED  BY <2>1, <4>1
    <3> QED  BY <1>11, <3>1, <3>2, <3>3
  <2>5. peer_window' \in 1 .. Max({SendWindow, RecvWindow})
    BY <1>2, <1>3, WindowAdopted
  <2>6. failed' \in BOOLEAN
    BY <1>1, <1>2 DEF SenderInv
  <2> QED  BY <1>7, <1>13, <2>1, <2>2, <2>3, <2>4, <2>5, <2>6 DEF SenderInv
<1>15. acked' \in acked .. Len(delivered) /\ Len(emitted) <= Len(emitted')
  BY <1>1, <1>5, <1>7, <1>11, <1>13
<1>16. ReceiverInv' /\ LinkInv'
  <2>1. acked' <= Len(delivered)
    BY <1>1, <1>15
  <2> QED  BY <1>2, <1>13, <1>15, <2>1, LogGrows
<1>17. LogStep
  BY <1>2, <1>13, <1>15 DEF LogStep
<1> QED  BY <1>14, <1>16, <1>17 DEF IInv
(* A retransmission of outstanding packets, with whatever else becomes of  *)
(* failed and of the peer's window, keeps the invariant.                   *)
LEMMA RetransmitStep ==
    ASSUME IInv, NEW S, S \subseteq DOMAIN outstanding, Retransmit(S),
           failed' \in BOOLEAN,
           peer_window' \in 1 .. Max({SendWindow, RecvWindow}),
           UNCHANGED <<next_seq, pending, acked, receiverVars, ackLink,
                       historyVars>>
    PROVE  IInv'
<1>1. /\ next_seq' = next_seq /\ pending' = pending /\ acked' = acked
      /\ submitted' = submitted /\ emitted' = emitted /\ delivered' = delivered
      /\ UNCHANGED receiverVars /\ ackLink' = ackLink
  BY DEF historyVars
<1>2. SenderInv
  BY DEF IInv
<1>3. /\ Flight(outstanding', acked, emitted)
      /\ \A p \in dataLink' : \/ p \in dataLink
                              \/ \E i \in 0 .. Len(emitted) - 1 :
                                   p = DataPacket(Pos(i), emitted[i + 1])
  BY <1>2, RetransmitFacts
<1>4. SenderInv'
  BY <1>1, <1>2, <1>3 DEF SenderInv
<1>5. ReceiverInv' /\ LinkInv'
  <2>1. /\ emitted' \in Seq(Chunks) /\ Len(emitted) <= Len(emitted')
        /\ acked' <= Len(delivered)
    BY <1>1, Counters
  <2> QED  BY <1>1, <1>3, <2>1, LogGrows
<1> QED  BY <1>4, <1>5 DEF IInv

(* on_nack() keeps the invariant.                                          *)
LEMMA OnNackStep ==
    ASSUME IInv, NEW p \in ackLink, OnNack(p)
    PROVE  IInv'
<1>1. p.window \in 1 .. RecvWindow
  BY AckOnLink, Counters DEF IInv
<1>2. peer_window' \in 1 .. Max({SendWindow, RecvWindow})
  BY <1>1, WindowAdopted DEF OnNack
<1>3. failed' \in BOOLEAN
  BY DEF OnNack, IInv, SenderInv
<1>4. /\ Retransmit({p.ack} \cap DOMAIN outstanding)
      /\ UNCHANGED <<next_seq, pending, acked, receiverVars, ackLink, historyVars>>
  BY DEF OnNack
<1> QED  BY <1>2, <1>3, <1>4, RetransmitStep

(* on_tick() keeps the invariant.                                          *)
LEMMA OnTickStep ==
    ASSUME IInv, Tick
    PROVE  IInv'
<1>1. PICK T \in SUBSET DOMAIN outstanding : OnTick(T)
  BY DEF Tick
<1> DEFINE exhausted == {s \in T : outstanding[s].retx >= MaxRetx}
           S == {s \in T : \A x \in exhausted : seq_lt(s, x)}
<1>2. /\ Retransmit(S) /\ S \subseteq DOMAIN outstanding
      /\ failed' \in BOOLEAN /\ peer_window' = peer_window
      /\ UNCHANGED <<next_seq, pending, acked, receiverVars, ackLink, historyVars>>
  BY <1>1 DEF OnTick
<1>3. peer_window' \in 1 .. Max({SendWindow, RecvWindow})
  BY <1>2 DEF IInv, SenderInv
<1> QED  BY <1>2, <1>3, RetransmitStep

(* A packet the link destroys was never needed by the invariant.           *)
LEMMA LoseStep ==
    ASSUME IInv, dataLink' \subseteq dataLink, ackLink' \subseteq ackLink,
           UNCHANGED <<senderVars, receiverVars, historyVars>>
    PROVE  IInv'
<1>1. /\ next_seq' = next_seq /\ outstanding' = outstanding
      /\ peer_window' = peer_window /\ pending' = pending /\ acked' = acked
      /\ failed' = failed /\ rcv_base' = rcv_base /\ reorder' = reorder
      /\ nacked' = nacked /\ submitted' = submitted /\ emitted' = emitted
      /\ delivered' = delivered
  BY DEF senderVars, receiverVars, historyVars
<1>2. SenderInv'
  BY <1>1 DEF IInv, SenderInv
<1>3. ReceiverInv'
  BY <1>1 DEF IInv, ReceiverInv, InOrderDelivery
<1>4. LinkInv'
  BY <1>1 DEF IInv, LinkInv
<1> QED  BY <1>2, <1>3, <1>4 DEF IInv
-----------------------------------------------------------------------------
(* The receiver half.                                                      *)

LEMMA NatMinimum ==
    ASSUME NEW S, S \subseteq Nat, S # {}
    PROVE  Min(S) \in S /\ \A n \in S : Min(S) <= n
<1> DEFINE R == OpToRel(<, Nat)
<1>1. IsWellFoundedOn(R, Nat)
  BY NatLessThanWellFounded
<1>2. \A x, y \in Nat : x < y => <<x, y>> \in R
  BY Zenon DEF OpToRel
<1> HIDE DEF R
<1>3. PICK m \in S : \A n \in S : ~ (<<n, m>> \in R)
  BY <1>1, WFMin, Zenon
<1>4. \A n \in S : n \in Nat /\ m \in Nat /\ ~ (n < m)
  BY <1>2, <1>3
<1>5. \A n \in S : m <= n
  BY <1>4
<1> QED  BY <1>3, <1>5 DEF Min

(* What is in the reorder buffer after d chunks were delivered.            *)
LEMMA BufferFacts ==
    ASSUME Len(emitted) \in Nat, Len(emitted) <= MaxChunks,
           NEW d \in 0 .. Len(emitted), NEW b, Buffered(b, d, emitted)
    PROVE  /\ DOMAIN b \subseteq PosSet(d + 1, d + RecvWindow)
           /\ Pos(d) \notin DOMAIN b
           /\ \A i \in Positions : Pos(i) \in DOMAIN b =>
                 /\ i \in d + 1 .. Len(emitted) - 1
                 /\ i < d + RecvWindow
                 /\ b[Pos(i)] = emitted[i + 1]
<1>1. MaxChunks \in Nat /\ RecvWindow \in Nat
  BY ConstantFacts
<1>2. ASSUME NEW s \in DOMAIN b PROVE s \in PosSet(d + 1, d + RecvWindow)
  <2>1. PICK i \in d + 1 .. Len(emitted) - 1 : i < d + RecvWindow /\ s = Pos(i)
    BY DEF Buffered
  <2>2. i \in d + 1 .. (d + RecvWindow) - 1
    BY <1>1, <2>1
  <2> QED  BY <2>1, <2>2 DEF PosSet
<1>3. ASSUME NEW i \in Positions, Pos(i) \in DOMAIN b
      PROVE  /\ i \in d + 1 .. Len(emitted) - 1
             /\ i < d + RecvWindow
             /\ b[Pos(i)] = emitted[i + 1]
  <2>1. PICK j \in d + 1 .. Len(emitted) - 1 :
          j < d + RecvWindow /\ Pos(i) = Pos(j) /\ b[Pos(i)] = emitted[j + 1]
    BY <1>3 DEF Buffered
  <2>2. j \in Positions
    BY <1>1 DEF Positions
  <2>3. i = j
    BY <2>1, <2>2, PosInjective
  <2> QED  BY <2>1, <2>3
<1>4. d \in Positions /\ d \notin d + 1 .. Len(emitted) - 1
  BY <1>1 DEF Positions
<1>5. Pos(d) \notin DOMAIN b
  BY <1>3, <1>4
<1> QED  BY <1>2, <1>3, <1>5

(* While fewer than RecvWindow chunks are buffered the window is open.     *)
LEMMA AdvertisedWindowOpen ==
    ASSUME Len(emitted) \in Nat, Len(emitted) <= MaxChunks,
           NEW d \in 0 .. Len(emitted), NEW b, Buffered(b, d, emitted)
    PROVE  AdvertisedWindow(b) \in 1 .. RecvWindow
<1> DEFINE S == PosSet(d + 1, d + RecvWindow)
           c == Cardinality(DOMAIN b)
<1>1. MaxChunks \in Nat /\ RecvWindow \in Nat /\ RecvWindow >= 1
  BY ConstantFacts
<1>2. IsFiniteSet(S) /\ Cardinality(S) = RecvWindow - 1
  <2>1. /\ d + 1 \in Positions /\ d + RecvWindow \in Positions
        /\ d + 1 <= d + RecvWindow /\ (d + RecvWindow) - (d + 1) = RecvWindow - 1
    BY <1>1 DEF Positions
  <2> QED  BY <2>1, PosSetCardinality
<1>3. DOMAIN b \in SUBSET S
  BY BufferFacts
<1>4. c \in Nat /\ c <= RecvWindow - 1
  <2>1. IsFiniteSet(DOMAIN b) /\ c <= Cardinality(S)
    BY <1>2, <1>3, FS_Subset
  <2>2. c \in Nat
    BY <2>1, FS_CardinalityType
  <2> QED  BY <1>2, <2>1, <2>2
<1>5. AdvertisedWindow(b) = Max({0, RecvWindow - c})
  BY DEF AdvertisedWindow
<1> HIDE DEF c
<1>6. 0 \in Int /\ RecvWindow - c \in Int
  BY <1>1, <1>4
<1>7. /\ AdvertisedWindow(b) \in {0, RecvWindow - c}
      /\ AdvertisedWindow(b) >= RecvWindow - c
  BY <1>5, <1>6, PairBounds
<1> QED  BY <1>1, <1>4, <1>7

(* The lowest hole of a buffer that holds anything is the chunk expected   *)
(* next, and an empty buffer has no hole.                                  *)
LEMMA LowestMissingFacts ==
    ASSUME Len(emitted) \in Nat, Len(emitted) <= MaxChunks,
           NEW d \in 0 .. Len(emitted), NEW b, Buffered(b, d, emitted)
    PROVE  /\ DOMAIN b # {} => LowestMissing(Pos(d), b) = {Pos(d)}
           /\ DOMAIN b = {} => LowestMissing(Pos(d), b) = {}
<1>1. MaxChunks \in Nat /\ RecvWindow \in Nat /\ d \in Positions
  BY ConstantFacts DEF Positions
<1>2. ASSUME DOMAIN b # {} PROVE LowestMissing(Pos(d), b) = {Pos(d)}
  <2>1. seq_add(Pos(d), 0) = Pos(d)
    <3>1. d + 0 = d /\ d \in Int
      OBVIOUS
    <3> QED  BY <3>1, PosAdd
  <2>2. PICK i \in d + 1 .. Len(emitted) - 1 : Pos(i) \in DOMAIN b
    BY <1>2 DEF Buffered
  <2>3. seq_diff(Pos(i), Pos(d)) = i - d
    <3>1. i \in Positions
      BY <1>1 DEF Positions
    <3> QED  BY <1>1, <3>1, PosDiff
  <2>4. 0 \in Holes(Pos(d), b)
    <3>1. 0 \in 0 .. RecvWindow /\ 0 < seq_diff(Pos(i), Pos(d))
      BY <1>1, <2>3
    <3>2. seq_add(Pos(d), 0) \notin DOMAIN b
      BY <2>1, BufferFacts
    <3> QED  BY <2>2, <3>1, <3>2 DEF Holes
  <2>5. Holes(Pos(d), b) \subseteq Nat
    BY <1>1 DEF Holes
  <2>6. Min(Holes(Pos(d), b)) = 0
    <3>1. /\ Min(Holes(Pos(d), b)) \in Holes(Pos(d), b)
          /\ Min(Holes(Pos(d), b)) <= 0
      BY <2>4, <2>5, NatMinimum
    <3> QED  BY <2>5, <3>1
  <2> QED  BY <2>1, <2>4, <2>6 DEF LowestMissing
<1>3. ASSUME DOMAIN b = {} PROVE LowestMissing(Pos(d), b) = {}
  BY <1>3 DEF LowestMissing, Holes
<1> QED  BY <1>2, <1>3

(* The answer _on_data sends when d chunks have been delivered.            *)
LEMMA ReplyFacts ==
    ASSUME Len(emitted) \in Nat, Len(emitted) <= MaxChunks,
           NEW d \in 0 .. Len(emitted), NEW b, Buffered(b, d, emitted),
           NEW kept, kept \subseteq {Pos(d)}, Reply(Pos(d), b, kept)
    PROVE  /\ nacked' \subseteq {Pos(d)}
           /\ DOMAIN b # {} => nacked' = {Pos(d)}
           /\ \A p \in ackLink' : \/ p \in ackLink
                                  \/ \E w \in 1 .. RecvWindow :
                                       p = Ack(Pos(d), w) \/ p = Nack(Pos(d), w)
<1> DEFINE w == AdvertisedWindow(b)
           fresh == LowestMissing(Pos(d), b) \ kept
<1>1. w \in 1 .. RecvWindow
  BY AdvertisedWindowOpen
<1>2. /\ DOMAIN b # {} => LowestMissing(Pos(d), b) = {Pos(d)}
      /\ DOMAIN b = {} => LowestMissing(Pos(d), b) = {}
  BY LowestMissingFacts
<1>3. /\ ackLink' = ackLink \cup {Ack(Pos(d), w)} \cup {Nack(s, w) : s \in fresh}
      /\ nacked' = kept \cup fresh
  BY DEF Reply
<1> HIDE DEF w
<1>4. fresh \subseteq {Pos(d)} /\ (DOMAIN b # {} => kept \cup fresh = {Pos(d)})
  BY <1>2
<1> HIDE DEF fresh
<1> QED  BY <1>1, <1>3, <1>4
(* The drain loop stops at the first gap, which is inside the window.      *)
LEMMA DrainFacts ==
    ASSUME Len(emitted) \in Nat, Len(emitted) <= MaxChunks,
           NEW d \in 0 .. Len(emitted) - 1, NEW b, Buffered(b, d, emitted),
           NEW n, n = DrainLength(Pos(d + 1), b)
    PROVE  /\ n \in 0 .. RecvWindow - 1
           /\ Pos(d + 1 + n) \notin DOMAIN b
           /\ \A k \in 1 .. n : /\ Pos(d + k) \in DOMAIN b
                                /\ d + k <= Len(emitted) - 1
                                /\ b[Pos(d + k)] = emitted[d + k + 1]
<1> DEFINE D == {k \in 0 .. RecvWindow : seq_add(Pos(d + 1), k) \notin DOMAIN b}
<1>1. MaxChunks \in Nat /\ RecvWindow \in Nat /\ RecvWindow >= 1
  BY ConstantFacts
<1>2. \A k \in 0 .. RecvWindow : seq_add(Pos(d + 1), k) = Pos(d + 1 + k)
  BY <1>1, PosAdd
<1>3. RecvWindow - 1 \in D
  <2>1. /\ RecvWindow - 1 \in 0 .. RecvWindow
        /\ d + 1 + (RecvWindow - 1) = d + RecvWindow
        /\ d + RecvWindow \in Positions
        /\ ~ (d + RecvWindow < d + RecvWindow)
    BY <1>1 DEF Positions
  <2>2. Pos(d + RecvWindow) \notin DOMAIN b
    <3>1. d \in 0 .. Len(emitted)
      OBVIOUS
    <3> QED  BY <2>1, <3>1, BufferFacts
  <2> QED  BY <1>2, <2>1, <2>2
<1>4. D \subseteq Nat
  BY <1>1
<1>5. n \in D /\ \A k \in D : n <= k
  <2>1. n = Min(D)
    BY DEF DrainLength
  <2> HIDE DEF D
  <2> QED  BY <1>3, <1>4, <2>1, NatMinimum
<1>6. n \in 0 .. RecvWindow - 1
  BY <1>1, <1>3, <1>4, <1>5
<1>7. Pos(d + 1 + n) \notin DOMAIN b
  BY <1>2, <1>5
<1>8. ASSUME NEW k \in 1 .. n
      PROVE  /\ Pos(d + k) \in DOMAIN b
             /\ d + k <= Len(emitted) - 1
             /\ b[Pos(d + k)] = emitted[d + k + 1]
  <2>1. k - 1 \in 0 .. RecvWindow /\ ~ (n <= k - 1) /\ d + 1 + (k - 1) = d + k
    BY <1>1, <1>6
  <2>2. Pos(d + k) \in DOMAIN b
    BY <1>2, <1>5, <2>1
  <2>3. d + k \in Positions /\ d \in 0 .. Len(emitted)
    BY <1>1, <1>6 DEF Positions
  <2>4. d + k \in d + 1 .. Len(emitted) - 1 /\ b[Pos(d + k)] = emitted[d + k + 1]
    BY <2>2, <2>3, BufferFacts
  <2> QED  BY <2>2, <2>4
<1> QED  BY <1>6, <1>7, <1>8

(* Every DATA packet on the link carries a chunk of the log under its own  *)
(* number.                                                                 *)
LEMMA DataOnLink ==
    ASSUME LinkInv, NEW p \in dataLink
    PROVE  \E i \in 0 .. Len(emitted) - 1 : p.seq = Pos(i) /\ p.chunk = emitted[i + 1]
<1>1. PICK i \in 0 .. Len(emitted) - 1 : p = DataPacket(Pos(i), emitted[i + 1])
  BY DEF LinkInv
<1>2. p.seq = Pos(i) /\ p.chunk = emitted[i + 1]
  BY <1>1 DEF DataPacket
<1> QED  BY <1>2

(* A step of the receiver that hands over the chunks d+1 .. f of the log,  *)
(* keeps only later ones and answers keeps the invariant.                  *)
LEMMA ReceiverStep ==
    ASSUME IInv, delivered' \in Seq(Chunks),
           Len(delivered) <= Len(delivered'), Len(delivered') <= Len(emitted),
           \A i \in 1 .. Len(delivered') : delivered'[i] = emitted[i],
           rcv_base' = Pos(Len(delivered')),
           Buffered(reorder', Len(delivered'), emitted),
           NEW kept, kept \subseteq {rcv_base'}, Reply(rcv_base', reorder', kept),
           UNCHANGED <<senderVars, dataLink, submitted, emitted>>
    PROVE  IInv'
<1> DEFINE f == Len(delivered')
<1>1. /\ next_seq' = next_seq /\ outstanding' = outstanding
      /\ peer_window' = peer_window /\ pending' = pending /\ acked' = acked
      /\ failed' = failed /\ dataLink' = dataLink
      /\ submitted' = submitted /\ emitted' = emitted
  BY DEF senderVars
<1>2. /\ Len(emitted) \in Nat /\ Len(emitted) <= MaxChunks
      /\ Len(delivered) \in Nat /\ acked <= Len(delivered) /\ acked \in Nat
      /\ f \in 0 .. Len(emitted)
  BY Counters
<1>3. /\ nacked' \subseteq {Pos(f)}
      /\ DOMAIN reorder' # {} => nacked' = {Pos(f)}
      /\ \A p \in ackLink' : \/ p \in ackLink
                             \/ \E w \in 1 .. RecvWindow :
                                  p = Ack(Pos(f), w) \/ p = Nack(Pos(f), w)
  BY <1>2, ReplyFacts
<1>4. SenderInv'
  BY <1>1 DEF IInv, SenderInv
<1>5. ReceiverInv'
  <2>1. InOrderDelivery'
    BY <1>1 DEF InOrderDelivery
  <2>2. acked' <= Len(delivered')
    BY <1>1, <1>2
  <2> QED  BY <1>1, <1>3, <2>1, <2>2 DEF ReceiverInv
<1>6. ASSUME NEW p \in ackLink'
      PROVE  \E i \in 0 .. f, w \in 1 .. RecvWindow :
               p = Ack(Pos(i), w) \/ p = Nack(Pos(i), w)
  <2>1. CASE p \in ackLink
    <3>1. PICK i \in 0 .. Len(delivered), w \in 1 .. RecvWindow :
            p = Ack(Pos(i), w) \/ p = Nack(Pos(i), w)
      BY <2>1 DEF IInv, LinkInv
    <3>2. i \in 0 .. f
      BY <1>2
    <3> QED  BY <3>1, <3>2
  <2>2. CASE \E w \in 1 .. RecvWindow : p = Ack(Pos(f), w) \/ p = Nack(Pos(f), w)
    <3>1. f \in 0 .. f
      BY <1>2
    <3> QED  BY <2>2, <3>1
  <2> QED  BY <1>3, <2>1, <2>2
<1>7. LinkInv'
  BY <1>1, <1>6 DEF IInv, LinkInv
<1> QED  BY <1>4, <1>5, <1>7 DEF IInv
(* What _on_data of the chunk expected next hands over: the log from where *)
(* delivery stood up to the first gap.                                     *)
LEMMA InOrderFacts ==
    ASSUME IInv, NEW p \in dataLink, OnDataInOrder(p),
           NEW n, n = DrainLength(seq_add(rcv_base, 1), reorder)
    PROVE  /\ n \in 0 .. RecvWindow - 1
           /\ delivered' \in Seq(Chunks)
           /\ Len(delivered') = Len(delivered) + 1 + n
           /\ Len(delivered') <= Len(emitted)
           /\ \A i \in 1 .. Len(delivered') : delivered'[i] = emitted[i]
           /\ Pos(Len(delivered')) \notin DOMAIN reorder
<1> DEFINE d == Len(delivered)
           e == Len(emitted)
           run == [k \in 1 .. n |-> reorder[seq_add(rcv_base, k)]]
<1>1. /\ emitted \in Seq(Chunks) /\ e \in Nat /\ e <= MaxChunks
      /\ delivered \in Seq(Chunks) /\ d \in Nat /\ d <= e
      /\ MaxChunks \in Nat /\ RecvWindow \in Nat
  BY Counters
<1>2. /\ rcv_base = Pos(d) /\ Buffered(reorder, d, emitted)
      /\ \A i \in 1 .. d : delivered[i] = emitted[i]
  BY DEF IInv, ReceiverInv, InOrderDelivery
<1>3. p.chunk = emitted[d + 1] /\ d \in 0 .. e - 1
  <2>1. PICK i \in 0 .. e - 1 : p.seq = Pos(i) /\ p.chunk = emitted[i + 1]
    BY DataOnLink DEF IInv
  <2>2. i \in Positions /\ d \in Positions /\ Pos(i) = Pos(d)
    BY <1>1, <1>2, <2>1 DEF Positions, OnDataInOrder
  <2>3. i = d
    BY <2>2, PosInjective
  <2> QED  BY <2>1, <2>3
<1>4. n = DrainLength(Pos(d + 1), reorder)
  BY <1>1, <1>2, PosAdd
<1>5. /\ n \in 0 .. RecvWindow - 1
      /\ Pos(d + 1 + n) \notin DOMAIN reorder
      /\ \A k \in 1 .. n : /\ Pos(d + k) \in DOMAIN reorder
                           /\ d + k <= e - 1
                           /\ reorder[Pos(d + k)] = emitted[d + k + 1]
  <2> HIDE DEF d, e
  <2>1. e = Len(emitted) /\ Buffered(reorder, d, emitted) /\ d \in 0 .. Len(emitted) - 1
    BY <1>2, <1>3 DEF d, e
  <2>2. Len(emitted) \in Nat /\ Len(emitted) <= MaxChunks
    BY <1>1, <2>1
  <2> QED  BY <1>4, <2>1, <2>2, DrainFacts
<1>6. \A k \in 1 .. n : d + k \in 1 .. e - 1 /\ run[k] = emitted[d + k + 1]
  <2>1. \A k \in 1 .. n : seq_add(rcv_base, k) = Pos(d + k)
    BY <1>1, <1>2, <1>5, PosAdd
  <2> QED  BY <1>1, <1>5, <2>1
<1>7. run \in Seq(Chunks) /\ Len(run) = n
  <2>1. \A k \in 1 .. n : run[k] \in Chunks
    <3>1. \A k \in 1 .. n : d + k + 1 \in 1 .. e
      BY <1>1, <1>6
    <3> QED  BY <1>1, <1>6, <3>1
  <2>2. n \in Nat
    BY <1>5
  <2> QED  BY <2>1, <2>2
<1>8. delivered' = delivered \o <<p.chunk>> \o run
  BY <1>4 DEF OnDataInOrder
<1> HIDE DEF run
<1>9. p.chunk \in Chunks
  BY <1>1, <1>3
<1> DEFINE first == delivered \o <<p.chunk>>
<1>10. /\ first \in Seq(Chunks)
       /\ Len(first) = d + 1
       /\ \A i \in 1 .. d : first[i] = delivered[i]
       /\ first[d + 1] = p.chunk
  BY <1>1, <1>9
<1> HIDE DEF first
<1>11. /\ delivered' \in Seq(Chunks)
       /\ Len(delivered') = d + 1 + n
       /\ \A i \in 1 .. d + 1 : delivered'[i] = first[i]
       /\ \A k \in 1 .. n : delivered'[d + 1 + k] = run[k]
  <2>1. delivered' = first \o run
    BY <1>8 DEF first
  <2>2. /\ first \o run \in Seq(Chunks)
        /\ Len(first \o run) = Len(first) + Len(run)
        /\ \A i \in 1 .. Len(first) : (first \o run)[i] = first[i]
        /\ \A i \in 1 .. Len(run) : (first \o run)[Len(first) + i] = run[i]
    <3>1. first \in Seq(Chunks)
      BY <1>10
    <3>2. run \in Seq(Chunks)
      BY <1>7
    <3> QED  BY <3>1, <3>2, ConcatFacts
  <2> QED  BY <1>7, <1>10, <2>1, <2>2
<1>12. d + 1 + n <= e
  <2>1. CASE n = 0  BY <1>1, <1>3, <2>1
  <2>2. CASE n > 0
    <3>1. n \in 1 .. n
      BY <1>5, <2>2
    <3>2. d + n \in 1 .. e - 1
      BY <1>6, <3>1
    <3> QED  BY <1>1, <1>5, <3>2
  <2> QED  BY <1>5, <2>1, <2>2
<1>13. ASSUME NEW i \in 1 .. d + 1 + n PROVE delivered'[i] = emitted[i]
  <2>1. CASE i \in 1 .. d
    BY <1>1, <1>2, <1>10, <1>11, <2>1
  <2>2. CASE i = d + 1
    BY <1>1, <1>3, <1>10, <1>11, <2>2
  <2>3. CASE i > d + 1
    <3>1. i - (d + 1) \in 1 .. n /\ d + 1 + (i - (d + 1)) = i
          /\ d + (i - (d + 1)) + 1 = i
      BY <1>1, <1>5, <2>3
    <3> QED  BY <1>6, <1>11, <3>1
  <2> QED  BY <1>1, <1>5, <2>1, <2>2, <2>3
<1>14. d + 1 + n \in Nat /\ d + 1 + n = Len(delivered')
  BY <1>1, <1>5, <1>11
<1> QED  BY <1>5, <1>11, <1>12, <1>13, <1>14

LEMMA OnDataInOrderStep ==
    ASSUME IInv, NEW p \in dataLink, OnDataInOrder(p)
    PROVE  IInv'
<1> DEFINE n == DrainLength(seq_add(rcv_base, 1), reorder)
           d == Len(delivered)
           f == Len(delivered')
           e == Len(emitted)
           drained == {seq_add(rcv_base, k) : k \in 1 .. n}
           base == seq_add(rcv_base, n + 1)
<1>1. /\ n \in 0 .. RecvWindow - 1
      /\ delivered' \in Seq(Chunks)
      /\ f = d + 1 + n
      /\ f <= e
      /\ \A i \in 1 .. f : delivered'[i] = emitted[i]
      /\ Pos(f) \notin DOMAIN reorder
  BY InOrderFacts
<1>2. /\ e \in Nat /\ e <= MaxChunks /\ d \in Nat /\ MaxChunks \in Nat
      /\ RecvWindow \in Nat
  BY Counters
<1>3. /\ rcv_base' = base
      /\ reorder' = [s \in DOMAIN reorder \ drained |-> reorder[s]]
      /\ Reply(base, reorder', Prune(base))
      /\ UNCHANGED <<senderVars, dataLink, submitted, emitted>>
  BY DEF OnDataInOrder
<1> HIDE DEF n
<1>4. /\ rcv_base = Pos(d) /\ Buffered(reorder, d, emitted)
      /\ nacked \subseteq {Pos(d)}
  BY DEF IInv, ReceiverInv
<1>5. base = Pos(f)
  <2>1. n + 1 \in Int /\ d \in Int /\ d + (n + 1) = f
    BY <1>1, <1>2
  <2> QED  BY <1>4, <2>1, PosAdd
<1>6. ASSUME NEW k \in 1 .. n PROVE Pos(d + k) \in drained
  <2>1. seq_add(rcv_base, k) = Pos(d + k)
    BY <1>1, <1>2, <1>4, PosAdd
  <2> QED  BY <2>1
<1> HIDE DEF base, drained
<1>7. Buffered(reorder', f, emitted)
  <2>1. ASSUME NEW s \in DOMAIN reorder'
        PROVE  \E i \in f + 1 .. e - 1 :
                 i < f + RecvWindow /\ s = Pos(i) /\ reorder'[s] = emitted[i + 1]
    <3>1. s \in DOMAIN reorder /\ s \notin drained /\ reorder'[s] = reorder[s]
      BY <1>3
    <3>2. PICK i \in d + 1 .. e - 1 :
            i < d + RecvWindow /\ s = Pos(i) /\ reorder[s] = emitted[i + 1]
      BY <1>4, <3>1 DEF Buffered
    <3>3. i # f
      BY <1>1, <3>1, <3>2
    <3>4. i \notin d + 1 .. d + n
      <4>1. ASSUME i \in d + 1 .. d + n PROVE FALSE
        <5>1. i - d \in 1 .. n /\ d + (i - d) = i
          BY <1>1, <1>2, <4>1
        <5> QED  BY <1>6, <3>1, <3>2, <5>1
      <4> QED  BY <4>1
    <3>5. i \in f + 1 .. e - 1 /\ i < f + RecvWindow
      BY <1>1, <1>2, <3>2, <3>3, <3>4
    <3> QED  BY <3>1, <3>2, <3>5
  <2>2. reorder' = [s \in DOMAIN reorder' |-> reorder'[s]]
    BY <1>3
  <2> QED  BY <2>1, <2>2 DEF Buffered
<1>8. Prune(base) = {}
  <2>1. d \in Positions /\ f \in Positions /\ ~ (f < d)
    BY <1>1, <1>2 DEF Positions
  <2>2. ~ seq_lt(Pos(f), Pos(d))
    BY <2>1, PosLt
  <2> QED  BY <1>4, <1>5, <2>2 DEF Prune
<1>9. d <= f
  BY <1>1, <1>2
<1> QED  BY <1>1, <1>3, <1>5, <1>7, <1>8, <1>9, ReceiverStep

LEMMA OnDataAheadStep ==
    ASSUME IInv, NEW p \in dataLink, OnDataAhead(p)
    PROVE  IInv'
<1> DEFINE d == Len(delivered)
           e == Len(emitted)
           keep == /\ seq_diff(p.seq, rcv_base) < RecvWindow
                   /\ p.seq \notin DOMAIN reorder
           buf == IF keep
                  THEN [s \in DOMAIN reorder \cup {p.seq} |->
                          IF s = p.seq THEN p.chunk ELSE reorder[s]]
                  ELSE reorder
<1>1. /\ e \in Nat /\ e <= MaxChunks /\ d \in Nat /\ MaxChunks \in Nat
      /\ RecvWindow \in Nat /\ d <= e /\ delivered \in Seq(Chunks)
  BY Counters
<1>2. /\ rcv_base = Pos(d) /\ Buffered(reorder, d, emitted)
      /\ nacked \subseteq {Pos(d)}
      /\ \A i \in 1 .. d : delivered[i] = emitted[i]
  BY DEF IInv, ReceiverInv, InOrderDelivery
<1>3. /\ seq_lt(rcv_base, p.seq)
      /\ reorder' = buf
      /\ Reply(rcv_base, buf, nacked)
      /\ rcv_base' = rcv_base /\ submitted' = submitted
      /\ emitted' = emitted /\ delivered' = delivered
      /\ UNCHANGED <<senderVars, dataLink>>
  BY DEF OnDataAhead, historyVars
<1>4. PICK i \in 0 .. e - 1 : p.seq = Pos(i) /\ p.chunk = emitted[i + 1]
  BY DataOnLink DEF IInv
<1>5. i \in Positions /\ d \in Positions
  BY <1>1 DEF Positions
<1>6. d < i /\ seq_diff(p.seq, rcv_base) = i - d
  BY <1>2, <1>3, <1>4, <1>5, PosLt, PosDiff
<1>7. Buffered(buf, d, emitted)
  <2>1. CASE keep
    <3>1. i \in d + 1 .. e - 1 /\ i < d + RecvWindow
      BY <1>1, <1>6, <2>1
    <3>2. buf = [s \in DOMAIN reorder \cup {p.seq} |->
                   IF s = p.seq THEN p.chunk ELSE reorder[s]]
      BY <2>1
    <3> HIDE DEF buf, keep
    <3>3. ASSUME NEW s \in DOMAIN buf
          PROVE  \E j \in d + 1 .. e - 1 :
                   j < d + RecvWindow /\ s = Pos(j) /\ buf[s] = emitted[j + 1]
      <4>1. CASE s = p.seq
        BY <1>4, <3>1, <3>2, <4>1
      <4>2. CASE s # p.seq
        <5>1. s \in DOMAIN reorder /\ buf[s] = reorder[s]
          BY <3>2, <4>2
        <5> QED  BY <1>2, <5>1 DEF Buffered
      <4> QED  BY <4>1, <4>2
    <3>4. buf = [s \in DOMAIN buf |-> buf[s]]
      BY <3>2
    <3> QED  BY <3>3, <3>4 DEF Buffered
  <2>2. CASE ~ keep
    BY <1>2, <2>2
  <2> QED  BY <2>1, <2>2
<1> HIDE DEF buf, keep
<1> QED  BY <1>1, <1>2, <1>3, <1>7, ReceiverStep

LEMMA OnDataOldStep ==
    ASSUME IInv, NEW p \in dataLink, OnDataOld(p)
    PROVE  IInv'
<1>1. /\ Len(delivered) \in Nat /\ Len(delivered) <= Len(emitted)
      /\ delivered \in Seq(Chunks)
  BY Counters
<1>2. /\ rcv_base = Pos(Len(delivered)) /\ nacked \subseteq {rcv_base}
      /\ Buffered(reorder, Len(delivered), emitted)
      /\ \A i \in 1 .. Len(delivered) : delivered[i] = emitted[i]
  BY DEF IInv, ReceiverInv, InOrderDelivery
<1>3. /\ Reply(rcv_base, reorder, nacked)
      /\ rcv_base' = rcv_base /\ reorder' = reorder /\ submitted' = submitted
      /\ emitted' = emitted /\ delivered' = delivered
      /\ UNCHANGED <<senderVars, dataLink>>
  BY DEF OnDataOld, historyVars
<1> QED  BY <1>1, <1>2, <1>3, ReceiverStep
-----------------------------------------------------------------------------
(* The invariant.                                                          *)

LEMMA InitIInv ==
    ASSUME Init
    PROVE  IInv
<1>1. Pos(0) = ISN
  BY SeqOfZero, ConstantFacts DEF Pos
<1>2. PosSet(0, 0) = {}
  BY DEF PosSet
<1>3. Flight(outstanding, acked, emitted)
  BY <1>2 DEF Flight, Init
<1>4. peer_window \in 1 .. Max({SendWindow, RecvWindow})
  <2>1. SendWindow \in Int /\ RecvWindow \in Int
    BY ConstantFacts
  <2>2. Max({SendWindow, RecvWindow}) \in {SendWindow, RecvWindow}
        /\ Max({SendWindow, RecvWindow}) >= SendWindow
    BY <2>1, PairBounds
  <2>3. Max({SendWindow, RecvWindow}) \in Int
    BY <2>1, <2>2
  <2> QED  BY <2>1, <2>2, <2>3, ConstantFacts DEF Init
<1>5. SenderInv
  <2>1. Len(emitted) = 0 /\ Len(pending) = 0 /\ emitted \in Seq(Chunks)
        /\ pending \in Seq(Chunks)
    BY DEF Init
  <2>2. submitted \in 0 .. MaxChunks /\ acked \in 0 .. Len(emitted)
        /\ Len(emitted) - acked <= SendWindow
        /\ Len(emitted) + Len(pending) = submitted
    BY <2>1, ConstantFacts DEF Init
  <2>3. next_seq = Pos(Len(emitted)) /\ failed \in BOOLEAN /\ pending = << >>
    BY <1>1, <2>1 DEF Init
  <2> QED  BY <1>3, <1>4, <2>1, <2>2, <2>3 DEF SenderInv
<1>6. ReceiverInv
  <2>1. Len(delivered) = 0 /\ Len(emitted) = 0 /\ delivered \in Seq(Chunks)
    BY DEF Init
  <2>2. InOrderDelivery
    BY <2>1 DEF InOrderDelivery
  <2>3. Buffered(reorder, Len(delivered), emitted)
    BY DEF Buffered, Init
  <2> QED  BY <1>1, <2>1, <2>2, <2>3 DEF ReceiverInv, Init
<1>7. LinkInv
  BY DEF LinkInv, Init
<1> QED  BY <1>5, <1>6, <1>7 DEF IInv

LEMMA NextIInv ==
    ASSUME IInv, [Next]_vars
    PROVE  IInv'
<1>1. CASE \E k \in 1 .. MaxBurst : Send(k)
  BY <1>1, SendStep
<1>2. CASE \E p \in ackLink : OnAck(p)
  BY <1>2, OnAckStep
<1>3. CASE \E p \in ackLink : OnNack(p)
  BY <1>3, OnNackStep
<1>4. CASE Tick
  BY <1>4, OnTickStep
<1>5. CASE \E p \in dataLink : OnData(p)
  BY <1>5, OnDataInOrderStep, OnDataAheadStep, OnDataOldStep DEF OnData
<1>6. CASE \E p \in dataLink : LoseData(p)
  <2>1. dataLink' \subseteq dataLink /\ ackLink' \subseteq ackLink
        /\ UNCHANGED <<senderVars, receiverVars, historyVars>>
    BY <1>6 DEF LoseData
  <2> QED  BY <2>1, LoseStep
<1>7. CASE \E p \in ackLink : LoseAck(p)
  <2>1. dataLink' \subseteq dataLink /\ ackLink' \subseteq ackLink
        /\ UNCHANGED <<senderVars, receiverVars, historyVars>>
    BY <1>7 DEF LoseAck
  <2> QED  BY <2>1, LoseStep
<1>8. CASE UNCHANGED vars
  <2>1. dataLink' \subseteq dataLink /\ ackLink' \subseteq ackLink
        /\ UNCHANGED <<senderVars, receiverVars, historyVars>>
    BY <1>8 DEF vars, linkVars
  <2> QED  BY <2>1, LoseStep
<1> QED  BY <1>1, <1>2, <1>3, <1>4, <1>5, <1>6, <1>7, <1>8 DEF Next

(* The inductive invariant of one direction of the reliability layer       *)
(* (arq.py): holds in every reachable state.                               *)
THEOREM InvariantHolds == Spec => []IInv
  BY InitIInv, NextIInv, PTL DEF Spec

(* What the application is handed is a prefix of what was transmitted, in  *)
(* the order of transmission (_on_data), for every window, every initial   *)
(* sequence number and across every wrap.                                  *)
THEOREM DeliveryInOrder == Spec => []InOrderDelivery
<1>1. IInv => InOrderDelivery
  BY DEF IInv, ReceiverInv
<1> QED  BY <1>1, InvariantHolds, PTL

(* Nothing is taken for acknowledged that was not handed over (_on_ack),   *)
(* and everything emitted but not acknowledged can be retransmitted.       *)
THEOREM AckedWasDelivered == Spec => []NoFalseAck
<1>1. ASSUME IInv PROVE NoFalseAck
  <2>1. /\ Flight(outstanding, acked, emitted)
        /\ acked <= Len(delivered)
    BY <1>1 DEF IInv, SenderInv, ReceiverInv
  <2>2. DOMAIN outstanding = {SeqOf(ISN, i) : i \in acked .. Len(emitted) - 1}
    BY <2>1 DEF Flight, PosSet, Pos
  <2>3. ASSUME NEW i \in acked .. Len(emitted) - 1
        PROVE  outstanding[SeqOf(ISN, i)].chunk = emitted[i + 1]
    <3>1. outstanding[Pos(i)] \in [chunk : {emitted[i + 1]}, retx : 0 .. RetxCap]
      BY <2>1 DEF Flight
    <3> QED  BY <3>1 DEF Pos
  <2> QED  BY <2>1, <2>2, <2>3 DEF NoFalseAck
<1> QED  BY <1>1, InvariantHolds, PTL

(* No endpoint ever advertises, or adopts, a closed window                 *)
(* (_recv_advertised_window, _can_send): there is no probe that could      *)
(* reopen one.                                                             *)
THEOREM WindowStaysOpen == Spec => []NoZeroWindow
<1>1. ASSUME IInv PROVE NoZeroWindow
  <2>1. ASSUME NEW p \in ackLink PROVE p.window >= 1
    <3>1. p.window \in 1 .. RecvWindow
      BY <1>1, AckOnLink, Counters DEF IInv
    <3> QED  BY <3>1, ConstantFacts
  <2>2. peer_window >= 1
    <3>1. SendWindow \in Int /\ RecvWindow \in Int
      BY ConstantFacts
    <3>2. Max({SendWindow, RecvWindow}) \in Int
      BY <3>1, PairBounds
    <3> QED  BY <1>1, <3>2 DEF IInv, SenderInv
  <2> QED  BY <2>1, <2>2 DEF NoZeroWindow
<1> QED  BY <1>1, InvariantHolds, PTL

(* A queue is never left without an outstanding packet whose              *)
(* acknowledgement will flush it (send, _flush_pending).                   *)
THEOREM QueueIsDriven == Spec => []QueueHasPilot
<1>1. ASSUME IInv PROVE QueueHasPilot
  <2>1. ASSUME pending # << >> PROVE DOMAIN outstanding # {}
    <3>1. acked < Len(emitted) /\ acked \in Nat /\ Len(emitted) \in Nat
      BY <1>1, <2>1, Counters DEF IInv, SenderInv
    <3>2. acked \in acked .. Len(emitted) - 1
      BY <3>1
    <3>3. Pos(acked) \in PosSet(acked, Len(emitted))
      BY <3>2 DEF PosSet
    <3> QED  BY <1>1, <3>3, Counters
  <2> QED  BY <2>1 DEF QueueHasPilot
<1> QED  BY <1>1, InvariantHolds, PTL
(* The reorder buffer stays strictly inside the window, and the chunk      *)
(* expected next - and nothing else - is on record as NACKed as soon as    *)
(* anything is buffered (_lowest_missing_seq, _prune_nacked).              *)
THEOREM HolesAreReported == Spec => []HoleIsNacked
<1>1. ASSUME IInv PROVE HoleIsNacked
  <2> DEFINE d == Len(delivered)
  <2>1. /\ Len(emitted) \in Nat /\ Len(emitted) <= MaxChunks /\ d \in Nat
        /\ d <= Len(emitted) /\ MaxChunks \in Nat /\ RecvWindow \in Nat
    BY <1>1, Counters
  <2>2. rcv_base = Pos(d) /\ Buffered(reorder, d, emitted)
    BY <1>1 DEF IInv, ReceiverInv
  <2>3. ASSUME NEW s \in DOMAIN reorder
        PROVE  seq_diff(s, rcv_base) \in 1 .. RecvWindow - 1
    <3>1. PICK i \in d + 1 .. Len(emitted) - 1 : i < d + RecvWindow /\ s = Pos(i)
      BY <2>2 DEF Buffered
    <3>2. i \in Positions /\ d \in Positions
      BY <2>1 DEF Positions
    <3>3. seq_diff(s, rcv_base) = i - d
      BY <2>2, <3>1, <3>2, PosDiff
    <3> QED  BY <2>1, <3>1, <3>3
  <2> QED  BY <1>1, <2>3 DEF IInv, ReceiverInv, HoleIsNacked
<1> QED  BY <1>1, InvariantHolds, PTL

(* Flow control (_can_send): no more outstanding than the window, and      *)
(* nothing on the link beyond what the receiver has room for.              *)
THEOREM FlowControl == Spec => []WindowRespected
<1>1. ASSUME IInv PROVE WindowRespected
  <2> DEFINE d == Len(delivered)
             e == Len(emitted)
  <2>1. /\ e \in Nat /\ e <= MaxChunks /\ d \in Nat /\ d <= e
        /\ acked \in Nat /\ acked <= d /\ e - acked <= SendWindow
        /\ MaxChunks \in Nat /\ RecvWindow \in Nat /\ SendWindow \in Nat
        /\ DOMAIN outstanding = PosSet(acked, e)
    BY <1>1, Counters
  <2>2. acked \in Positions /\ e \in Positions /\ d \in Positions
    BY <2>1 DEF Positions
  <2>3. Cardinality(DOMAIN outstanding) <= SendWindow
    <3>1. Cardinality(PosSet(acked, e)) = e - acked
      BY <2>1, <2>2, PosSetCardinality
    <3> QED  BY <2>1, <3>1
  <2>4. ASSUME SendWindow <= RecvWindow, NEW p \in dataLink
        PROVE  seq_diff(p.seq, rcv_base) < RecvWindow
    <3>1. PICK i \in 0 .. e - 1 : p.seq = Pos(i)
      BY <1>1, DataOnLink DEF IInv
    <3>2. i \in Positions /\ rcv_base = Pos(d)
      BY <1>1, <2>1 DEF Positions, IInv, ReceiverInv
    <3>3. seq_diff(p.seq, rcv_base) = i - d
      BY <2>2, <3>1, <3>2, PosDiff
    <3> QED  BY <2>1, <2>4, <3>3
  <2> QED  BY <2>3, <2>4 DEF WindowRespected
<1> QED  BY <1>1, InvariantHolds, PTL
(* The inductive invariant gives every variable its type.                  *)
THEOREM TypesHold == Spec => []TypeOK
<1>1. ASSUME IInv PROVE TypeOK
  <2> DEFINE d == Len(delivered)
             e == Len(emitted)
  <2>1. /\ emitted \in Seq(Chunks) /\ pending \in Seq(Chunks)
        /\ delivered \in Seq(Chunks)
        /\ e \in Nat /\ e <= MaxChunks /\ d \in Nat /\ d <= e
        /\ acked \in Nat /\ acked <= d
        /\ MaxChunks \in Nat /\ RecvWindow \in Nat /\ SendWindow \in Nat
        /\ DOMAIN outstanding = PosSet(acked, e)
    BY <1>1, Counters
  <2>2. \A i \in 0 .. e : Pos(i) \in Seqs
    BY <2>1, PosType
  <2>3. \A i \in 1 .. e : emitted[i] \in Chunks
    BY <2>1
  <2>4. next_seq \in Seqs /\ rcv_base \in Seqs
    BY <1>1, <2>1, <2>2 DEF IInv, SenderInv, ReceiverInv
  <2>5. DOMAIN outstanding \subseteq Seqs
    BY <2>1, <2>2 DEF PosSet
  <2>6. outstanding \in [DOMAIN outstanding -> [chunk : Chunks, retx : 0 .. RetxCap]]
    <3>1. Flight(outstanding, acked, emitted)
      BY <1>1 DEF IInv, SenderInv
    <3>2. ASSUME NEW s \in DOMAIN outstanding
          PROVE  outstanding[s] \in [chunk : Chunks, retx : 0 .. RetxCap]
      <4>1. PICK i \in acked .. e - 1 : s = Pos(i)
        BY <2>1 DEF PosSet
      <4>2. outstanding[s] \in [chunk : {emitted[i + 1]}, retx : 0 .. RetxCap]
        BY <3>1, <4>1 DEF Flight
      <4>3. emitted[i + 1] \in Chunks
        BY <2>1, <2>3, <4>1
      <4> QED  BY <4>2, <4>3
    <3> QED  BY <3>1, <3>2 DEF Flight
  <2>7. /\ DOMAIN reorder \subseteq Seqs
        /\ reorder \in [DOMAIN reorder -> Chunks]
    <3>1. Buffered(reorder, d, emitted)
      BY <1>1 DEF IInv, ReceiverInv
    <3>2. ASSUME NEW s \in DOMAIN reorder PROVE s \in Seqs /\ reorder[s] \in Chunks
      <4>1. PICK i \in d + 1 .. e - 1 : s = Pos(i) /\ reorder[s] = emitted[i + 1]
        BY <3>1 DEF Buffered
      <4>2. i \in 0 .. e /\ i + 1 \in 1 .. e
        BY <2>1, <4>1
      <4> QED  BY <2>2, <2>3, <4>1, <4>2
    <3> QED  BY <3>1, <3>2 DEF Buffered
  <2>8. nacked \subseteq Seqs
    BY <1>1, <2>4 DEF IInv, ReceiverInv
  <2>9. dataLink \subseteq [seq : Seqs, chunk : Chunks]
    <3>1. ASSUME NEW p \in dataLink PROVE p \in [seq : Seqs, chunk : Chunks]
      <4>1. PICK i \in 0 .. e - 1 : p = DataPacket(Pos(i), emitted[i + 1])
        BY <1>1 DEF IInv, LinkInv
      <4>2. i \in 0 .. e /\ i + 1 \in 1 .. e
        BY <2>1, <4>1
      <4> QED  BY <2>2, <2>3, <4>1, <4>2 DEF DataPacket
    <3> QED  BY <3>1
  <2>10. ackLink \subseteq [type : {"ACK", "NACK"}, ack : Seqs, window : 0 .. RecvWindow]
    <3>1. ASSUME NEW p \in ackLink
          PROVE  p \in [type : {"ACK", "NACK"}, ack : Seqs, window : 0 .. RecvWindow]
      <4>1. PICK i \in 0 .. d, w \in 1 .. RecvWindow :
              p = Ack(Pos(i), w) \/ p = Nack(Pos(i), w)
        BY <1>1 DEF IInv, LinkInv
      <4>2. Pos(i) \in Seqs /\ w \in 0 .. RecvWindow
        BY <2>1, <2>2, <4>1
      <4> QED  BY <4>1, <4>2 DEF Ack, Nack
    <3> QED  BY <3>1
  <2>11. peer_window \in 0 .. Max({SendWindow, RecvWindow})
    <3>1. SendWindow \in Int /\ RecvWindow \in Int
      BY <2>1
    <3>2. Max({SendWindow, RecvWindow}) \in Int
      BY <3>1, PairBounds
    <3>3. peer_window \in 1 .. Max({SendWindow, RecvWindow})
      BY <1>1 DEF IInv, SenderInv
    <3> QED  BY <3>2, <3>3
  <2>12. acked \in 0 .. MaxChunks /\ submitted \in 0 .. MaxChunks /\ failed \in BOOLEAN
    BY <1>1, <2>1 DEF IInv, SenderInv
  <2> QED  BY <2>1, <2>4, <2>5, <2>6, <2>7, <2>8, <2>9, <2>10, <2>11, <2>12 DEF TypeOK
<1> QED  BY <1>1, InvariantHolds, PTL

-----------------------------------------------------------------------------
(* What was submitted is in the log or in the queue.                       *)

(* The chunks of a sequence are those of its two parts.                    *)
LEMMA RangeConcat ==
    ASSUME NEW S, NEW s \in Seq(S), NEW t \in Seq(S)
    PROVE  Range(s \o t) = Range(s) \cup Range(t)
<1> DEFINE u == s \o t
<1>1. /\ u \in Seq(S) /\ Len(u) = Len(s) + Len(t)
      /\ \A i \in 1 .. Len(s) : u[i] = s[i]
      /\ \A i \in 1 .. Len(t) : u[Len(s) + i] = t[i]
  BY ConcatFacts
<1>2. /\ DOMAIN u = 1 .. Len(u) /\ DOMAIN s = 1 .. Len(s) /\ DOMAIN t = 1 .. Len(t)
      /\ Len(s) \in Nat /\ Len(t) \in Nat
  BY <1>1
<1> HIDE DEF u
<1>3. ASSUME NEW i \in DOMAIN u PROVE u[i] \in Range(s) \cup Range(t)
  <2>1. CASE i \in 1 .. Len(s)
    BY <1>1, <1>2, <2>1 DEF Range
  <2>2. CASE i \notin 1 .. Len(s)
    <3>1. i - Len(s) \in 1 .. Len(t) /\ Len(s) + (i - Len(s)) = i
      BY <1>1, <1>2, <2>2
    <3> QED  BY <1>1, <1>2, <3>1 DEF Range
  <2> QED  BY <2>1, <2>2
<1>4. ASSUME NEW i \in DOMAIN s PROVE s[i] \in Range(u)
  <2>1. i \in DOMAIN u /\ u[i] = s[i]
    BY <1>1, <1>2
  <2> QED  BY <2>1 DEF Range
<1>5. ASSUME NEW i \in DOMAIN t PROVE t[i] \in Range(u)
  <2>1. Len(s) + i \in DOMAIN u /\ u[Len(s) + i] = t[i]
    BY <1>1, <1>2
  <2> QED  BY <2>1 DEF Range
<1>6. Range(u) = Range(s) \cup Range(t)
  BY <1>3, <1>4, <1>5 DEF Range
<1> QED  BY <1>6 DEF u

(* Cutting a sequence in two keeps its chunks.                             *)
LEMMA RangeCut ==
    ASSUME NEW S, NEW t \in Seq(S), NEW n \in 0 .. Len(t)
    PROVE  /\ SubSeq(t, 1, n) \in Seq(S)
           /\ SubSeq(t, n + 1, Len(t)) \in Seq(S)
           /\ Range(SubSeq(t, 1, n)) \cup Range(SubSeq(t, n + 1, Len(t))) = Range(t)
<1> DEFINE a == SubSeq(t, 1, n)
           b == SubSeq(t, n + 1, Len(t))
<1>1. /\ a \in Seq(S) /\ b \in Seq(S) /\ Len(a) = n /\ Len(b) = Len(t) - n
      /\ \A i \in 1 .. n : a[i] = t[i]
      /\ \A i \in 1 .. Len(t) - n : b[i] = t[n + i]
  OBVIOUS
<1> HIDE DEF a, b
<1>2. /\ DOMAIN a = 1 .. n /\ DOMAIN b = 1 .. Len(t) - n
      /\ DOMAIN t = 1 .. Len(t) /\ Len(t) \in Nat
  BY <1>1
<1>3. ASSUME NEW i \in 1 .. Len(t) PROVE t[i] \in Range(a) \cup Range(b)
  <2>1. CASE i \in 1 .. n
    BY <1>1, <1>2, <2>1 DEF Range
  <2>2. CASE i \notin 1 .. n
    <3>1. i - n \in 1 .. Len(t) - n /\ n + (i - n) = i
      BY <1>2, <2>2
    <3> QED  BY <1>1, <1>2, <3>1 DEF Range
  <2> QED  BY <2>1, <2>2
<1>4. ASSUME NEW i \in 1 .. n PROVE a[i] \in Range(t)
  <2>1. i \in 1 .. Len(t) /\ a[i] = t[i]
    BY <1>1, <1>2
  <2> QED  BY <1>2, <2>1 DEF Range
<1>5. ASSUME NEW i \in 1 .. Len(t) - n PROVE b[i] \in Range(t)
  <2>1. n + i \in 1 .. Len(t) /\ b[i] = t[n + i]
    BY <1>1, <1>2
  <2> QED  BY <1>2, <2>1 DEF Range
<1>6. Range(a) \cup Range(b) = Range(t)
  BY <1>2, <1>3, <1>4, <1>5 DEF Range
<1> QED  BY <1>1, <1>6 DEF a, b

(* Every chunk submitted is in the log or in the queue.                    *)
ChunksKept == Range(emitted) \cup Range(pending) = 1 .. submitted

(* send() splits its data between the log and the queue.                   *)
LEMMA SendKeepsChunks ==
    ASSUME IInv, ChunksKept, NEW k \in 1 .. MaxBurst, Send(k)
    PROVE  ChunksKept'
<1> DEFINE cs   == [j \in 1 .. k |-> submitted + j]
           fits == Min({k, SendRoom(outstanding, peer_window)})
           now  == SubSeq(cs, 1, fits)
           rest == SubSeq(cs, fits + 1, k)
<1>1. /\ emitted' = emitted \o now
      /\ pending' = pending \o rest
      /\ submitted' = submitted + k /\ submitted + k <= MaxChunks
  BY DEF Send, Emit
<1>2. /\ emitted \in Seq(Chunks) /\ pending \in Seq(Chunks)
      /\ submitted \in Nat /\ k \in Nat /\ MaxChunks \in Nat
  BY Counters
<1>3. cs \in Seq(Chunks) /\ Len(cs) = k /\ Range(cs) = submitted + 1 .. submitted + k
  <2>1. cs \in Seq(Chunks) /\ Len(cs) = k /\ DOMAIN cs = 1 .. k
    BY <1>1, <1>2 DEF Chunks
  <2>2. ASSUME NEW c \in submitted + 1 .. submitted + k PROVE c \in Range(cs)
    <3>1. c - submitted \in 1 .. k /\ submitted + (c - submitted) = c
      BY <1>2
    <3>2. cs[c - submitted] = c
      BY <3>1
    <3> QED  BY <2>1, <3>1, <3>2 DEF Range
  <2>3. ASSUME NEW j \in 1 .. k PROVE cs[j] \in submitted + 1 .. submitted + k
    BY <1>2
  <2> HIDE DEF cs
  <2> QED  BY <2>1, <2>2, <2>3 DEF Range
<1>4. fits \in 0 .. Len(cs)
  <2>1. SendRoom(outstanding, peer_window) \in Nat
    BY FlightRoom DEF IInv
  <2> QED  BY <1>2, <1>3, <2>1, MinNat
<1> HIDE DEF cs, fits
<1>5. /\ now \in Seq(Chunks) /\ rest \in Seq(Chunks)
      /\ Range(now) \cup Range(rest) = submitted + 1 .. submitted + k
  BY <1>3, <1>4, RangeCut
<1> HIDE DEF now, rest
<1>6. /\ Range(emitted') = Range(emitted) \cup Range(now)
      /\ Range(pending') = Range(pending) \cup Range(rest)
  BY <1>1, <1>2, <1>5, RangeConcat
<1>7. (1 .. submitted) \cup (submitted + 1 .. submitted + k) = 1 .. submitted + k
  BY <1>2
<1> QED  BY <1>1, <1>5, <1>6, <1>7 DEF ChunksKept

(* on_ack() flushes no more than the queue holds.                          *)
LEMMA OnAckFlushes ==
    ASSUME IInv, NEW p \in ackLink, OnAck(p)
    PROVE  FlushLength([s \in DOMAIN outstanding \ Covered(p.ack) |-> outstanding[s]],
                       p.window) \in 0 .. Len(pending)
<1> DEFINE e == Len(emitted)
           o == [s \in DOMAIN outstanding \ Covered(p.ack) |-> outstanding[s]]
<1>1. /\ e \in Nat /\ e <= MaxChunks /\ MaxChunks \in Nat /\ RecvWindow \in Nat
      /\ Len(pending) \in Nat /\ Len(delivered) \in Nat /\ Len(delivered) <= e
      /\ acked \in 0 .. e /\ DOMAIN outstanding = PosSet(acked, e)
      /\ delivered \in Seq(Chunks) /\ SenderInv
  BY Counters DEF IInv, SenderInv
<1>2. PICK i \in 0 .. Len(delivered) : p.ack = Pos(i)
  BY <1>1, AckOnLink DEF IInv
<1> DEFINE c == IF acked < i THEN i ELSE acked
<1>3. c \in acked .. e /\ i \in 0 .. e /\ acked \in Positions /\ c \in Positions
      /\ e \in Positions
  BY <1>1, <1>2 DEF Positions
<1>4. DOMAIN o = PosSet(c, e)
  <2>1. Covered(p.ack) = PosSet(acked, c)
    BY <1>1, <1>2, <1>3, CoveredFacts
  <2> HIDE DEF c
  <2> QED  BY <1>1, <1>3, <2>1, PosSetMinus
<1>5. p.window \in Nat /\ p.window >= 1
  BY <1>1, AckOnLink DEF IInv
<1> HIDE DEF c, o
<1>6. SendRoom(o, p.window) \in Nat
  BY <1>3, <1>4, <1>5, SendRoomFacts
<1>7. FlushLength(o, p.window) \in 0 .. Len(pending)
  BY <1>1, <1>6, MinNat DEF FlushLength
<1> QED  BY <1>7 DEF o

(* on_ack() moves chunks from the head of the queue to the log.            *)
LEMMA OnAckKeepsChunks ==
    ASSUME IInv, IInv', ChunksKept, NEW p \in ackLink, OnAck(p)
    PROVE  ChunksKept'
<1> DEFINE n == Len(emitted') - Len(emitted)
           out  == SubSeq(pending, 1, n)
           rest == SubSeq(pending, n + 1, Len(pending))
<1>1. /\ emitted \in Seq(Chunks) /\ pending \in Seq(Chunks)
      /\ emitted' \in Seq(Chunks) /\ pending' \in Seq(Chunks)
      /\ Len(emitted) + Len(pending) = submitted
      /\ Len(emitted') + Len(pending') = submitted'
      /\ submitted' = submitted
  BY Counters DEF OnAck, IInv, SenderInv
<1>2. n \in 0 .. Len(pending) /\ emitted' = emitted \o out /\ pending' = rest
  <2>1. PICK m : /\ emitted' = emitted \o SubSeq(pending, 1, m)
                 /\ pending' = SubSeq(pending, m + 1, Len(pending))
                 /\ m \in 0 .. Len(pending)
    <3> DEFINE o == [s \in DOMAIN outstanding \ Covered(p.ack) |-> outstanding[s]]
               room == SendRoom(o, p.window)
    <3>1. /\ emitted' = emitted \o SubSeq(pending, 1, FlushLength(o, p.window))
          /\ pending' = SubSeq(pending, FlushLength(o, p.window) + 1, Len(pending))
      BY DEF OnAck, Emit
    <3>2. FlushLength(o, p.window) \in 0 .. Len(pending)
      BY OnAckFlushes
    <3> QED  BY <3>1, <3>2
  <2>2. Len(SubSeq(pending, 1, m)) = m /\ SubSeq(pending, 1, m) \in Seq(Chunks)
    BY <1>1, <2>1
  <2>3. n = m
    BY <1>1, <2>1, <2>2
  <2> QED  BY <2>1, <2>3
<1> HIDE DEF n
<1>3. /\ out \in Seq(Chunks) /\ rest \in Seq(Chunks)
      /\ Range(out) \cup Range(rest) = Range(pending)
  BY <1>1, <1>2, RangeCut
<1> HIDE DEF out, rest
<1>4. Range(emitted') = Range(emitted) \cup Range(out)
  BY <1>1, <1>2, <1>3, RangeConcat
<1> QED  BY <1>1, <1>2, <1>3, <1>4 DEF ChunksKept

LEMMA NextKeepsChunks ==
    ASSUME IInv, IInv', ChunksKept, [Next]_vars
    PROVE  ChunksKept'
<1>1. CASE \E k \in 1 .. MaxBurst : Send(k)
  BY <1>1, SendKeepsChunks
<1>2. CASE \E p \in ackLink : OnAck(p)
  BY <1>2, OnAckKeepsChunks
<1>3. CASE UNCHANGED <<emitted, pending, submitted>>
  BY <1>3 DEF ChunksKept
<1>4. ASSUME NEW p, OnNack(p) \/ OnData(p) \/ LoseData(p) \/ LoseAck(p) \/ UNCHANGED vars
      PROVE  UNCHANGED <<emitted, pending, submitted>>
  BY <1>4 DEF OnNack, OnData, OnDataInOrder, OnDataAhead, OnDataOld, LoseData,
              LoseAck, vars, senderVars, historyVars
<1>5. ASSUME Tick PROVE UNCHANGED <<emitted, pending, submitted>>
  BY <1>5 DEF Tick, OnTick, historyVars
<1> QED  BY <1>1, <1>2, <1>3, <1>4, <1>5 DEF Next

(* Every chunk passed to send is in the log or in the queue, and exactly   *)
(* once: there are as many places as chunks (send, _emit_data,             *)
(* _flush_pending).                                                        *)
THEOREM NothingLostBeforeTheLink == Spec => []ChunkConservation
<1>1. Init => ChunksKept
  BY DEF Init, ChunksKept, Range
<1>2. IInv /\ ChunksKept => ChunkConservation
  BY DEF IInv, SenderInv, ChunksKept, ChunkConservation
<1>3. IInv /\ IInv' /\ ChunksKept /\ [Next]_vars => ChunksKept'
  BY NextKeepsChunks
<1> QED  BY <1>1, <1>2, <1>3, InvariantHolds, PTL DEF Spec

-----------------------------------------------------------------------------
(* Refinement.                                                             *)

(* Steps that leave what the abstract stream sees alone.                   *)
LEMMA StreamStutters ==
    ASSUME UNCHANGED <<emitted, delivered, acked>>
    PROVE  UNCHANGED Stream!vars
  BY DEF Stream!vars

(* Steps of the sender that move the log or the confirmed count.           *)
LEMMA StreamWrites ==
    ASSUME IInv', LogStep
    PROVE  Stream!Write
<1>1. emitted' \in Seq(Chunks)
  BY DEF IInv, SenderInv
<1> QED  BY <1>1 DEF LogStep, Stream!Write, Stream!Extends

(* Steps of the receiver that hand chunks over.                            *)
LEMMA StreamReads ==
    ASSUME IInv, NEW p \in dataLink, OnDataInOrder(p)
    PROVE  Stream!Read
<1>1. /\ Len(delivered) \in Nat /\ Len(delivered) <= Len(emitted)
      /\ Len(emitted) \in Nat
      /\ \A i \in 1 .. Len(delivered) : delivered[i] = emitted[i]
  BY Counters DEF IInv, ReceiverInv, InOrderDelivery
<1> DEFINE n == DrainLength(seq_add(rcv_base, 1), reorder)
<1>2. /\ n \in 0 .. RecvWindow - 1
      /\ Len(delivered') = Len(delivered) + 1 + n
      /\ Len(delivered') <= Len(emitted)
      /\ \A i \in 1 .. Len(delivered') : delivered'[i] = emitted[i]
  BY InOrderFacts
<1> HIDE DEF n
<1>3. /\ Len(delivered) <= Len(delivered')
      /\ \A i \in 1 .. Len(delivered) : i \in 1 .. Len(delivered')
  BY <1>1, <1>2
<1>4. UNCHANGED <<emitted, acked>>
  BY DEF OnDataInOrder, senderVars
<1> QED  BY <1>1, <1>2, <1>3, <1>4 DEF Stream!Read, Stream!Extends

(* One direction of the reliability layer implements the reliable stream   *)
(* (ReliableStream) of the chunks it has transmitted, for every value of   *)
(* the constants.                                                          *)
THEOREM Refinement == Spec => ImplementsStream
<1>1. Init => Stream!Init
  BY DEF Init, Stream!Init
<1>2. ASSUME IInv, IInv', [Next]_vars
      PROVE  [Stream!Next]_(Stream!vars)
  <2>1. CASE \E k \in 1 .. MaxBurst : Send(k)
    BY <1>2, <2>1, SendStep, StreamWrites DEF Stream!Next
  <2>2. CASE \E p \in ackLink : OnAck(p)
    BY <1>2, <2>2, OnAckStep, StreamWrites DEF Stream!Next
  <2>3. CASE \E p \in ackLink : OnNack(p)
    <3>1. UNCHANGED <<emitted, delivered, acked>>
      BY <2>3 DEF OnNack, historyVars
    <3> QED  BY <3>1, StreamStutters
  <2>4. CASE Tick
    <3>1. UNCHANGED <<emitted, delivered, acked>>
      BY <2>4 DEF Tick, OnTick, historyVars
    <3> QED  BY <3>1, StreamStutters
  <2>5. CASE \E p \in dataLink : OnDataInOrder(p)
    BY <1>2, <2>5, StreamReads DEF Stream!Next
  <2>6. CASE \E p \in dataLink : OnDataAhead(p)
    <3>1. UNCHANGED <<emitted, delivered, acked>>
      BY <2>6 DEF OnDataAhead, historyVars, senderVars
    <3> QED  BY <3>1, StreamStutters
  <2>7. CASE \E p \in dataLink : OnDataOld(p)
    <3>1. UNCHANGED <<emitted, delivered, acked>>
      BY <2>7 DEF OnDataOld, historyVars, senderVars
    <3> QED  BY <3>1, StreamStutters
  <2>8. CASE (\E p \in dataLink : LoseData(p)) \/ (\E p \in ackLink : LoseAck(p))
    <3>1. UNCHANGED <<emitted, delivered, acked>>
      BY <2>8 DEF LoseData, LoseAck, historyVars, senderVars
    <3> QED  BY <3>1, StreamStutters
  <2>9. CASE UNCHANGED vars
    <3>1. UNCHANGED <<emitted, delivered, acked>>
      BY <2>9 DEF vars, senderVars, historyVars
    <3> QED  BY <3>1, StreamStutters
  <2> QED  BY <1>2, <2>1, <2>2, <2>3, <2>4, <2>5, <2>6, <2>7, <2>8, <2>9
           DEF Next, OnData
<1> QED  BY <1>1, <1>2, InvariantHolds, PTL DEF Spec, ImplementsStream, Stream!Spec
=============================================================================
