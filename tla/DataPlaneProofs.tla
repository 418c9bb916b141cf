-------------------------- MODULE DataPlaneProofs --------------------------
(***************************************************************************)
(* Proofs about DataPlane: what arrives on a stream is what was sent on it, *)
(* and the peers open different streams, for any number of sends, openings *)
(* and sessions, any length of the queues and any noise.                   *)
(***************************************************************************)
EXTENDS DataPlane, FiniteSetTheorems, SequenceTheorems, WellFoundedInduction, TLAPS

----------------------------------------------------------------------------
(* The inductive invariant.                                                *)

Ids == {ProposedId, PlaceholderId}
Streams == Nat \ {CONTROL_STREAM_ID}
ChunkNames == Peers \X Streams \X (Nat \ {0})
Chunks == Seq(ChunkNames)
Endpoints == [id : Ids, queued : Seq(ChunkNames), acked : Nat, got : Nat]
States == {"CLOSED", "SYN_SENT", "SYN_RCVD", "ESTABLISHED"}

Dicts(V) == UNION {[D -> V] : D \in {E \in SUBSET Streams : IsFiniteSet(E)}}

Sides ==
  [mux_id : Ids, endpoints : Dicts(Endpoints), next_open : Nat, opened : SUBSET Nat,
   state : States, id : Ids, pumping : BOOLEAN, buffers : Dicts(Chunks), sends : Nat, leaves : Nat]

\* What peer with side d may have sent so far: its DATA is what it queued there, and its
\* ACKs name what it has got.
Packets(d) ==
  [type : {"SYN", "SYN_ACK", "ACK"}, stream : {CONTROL_STREAM_ID}, id : Ids]
  \cup {f \in [type : {"ACK"}, stream : Streams, id : Ids, num : Nat] : f.num <= Endpoint(d, f.stream).got}
  \cup {f \in [type : {"DATA"}, stream : Streams, id : Ids, num : Nat, chunk : ChunkNames] :
          /\ f.num \in 1..Len(Endpoint(d, f.stream).queued)
          /\ f.chunk = Endpoint(d, f.stream).queued[f.num]}

Frames(d) == [packet : Packets(d), intact : BOOLEAN, readable : BOOLEAN]

Links(d) == [queue : Seq(Frames(d)), held : Seq(Frames(d))]

Buffer(d, s) == IF s \in DOMAIN d.buffers THEN d.buffers[s] ELSE <<>>

\* The buffer of a stream holds as much as its endpoint has got, and that was sent; the
\* endpoint takes no more for acknowledged than the other has got.
InStep(d, e) ==
  \A s \in Streams :
    LET got == Endpoint(d, s).got
    IN  /\ Len(Buffer(d, s)) = got
        /\ got <= Len(Endpoint(e, s).queued)
        /\ \A i \in 1..got : Buffer(d, s)[i] = Endpoint(e, s).queued[i]
        /\ Endpoint(d, s).acked <= Endpoint(e, s).got

\* Every id that open_stream has given or will give is of the parity of the peer.
OfParity(p, s) == \E k \in Nat : s = FirstOpenId(p) + 2 * k

OwnParity(p, d) == OfParity(p, d.next_open) /\ \A s \in d.opened : OfParity(p, s)

StreamsInv ==
  /\ side \in [Peers -> Sides]
  /\ DOMAIN link = Peers
  /\ \A p \in Peers :
       /\ link[p] \in Links(side[Other(p)])
       /\ InStep(side[p], side[Other(p)])
       /\ OwnParity(p, side[p])

----------------------------------------------------------------------------
(* Naturals, and what the folding of sends comes to.                       *)

LEMMA LeastNat ==
  ASSUME NEW T \in SUBSET Nat, T # {}
  PROVE  \E m \in T : \A y \in T : m <= y
<1>1. PICK x \in T : \A y \in T : ~(<<y, x>> \in OpToRel(<, Nat))
  BY NatLessThanWellFounded, WFMin
<1>2. \A y \in T : y < x => <<y, x>> \in OpToRel(<, Nat)
  BY DEF OpToRel
<1>3. ASSUME NEW y \in T PROVE x <= y
  <2>1. ~(y < x)
    BY <1>1, <1>2
  <2>2. x \in Nat /\ y \in Nat
    OBVIOUS
  <2> HIDE <1>1, <1>2
  <2> QED
    BY <2>1, <2>2
<1> QED
  BY <1>3

\* One step of the recursion in Outcomes.
Unfold(g, m, l, fs) == [i \in 0..m |-> IF i = 0 THEN {l} ELSE UNION {SendFrame(k, fs[i]) : k \in g[i - 1]}]

\* The recursion is well founded.
LEMMA OutcomesDefined ==
  ASSUME NEW l, NEW n \in Nat, NEW fs
  PROVE  \E g : g = Unfold(g, n, l, fs)
<1> DEFINE Bad == {m \in Nat : ~ \E g : g = Unfold(g, m, l, fs)}
<1>1. SUFFICES ASSUME Bad # {} PROVE FALSE
  OBVIOUS
<1>2. PICK m \in Bad : \A y \in Bad : m <= y
  <2> HIDE DEF Bad
  <2>1. Bad \in SUBSET Nat
    BY DEF Bad
  <2> QED
    BY <1>1, <2>1, LeastNat
<1>3. CASE m = 0
  <2> DEFINE g == [i \in 0..0 |-> {l}]
  <2>1. g = Unfold(g, 0, l, fs)
    BY DEF Unfold
  <2> QED
    BY <1>3, <2>1
<1>4. CASE m # 0
  <2>1. m \in Nat /\ m - 1 \in Nat /\ ~(m <= m - 1)
    BY <1>4
  <2>2. m - 1 \notin Bad
    <3> HIDE DEF Bad
    <3> QED
      BY <1>2, <2>1
  <2>3. PICK g : g = Unfold(g, m - 1, l, fs)
    BY <2>1, <2>2
  <2> DEFINE h == Unfold(g, m, l, fs)
  <2>4. \A i \in 0..m - 1 : h[i] = g[i]
    <3>1. \A i \in 0..m - 1 : g[i] = IF i = 0 THEN {l} ELSE UNION {SendFrame(k, fs[i]) : k \in g[i - 1]}
      BY <2>3 DEF Unfold
    <3>2. \A i \in 0..m - 1 : h[i] = IF i = 0 THEN {l} ELSE UNION {SendFrame(k, fs[i]) : k \in g[i - 1]}
      BY <2>1 DEF Unfold
    <3> HIDE DEF h
    <3> QED
      BY <3>1, <3>2
  <2>5. h = Unfold(h, m, l, fs)
    <3>1. \A i \in 0..m : i # 0 => i - 1 \in 0..m - 1
      BY <2>1
    <3>2. h = [i \in 0..m |-> IF i = 0 THEN {l} ELSE UNION {SendFrame(k, fs[i]) : k \in g[i - 1]}]
      BY DEF Unfold
    <3> HIDE DEF h
    <3>3. \A i \in 0..m : h[i] = IF i = 0 THEN {l} ELSE UNION {SendFrame(k, fs[i]) : k \in h[i - 1]}
      BY <2>4, <3>1, <3>2
    <3> QED
      BY <3>2, <3>3 DEF Unfold
  <2> HIDE DEF h
  <2> QED
    BY <2>5
<1> QED
  BY <1>3, <1>4

\* What every single send leaves in K, all of them do.
LEMMA OutcomesStay ==
  ASSUME NEW l, NEW fs, Len(fs) \in Nat, NEW K, l \in K,
         \A k \in K : \A i \in 1..Len(fs) : SendFrame(k, fs[i]) \subseteq K
  PROVE  Outcomes(l, fs) \subseteq K
<1> DEFINE n == Len(fs)
           some == CHOOSE g : g = Unfold(g, n, l, fs)
<1>1. some = Unfold(some, n, l, fs)
  <2> HIDE DEF n
  <2>1. n \in Nat
    BY DEF n
  <2> QED
    BY <2>1, OutcomesDefined
<1>2. Outcomes(l, fs) = some[n]
  BY DEF Outcomes, Unfold
<1> HIDE DEF some
<1>3. \A i \in 0..n : some[i] = IF i = 0 THEN {l} ELSE UNION {SendFrame(k, fs[i]) : k \in some[i - 1]}
  BY <1>1 DEF Unfold
<1> DEFINE Bad == {i \in 0..n : ~(some[i] \subseteq K)}
<1>4. Bad = {}
  <2> SUFFICES ASSUME Bad # {} PROVE FALSE
    OBVIOUS
  <2>1. PICK m \in Bad : \A y \in Bad : m <= y
    <3>1. Bad \in SUBSET Nat
      OBVIOUS
    <3> HIDE DEF Bad
    <3> QED
      BY <3>1, LeastNat
  <2>2. m # 0
    BY <1>3
  <2>3. m - 1 \in 0..n /\ ~(m <= m - 1) /\ m \in 1..n
    BY <2>2
  <2>4. some[m - 1] \subseteq K
    <3>1. m - 1 \notin Bad
      <4> HIDE DEF Bad
      <4> QED
        BY <2>1, <2>3
    <3> QED
      BY <2>3, <3>1
  <2>5. some[m] = UNION {SendFrame(k, fs[m]) : k \in some[m - 1]}
    BY <1>3, <2>2
  <2> QED
    BY <2>3, <2>4, <2>5
<1> QED
  BY <1>2, <1>4

----------------------------------------------------------------------------
(* Frames and links.                                                       *)

LEMMA Others ==
  \A p \in Peers : Other(p) \in Peers /\ Other(p) # p /\ Other(Other(p)) = p /\ Peers = {p, Other(p)}
BY DataPlaneAssumption DEF Peers, Other

LEMMA PassStays ==
  ASSUME NEW F, NEW l \in [queue : Seq(F), held : Seq(F)], NEW f \in F
  PROVE  Pass(l, f) \subseteq [queue : Seq(F), held : Seq(F)]
<1> DEFINE q == l.queue
           h == l.held
           one == <<f>>
<1>1. q \in Seq(F) /\ h \in Seq(F) /\ one \in Seq(F) /\ <<>> \in Seq(F)
  OBVIOUS
<1> HIDE DEF q, h, one
<1>2. q \o h \in Seq(F)
  BY <1>1, ConcatProperties
<1>3. q \o h \o one \in Seq(F)
  BY <1>1, <1>2, ConcatProperties
<1> DEFINE a == q \o h \o one
           b == q \o h
<1>4. Pass(l, f) \subseteq {[queue |-> a, held |-> <<>>], [queue |-> b, held |-> one]}
  BY DEF Pass, q, h, one
<1>5. a \in Seq(F) /\ b \in Seq(F)
  BY <1>2, <1>3
<1> DEFINE none == <<>>
<1>6. none \in Seq(F) /\ one \in Seq(F) /\ Pass(l, f) \subseteq {[queue |-> a, held |-> none], [queue |-> b, held |-> one]}
  BY <1>1, <1>4
<1> HIDE DEF a, b, none
<1>7. [queue |-> a, held |-> none] \in [queue : Seq(F), held : Seq(F)] /\ [queue |-> b, held |-> one] \in [queue : Seq(F), held : Seq(F)]
  BY <1>5, <1>6
<1> QED
  BY <1>6, <1>7

LEMMA SendFrameStays ==
  ASSUME NEW F, NEW l \in [queue : Seq(F), held : Seq(F)], NEW f \in F, Corrupt(f) \in F, Degrade(f) \in F
  PROVE  SendFrame(l, f) \subseteq [queue : Seq(F), held : Seq(F)]
<1> DEFINE K == [queue : Seq(F), held : Seq(F)]
           forms == {f} \cup {g \in {Corrupt(f)} : "corrupt" \in setting.noise}
                        \cup {g \in {Degrade(f)} : "degrade" \in setting.noise}
           once == UNION {Pass(l, g) : g \in forms}
           twice == UNION {UNION {Pass(k, g) : k \in Pass(l, g)} : g \in {g \in forms : "dup" \in setting.noise}}
           kept == {k \in once \cup twice : Len(k.queue) <= MaxInFlight}
<1>1. \A k \in K : \A g \in F : Pass(k, g) \subseteq K
  BY PassStays
<1>2. forms \subseteq F /\ l \in K
  OBVIOUS
<1>3. SendFrame(l, f) \subseteq kept \cup {l}
  BY DEF SendFrame
<1> HIDE DEF K, forms
<1>4. once \subseteq K /\ twice \subseteq K
  BY <1>1, <1>2
<1> HIDE DEF once, twice
<1>5. SendFrame(l, f) \subseteq K
  BY <1>2, <1>3, <1>4
<1> QED
  BY <1>5 DEF K

LEMMA TransmitStays ==
  ASSUME NEW d, NEW p \in Peers, NEW ls, DOMAIN ls = Peers, ls[Other(p)] \in Links(d),
         NEW packets \in Seq(Packets(d)), NEW undisturbed \in BOOLEAN, Transmit(p, ls, packets, undisturbed)
  PROVE  /\ DOMAIN link' = Peers /\ link'[p] = ls[p] /\ link'[Other(p)] \in Links(d)
         /\ setting' = setting
<1> DEFINE l == ls[Other(p)]
           fs == [i \in 1..Len(packets) |-> Pack(packets[i])]
           all == [queue |-> l.queue \o l.held \o fs, held |-> <<>>]
           F == Frames(d)
           K == [queue : Seq(F), held : Seq(F)]
<1>1. l \in K
  BY DEF Links
<1>2. \A f \in F : Corrupt(f) \in F /\ Degrade(f) \in F
  BY DEF Frames, Corrupt, Degrade
<1>3. fs \in Seq(F) /\ Len(fs) \in Nat /\ \A i \in 1..Len(fs) : fs[i] \in F
  <2>1. Len(packets) \in Nat /\ \A i \in 1..Len(packets) : Pack(packets[i]) \in F
    BY ElementOfSeq, LenProperties DEF Frames, Pack
  <2> HIDE DEF F
  <2>2. fs \in Seq(F) /\ Len(fs) = Len(packets) /\ \A i \in 1..Len(packets) : fs[i] = Pack(packets[i])
    BY <2>1
  <2> QED
    BY <2>1, <2>2
<1>4. PICK k \in (IF undisturbed THEN {k \in {all} : Len(k.queue) <= MaxInFlight} ELSE Outcomes(l, fs)) :
        link' = [ls EXCEPT ![Other(p)] = k]
  BY DEF Transmit
<1>5. all \in K
  <2> DEFINE q == l.queue
             h == l.held
  <2>1. q \in Seq(F) /\ h \in Seq(F) /\ fs \in Seq(F) /\ <<>> \in Seq(F)
    BY <1>1, <1>3
  <2> HIDE DEF q, h, fs, F
  <2>2. q \o h \in Seq(F)
    BY <2>1, ConcatProperties
  <2>3. q \o h \o fs \in Seq(F)
    BY <2>1, <2>2, ConcatProperties
  <2> DEFINE a == q \o h \o fs
  <2> HIDE DEF a
  <2>4. a \in Seq(F) /\ all = [queue |-> a, held |-> <<>>]
    BY <2>3 DEF a, q, h
  <2> QED
    BY <2>1, <2>4
<1> HIDE DEF fs, all, F
<1>6. Outcomes(l, fs) \subseteq K
  <2>1. \A k2 \in K : \A i \in 1..Len(fs) : SendFrame(k2, fs[i]) \subseteq K
    <3> SUFFICES ASSUME NEW k2 \in K, NEW i \in 1..Len(fs) PROVE SendFrame(k2, fs[i]) \subseteq K
      OBVIOUS
    <3>1. fs[i] \in F /\ Corrupt(fs[i]) \in F /\ Degrade(fs[i]) \in F
      BY <1>2, <1>3
    <3> QED
      BY <3>1, SendFrameStays
  <2> HIDE DEF K, l
  <2> QED
    BY <1>1, <1>3, <2>1, OutcomesStay
<1>7. k \in K
  BY <1>4, <1>5, <1>6
<1> QED
  BY <1>4, <1>7, Others DEF Transmit, Links, F

\* Where streams only grow, what was sent has been sent.
Grows(d, e) ==
  \A s \in Streams :
    /\ Endpoint(d, s).got \in Nat /\ Endpoint(e, s).got \in Nat /\ Endpoint(d, s).got <= Endpoint(e, s).got
    /\ Len(Endpoint(d, s).queued) \in Nat /\ Len(Endpoint(e, s).queued) \in Nat
    /\ Len(Endpoint(d, s).queued) <= Len(Endpoint(e, s).queued)
    /\ \A i \in 1..Len(Endpoint(d, s).queued) : Endpoint(e, s).queued[i] = Endpoint(d, s).queued[i]

LEMMA LinksGrow ==
  ASSUME NEW d, NEW e, Grows(d, e)
  PROVE  Packets(d) \subseteq Packets(e) /\ Links(d) \subseteq Links(e)
<1>1. Packets(d) \subseteq Packets(e)
  <2>1. ASSUME NEW f \in [type : {"DATA"}, stream : Streams, id : Ids, num : Nat, chunk : ChunkNames],
               f.num \in 1..Len(Endpoint(d, f.stream).queued), f.chunk = Endpoint(d, f.stream).queued[f.num]
        PROVE  f.num \in 1..Len(Endpoint(e, f.stream).queued) /\ f.chunk = Endpoint(e, f.stream).queued[f.num]
    <3>1. f.stream \in Streams
      OBVIOUS
    <3> QED
      BY <2>1, <3>1 DEF Grows
  <2>2. ASSUME NEW f \in [type : {"ACK"}, stream : Streams, id : Ids, num : Nat], f.num <= Endpoint(d, f.stream).got
        PROVE  f.num <= Endpoint(e, f.stream).got
    <3>1. f.stream \in Streams /\ f.num \in Nat
      OBVIOUS
    <3> DEFINE n == f.num
               s == f.stream
    <3>2. n \in Nat /\ s \in Streams /\ n <= Endpoint(d, s).got
      BY <2>2, <3>1
    <3> HIDE DEF n, s
    <3>3. n <= Endpoint(e, s).got
      BY <3>2 DEF Grows
    <3> QED
      BY <3>3 DEF n, s
  <2> QED
    BY <2>1, <2>2 DEF Packets
<1>2. Frames(d) \subseteq Frames(e)
  BY <1>1 DEF Frames
<1>3. Links(d) \subseteq Links(e)
  <2>1. Seq(Frames(d)) \subseteq Seq(Frames(e))
    <3> SUFFICES ASSUME NEW x \in Seq(Frames(d)) PROVE x \in Seq(Frames(e))
      OBVIOUS
    <3>1. Len(x) \in Nat /\ x = [i \in 1..Len(x) |-> x[i]] /\ \A i \in 1..Len(x) : x[i] \in Frames(e)
      BY <1>2
    <3> QED
      BY <3>1
  <2> QED
    BY <2>1 DEF Links
<1> QED
  BY <1>1, <1>3

----------------------------------------------------------------------------
(* Sides.                                                                  *)

LEMMA DictHas ==
  ASSUME NEW V, NEW d \in Dicts(V)
  PROVE  DOMAIN d \subseteq Streams /\ IsFiniteSet(DOMAIN d) /\ \A s \in DOMAIN d : d[s] \in V
BY DEF Dicts

\* What putting v under s makes of a dictionary of Vs.
PutGives(V, d, s, v) ==
  /\ Put(d, s, v) \in Dicts(V) /\ DOMAIN Put(d, s, v) = DOMAIN d \cup {s}
  /\ Put(d, s, v)[s] = v /\ \A t \in DOMAIN d : t # s => Put(d, s, v)[t] = d[t]

LEMMA PutDict ==
  ASSUME NEW V, NEW d \in Dicts(V), NEW s \in Streams, NEW v \in V
  PROVE  PutGives(V, d, s, v)
<1> DEFINE D == DOMAIN d \cup {s}
<1>1. D \subseteq Streams /\ IsFiniteSet(D)
  BY DictHas, FS_AddElement
<1>2. \A t \in DOMAIN d : d[t] \in V
  BY DictHas
<1>3. Put(d, s, v) = [t \in D |-> IF t = s THEN v ELSE d[t]]
  BY DEF Put
<1>4. [t \in D |-> IF t = s THEN v ELSE d[t]] \in [D -> V]
  BY <1>2
<1>5. Put(d, s, v) \in Dicts(V)
  BY <1>1, <1>3, <1>4 DEF Dicts
<1>6. DOMAIN Put(d, s, v) = D /\ Put(d, s, v)[s] = v
  BY <1>3
<1>7. \A t \in DOMAIN d : t # s => Put(d, s, v)[t] = d[t]
  BY <1>3
<1> QED
  BY <1>5, <1>6, <1>7 DEF PutGives

LEMMA PutBuffer ==
  ASSUME NEW d \in Dicts(Chunks), NEW s \in Streams, NEW v \in Chunks
  PROVE  PutGives(Chunks, d, s, v)
BY PutDict

LEMMA EndpointType ==
  ASSUME NEW d \in Sides, NEW s \in Streams
  PROVE  /\ Endpoint(d, s) \in Endpoints /\ Len(Endpoint(d, s).queued) \in Nat
         /\ Endpoint(d, s).queued \in Seq(ChunkNames) /\ Endpoint(d, s).acked \in Nat /\ Endpoint(d, s).got \in Nat
         /\ Buffer(d, s) \in Seq(ChunkNames)
         /\ DOMAIN d.endpoints \subseteq Streams
<1>1. d.endpoints \in Dicts(Endpoints) /\ d.mux_id \in Ids /\ d.buffers \in Dicts(Chunks)
  BY DEF Sides
<1>2. DOMAIN d.endpoints \subseteq Streams /\ \A t \in DOMAIN d.endpoints : d.endpoints[t] \in Endpoints
  BY <1>1, DictHas
<1>3. \A t \in DOMAIN d.buffers : d.buffers[t] \in Chunks
  BY <1>1, DictHas
<1>4. NewEndpoint(d) \in Endpoints
  BY <1>1 DEF NewEndpoint, Endpoints
<1>5. Endpoint(d, s) \in Endpoints
  BY <1>2, <1>4 DEF Endpoint
<1>6. Buffer(d, s) \in Seq(ChunkNames)
  BY <1>3 DEF Buffer, Chunks
<1>7. Endpoint(d, s).queued \in Seq(ChunkNames) /\ Endpoint(d, s).acked \in Nat /\ Endpoint(d, s).got \in Nat
  BY <1>5 DEF Endpoints
<1> QED
  BY <1>2, <1>5, <1>6, <1>7, LenProperties

\* One endpoint is new, or put anew; the others are as before.
LEMMA PutEndpoint ==
  ASSUME NEW d \in Sides, NEW e, NEW s \in Streams, NEW v \in Endpoints,
         e.endpoints = Put(d.endpoints, s, v), e.mux_id = d.mux_id
  PROVE  /\ e.endpoints \in Dicts(Endpoints)
         /\ \A t \in Streams : Endpoint(e, t) = IF t = s THEN v ELSE Endpoint(d, t)
<1>1. d.endpoints \in Dicts(Endpoints)
  BY DEF Sides
<1>2. /\ e.endpoints \in Dicts(Endpoints) /\ DOMAIN e.endpoints = DOMAIN d.endpoints \cup {s}
      /\ \A t \in DOMAIN d.endpoints \cup {s} : e.endpoints[t] = IF t = s THEN v ELSE d.endpoints[t]
  <2> DEFINE dict == d.endpoints
  <2>1. dict \in Dicts(Endpoints) /\ e.endpoints = Put(dict, s, v)
    BY <1>1
  <2> HIDE DEF dict
  <2>2. /\ Put(dict, s, v) \in Dicts(Endpoints) /\ DOMAIN Put(dict, s, v) = DOMAIN dict \cup {s}
        /\ Put(dict, s, v)[s] = v /\ \A t \in DOMAIN dict : t # s => Put(dict, s, v)[t] = dict[t]
    <3>1. PutGives(Endpoints, dict, s, v)
      BY <2>1, PutDict
    <3> QED
      BY <3>1 DEF PutGives
  <2> QED
    BY <2>1, <2>2 DEF dict
<1> QED
  BY <1>2 DEF Endpoint, NewEndpoint

\* Where the streams of a side are as before, or more is acknowledged on them.
LEMMA MoreAcked ==
  ASSUME NEW d \in Sides, NEW e, NEW o, InStep(d, o),
         \A s \in Streams : /\ Endpoint(e, s).queued = Endpoint(d, s).queued /\ Endpoint(e, s).got = Endpoint(d, s).got
                            /\ Buffer(e, s) = Buffer(d, s)
                            /\ \/ Endpoint(e, s).acked = Endpoint(d, s).acked
                               \/ Endpoint(e, s).acked <= Endpoint(o, s).got
  PROVE  Grows(d, e) /\ InStep(e, o)
<1>1. Grows(d, e)
  BY EndpointType DEF Grows
<1>2. InStep(e, o)
  BY DEF InStep
<1> QED
  BY <1>1, <1>2

\* Where the streams of a side are as before.
LEMMA SameStreams ==
  ASSUME NEW d \in Sides, NEW e, NEW o, InStep(d, o),
         \A s \in Streams : /\ Endpoint(e, s).queued = Endpoint(d, s).queued /\ Endpoint(e, s).got = Endpoint(d, s).got
                            /\ Endpoint(e, s).acked = Endpoint(d, s).acked /\ Buffer(e, s) = Buffer(d, s)
  PROVE  Grows(d, e) /\ InStep(e, o)
<1>1. Grows(d, e)
  BY EndpointType DEF Grows
<1>2. InStep(e, o)
  BY DEF InStep
<1> QED
  BY <1>1, <1>2

LEMMA SetSessionIdKeeps ==
  ASSUME NEW d \in Sides
  PROVE  /\ SetSessionId(d) \in Sides
         /\ \A s \in Streams : LET ep == Endpoint(SetSessionId(d), s)
                                IN  /\ ep.queued = Endpoint(d, s).queued /\ ep.got = Endpoint(d, s).got
                                    /\ ep.acked = Endpoint(d, s).acked /\ Buffer(SetSessionId(d), s) = Buffer(d, s)
         /\ SetSessionId(d).next_open = d.next_open /\ SetSessionId(d).opened = d.opened
<1> DEFINE new == [s \in DOMAIN d.endpoints |-> [d.endpoints[s] EXCEPT !.id = d.id]]
           e == SetSessionId(d)
<1>1. d.endpoints \in Dicts(Endpoints) /\ d.id \in Ids
  BY DEF Sides
<1>2. /\ DOMAIN d.endpoints \subseteq Streams /\ IsFiniteSet(DOMAIN d.endpoints)
      /\ \A s \in DOMAIN d.endpoints : d.endpoints[s] \in Endpoints
  BY <1>1, DictHas
<1>3. \A s \in DOMAIN d.endpoints :
        /\ [d.endpoints[s] EXCEPT !.id = d.id] \in Endpoints
        /\ [d.endpoints[s] EXCEPT !.id = d.id].queued = d.endpoints[s].queued
        /\ [d.endpoints[s] EXCEPT !.id = d.id].got = d.endpoints[s].got
        /\ [d.endpoints[s] EXCEPT !.id = d.id].acked = d.endpoints[s].acked
  BY <1>1, <1>2 DEF Endpoints
<1>4. new \in Dicts(Endpoints)
  <2>1. new \in [DOMAIN d.endpoints -> Endpoints]
    BY <1>3
  <2> HIDE DEF new
  <2> QED
    BY <1>2, <2>1 DEF Dicts
<1>5. DOMAIN new = DOMAIN d.endpoints /\ \A s \in DOMAIN d.endpoints : new[s] = [d.endpoints[s] EXCEPT !.id = d.id]
  OBVIOUS
<1>6. e = [d EXCEPT !.mux_id = d.id, !.endpoints = new]
  BY DEF SetSessionId
<1> HIDE DEF new, e
<1>7. /\ e \in Sides /\ e.endpoints = new /\ e.mux_id = d.id /\ e.buffers = d.buffers
      /\ e.next_open = d.next_open /\ e.opened = d.opened
  BY <1>1, <1>4, <1>6 DEF Sides
<1>8. \A s \in Streams : /\ Endpoint(e, s).queued = Endpoint(d, s).queued /\ Endpoint(e, s).got = Endpoint(d, s).got
                         /\ Endpoint(e, s).acked = Endpoint(d, s).acked
  BY <1>3, <1>5, <1>7 DEF Endpoint, NewEndpoint
<1>9. \A s \in Streams : Buffer(e, s) = Buffer(d, s)
  BY <1>7 DEF Buffer
<1> QED
  BY <1>7, <1>8, <1>9 DEF e

----------------------------------------------------------------------------
(* One peer takes a step.                                                  *)

LEMMA StepHolds ==
  ASSUME StreamsInv, NEW p \in Peers, NEW e \in Sides, side' = [side EXCEPT ![p] = e],
         Grows(side[p], e), InStep(e, side[Other(p)]), OwnParity(p, e),
         DOMAIN link' = Peers, link'[p] \in Links(side[Other(p)]), link'[Other(p)] \in Links(e)
  PROVE  StreamsInv'
<1> DEFINE o == Other(p)
<1>1. /\ o \in Peers /\ o # p /\ Other(o) = p /\ Peers = {p, o}
  BY Others
<1>2. side \in [Peers -> Sides] /\ side' \in [Peers -> Sides] /\ side'[p] = e /\ side'[o] = side[o]
  BY <1>1 DEF StreamsInv
<1> HIDE DEF o
<1>3. InStep(side[o], side[p]) /\ OwnParity(o, side[o])
  BY <1>1 DEF StreamsInv
<1>4. InStep(side[o], e)
  <2> SUFFICES ASSUME NEW s \in Streams
               PROVE  LET got == Endpoint(side[o], s).got
                      IN  /\ Len(Buffer(side[o], s)) = got
                          /\ got <= Len(Endpoint(e, s).queued)
                          /\ \A i \in 1..got : Buffer(side[o], s)[i] = Endpoint(e, s).queued[i]
                          /\ Endpoint(side[o], s).acked <= Endpoint(e, s).got
    BY DEF InStep
  <2> DEFINE got == Endpoint(side[o], s).got
             old == Endpoint(side[p], s).queued
             new == Endpoint(e, s).queued
             b == Buffer(side[o], s)
  <2>1. got \in Nat
    BY <1>1, <1>2, EndpointType
  <2>2. Len(b) = got /\ got <= Len(old) /\ \A i \in 1..got : b[i] = old[i]
    BY <1>3 DEF InStep
  <2>3. Len(old) \in Nat /\ Len(new) \in Nat /\ Len(old) <= Len(new) /\ \A i \in 1..Len(old) : new[i] = old[i]
    BY DEF Grows
  <2> DEFINE acked == Endpoint(side[o], s).acked
             before == Endpoint(side[p], s).got
             after == Endpoint(e, s).got
  <2>4. acked \in Nat
    BY <1>1, <1>2, EndpointType
  <2>5. acked <= before
    BY <1>3 DEF InStep
  <2>6. before \in Nat /\ after \in Nat /\ before <= after
    BY DEF Grows
  <2> HIDE DEF got, old, new, b, acked, before, after
  <2>7. Len(b) = got /\ got <= Len(new) /\ \A i \in 1..got : b[i] = new[i]
    BY <2>1, <2>2, <2>3
  <2>8. acked <= after
    BY <2>4, <2>5, <2>6
  <2> QED
    BY <2>8, <2>7 DEF got, new, b, acked, after
<1>5. \A q \in Peers : /\ link'[q] \in Links(side'[Other(q)]) /\ InStep(side'[q], side'[Other(q)]) /\ OwnParity(q, side'[q])
  BY <1>1, <1>2, <1>3, <1>4 DEF o
<1>6. /\ \A q \in Peers : link'[q] \in Links(side'[Other(q)]) <=> (link[q] \in Links(side[Other(q)]))'
      /\ \A q \in Peers : InStep(side'[q], side'[Other(q)]) <=> InStep(side[q], side[Other(q)])'
      /\ \A q \in Peers : OwnParity(q, side'[q]) <=> OwnParity(q, side[q])'
  OBVIOUS
<1> QED
  BY <1>2, <1>5, <1>6 DEF StreamsInv

LEMMA Here ==
  ASSUME StreamsInv, NEW p \in Peers
  PROVE  /\ Other(p) \in Peers /\ Other(p) # p /\ side[p] \in Sides /\ side[Other(p)] \in Sides
         /\ DOMAIN link = Peers /\ link[p] \in Links(side[Other(p)]) /\ link[Other(p)] \in Links(side[p])
         /\ InStep(side[p], side[Other(p)]) /\ OwnParity(p, side[p])
BY Others DEF StreamsInv

LEMMA SendingHolds ==
  ASSUME StreamsInv, NEW p \in Peers, NEW e \in Sides, side' = [side EXCEPT ![p] = e],
         Grows(side[p], e), InStep(e, side[Other(p)]), OwnParity(p, e),
         NEW ls, DOMAIN ls = Peers, ls[p] \in Links(side[Other(p)]), ls[Other(p)] = link[Other(p)],
         NEW packets \in Seq(Packets(e)), NEW undisturbed \in BOOLEAN, Transmit(p, ls, packets, undisturbed)
  PROVE  StreamsInv'
<1>1. ls[Other(p)] \in Links(e)
  BY Here, LinksGrow
<1>2. DOMAIN link' = Peers /\ link'[p] = ls[p] /\ link'[Other(p)] \in Links(e)
  BY <1>1, TransmitStays
<1> QED
  BY <1>2, StepHolds

\* Nothing is sent, and the links are as before.
LEMMA StayingHolds ==
  ASSUME StreamsInv, NEW p \in Peers, NEW e \in Sides, side' = [side EXCEPT ![p] = e],
         Grows(side[p], e), InStep(e, side[Other(p)]), OwnParity(p, e), link' = link
  PROVE  StreamsInv'
<1>1. DOMAIN link' = Peers /\ link'[p] \in Links(side[Other(p)]) /\ link'[Other(p)] \in Links(e)
  BY Here, LinksGrow
<1> QED
  BY <1>1, StepHolds

\* Where neither endpoints nor buffers change.
LEMMA QuietSide ==
  ASSUME NEW d \in Sides, NEW e, NEW o, NEW p, InStep(d, o), OwnParity(p, d),
         e.endpoints = d.endpoints, e.mux_id = d.mux_id, e.buffers = d.buffers, e.next_open = d.next_open, e.opened = d.opened
  PROVE  Grows(d, e) /\ InStep(e, o) /\ OwnParity(p, e)
<1>1. \A s \in Streams : Endpoint(e, s) = Endpoint(d, s) /\ Buffer(e, s) = Buffer(d, s)
  BY DEF Endpoint, NewEndpoint, Buffer
<1> QED
  BY <1>1, SameStreams DEF OwnParity

LEMMA ConnectHolds ==
  ASSUME StreamsInv, NEW p \in Peers, Connect(p)
  PROVE  StreamsInv'
<1> DEFINE d == side[p]
           e == [d EXCEPT !.state = "SYN_SENT"]
           packets == <<Control(p, "SYN")>>
<1>1. d \in Sides
  BY Here
<1>2. side' = [side EXCEPT ![p] = e] /\ Transmit(p, link, packets, FALSE)
  BY DEF Connect, Become
<1>3. e \in Sides /\ e.endpoints = d.endpoints /\ e.mux_id = d.mux_id /\ e.buffers = d.buffers
      /\ e.next_open = d.next_open /\ e.opened = d.opened
  BY <1>1 DEF Sides, States
<1>4. packets \in Seq(Packets(e))
  <2>1. Control(p, "SYN") \in Packets(e)
    <3>1. d.id \in Ids
      BY <1>1 DEF Sides
    <3> QED
      BY <3>1 DEF Control, Packets
  <2> QED
    BY <2>1
<1> HIDE DEF e, packets
<1>5. Grows(d, e) /\ InStep(e, side[Other(p)]) /\ OwnParity(p, e)
  BY <1>1, <1>3, Here, QuietSide
<1>6. FALSE \in BOOLEAN
  OBVIOUS
<1> QED
  BY <1>2, <1>3, <1>4, <1>5, <1>6, Here, SendingHolds

LEMMA LeaveHolds ==
  ASSUME StreamsInv, NEW p \in Peers, Leave(p)
  PROVE  StreamsInv'
<1> DEFINE d == side[p]
           e == [d EXCEPT !.state = "CLOSED", !.leaves = d.leaves + 1]
<1>1. d \in Sides
  BY Here
<1>2. side' = [side EXCEPT ![p] = e] /\ link' = link
  BY DEF Leave, Become
<1>3. e \in Sides /\ e.endpoints = d.endpoints /\ e.mux_id = d.mux_id /\ e.buffers = d.buffers
      /\ e.next_open = d.next_open /\ e.opened = d.opened
  <2>1. d.leaves + 1 \in Nat
    BY <1>1 DEF Sides
  <2> QED
    BY <1>1, <2>1 DEF Sides, States
<1> HIDE DEF e
<1>5. Grows(d, e) /\ InStep(e, side[Other(p)]) /\ OwnParity(p, e)
  BY <1>1, <1>3, Here, QuietSide
<1> QED
  BY <1>2, <1>3, <1>5, Here, StayingHolds

LEMMA PumpBeginsHolds ==
  ASSUME StreamsInv, NEW p \in Peers, PumpBegins(p)
  PROVE  StreamsInv'
<1> DEFINE d == side[p]
           m == SetSessionId(d)
           e == [m EXCEPT !.pumping = TRUE]
<1>1. d \in Sides
  BY Here
<1>2. side' = [side EXCEPT ![p] = e] /\ link' = link
  BY DEF PumpBegins, Become
<1>3. /\ m \in Sides /\ m.next_open = d.next_open /\ m.opened = d.opened
      /\ \A s \in Streams : /\ Endpoint(m, s).queued = Endpoint(d, s).queued /\ Endpoint(m, s).got = Endpoint(d, s).got
                             /\ Endpoint(m, s).acked = Endpoint(d, s).acked /\ Buffer(m, s) = Buffer(d, s)
  BY <1>1, SetSessionIdKeeps
<1> HIDE DEF m
<1>4. e \in Sides /\ e.endpoints = m.endpoints /\ e.mux_id = m.mux_id /\ e.buffers = m.buffers
      /\ e.next_open = m.next_open /\ e.opened = m.opened
  BY <1>3 DEF Sides
<1> HIDE DEF e
<1>5. \A s \in Streams : /\ Endpoint(e, s).queued = Endpoint(d, s).queued /\ Endpoint(e, s).got = Endpoint(d, s).got
                         /\ Endpoint(e, s).acked = Endpoint(d, s).acked /\ Buffer(e, s) = Buffer(d, s)
  BY <1>3, <1>4 DEF Endpoint, NewEndpoint, Buffer
<1>6. Grows(d, e) /\ InStep(e, side[Other(p)]) /\ OwnParity(p, e)
  <2>1. InStep(d, side[Other(p)]) /\ OwnParity(p, d)
    BY Here
  <2>2. Grows(d, e) /\ InStep(e, side[Other(p)])
    BY <1>1, <1>5, <2>1, SameStreams
  <2> QED
    BY <1>3, <1>4, <2>1, <2>2 DEF OwnParity
<1> QED
  BY <1>2, <1>4, <1>6, Here, StayingHolds

\* One of the candidates is free, so that the lowest free one is one of them.
LEMMA OpenIdFree ==
  ASSUME NEW d \in Sides
  PROVE  OpenId(d) \notin DOMAIN d.endpoints /\ \E k \in Nat : OpenId(d) = d.next_open + 2 * k
<1> DEFINE D == DOMAIN d.endpoints
           n == Cardinality(D)
           next == d.next_open
           C == {next + 2 * k : k \in 0..n}
           f == [k \in 0..n |-> next + 2 * k]
<1>1. IsFiniteSet(D) /\ n \in Nat /\ next \in Nat
  <2>1. d.endpoints \in Dicts(Endpoints) /\ next \in Nat
    BY DEF Sides
  <2>2. IsFiniteSet(D)
    BY <2>1, DictHas
  <2> QED
    BY <2>1, <2>2, FS_CardinalityType
<1>2. OpenId(d) = CHOOSE s \in C : s \notin D /\ \A t \in C : t < s => t \in D
  BY DEF OpenId
<1> HIDE DEF D, n, next
<1>3. IsFiniteSet(0..n) /\ Cardinality(0..n) = n + 1 /\ n < n + 1
  BY <1>1, FS_Interval
<1>4. ~(C \subseteq D)
  <2> SUFFICES ASSUME C \subseteq D PROVE FALSE
    OBVIOUS
  <2>1. f \in [0..n -> D]
    OBVIOUS
  <2>2. Cardinality(D) < Cardinality(0..n)
    BY <1>3 DEF n
  <2> HIDE DEF f
  <2>3. PICK x \in 0..n, y \in 0..n : x # y /\ f[x] = f[y]
    BY <1>1, <1>3, <2>1, <2>2, FS_PigeonHole
  <2>4. next + 2 * x = next + 2 * y
    BY <2>3 DEF f
  <2>5. x \in Nat /\ y \in Nat
    BY <2>3
  <2> QED
    BY <1>1, <2>3, <2>4, <2>5
<1> DEFINE T == C \ D
<1>5. T \in SUBSET Nat /\ T # {}
  <2>1. C \subseteq Nat
    BY <1>1
  <2> HIDE DEF C
  <2> QED
    BY <1>4, <2>1
<1>6. PICK m \in T : \A y \in T : m <= y
  <2> HIDE DEF T
  <2> QED
    BY <1>5, LeastNat
<1>7. \A t \in C : t < m => t \in D
  <2> SUFFICES ASSUME NEW t \in C, t < m, t \notin D PROVE FALSE
    OBVIOUS
  <2>1. t \in T /\ m \in Nat /\ t \in Nat
    BY <1>5
  <2>2. m <= t
    BY <1>6, <2>1
  <2> HIDE DEF T, C
  <2> QED
    BY <2>1, <2>2
<1>8. m \in C /\ m \notin D
  BY <1>6
<1> HIDE DEF T
<1>9. OpenId(d) \in C /\ OpenId(d) \notin D
  <2> HIDE DEF C
  <2> QED
    BY <1>2, <1>7, <1>8
<1> QED
  BY <1>1, <1>9 DEF D, next

LEMMA OpenStreamHolds ==
  ASSUME StreamsInv, NEW p \in Peers, OpenStream(p)
  PROVE  StreamsInv'
<1> DEFINE d == side[p]
           s == OpenId(d)
           v == NewEndpoint(d)
           dict == Put(d.endpoints, s, v)
           next == s + 2
           opened == d.opened \cup {s}
           e == [d EXCEPT !.endpoints = dict, !.next_open = next, !.opened = opened]
<1>1. d \in Sides /\ InStep(d, side[Other(p)]) /\ OwnParity(p, d)
  BY Here
<1>2. side' = [side EXCEPT ![p] = e] /\ link' = link
  BY DEF OpenStream, Become
<1>3. s \notin DOMAIN d.endpoints /\ \E k \in Nat : s = d.next_open + 2 * k
  BY <1>1, OpenIdFree
<1> HIDE DEF s
<1>4. OfParity(p, s) /\ OfParity(p, next) /\ s \in Streams /\ next \in Nat
  <2>1. FirstOpenId(p) \in {2, 3}
    BY DEF FirstOpenId
  <2>2. PICK j \in Nat : d.next_open = FirstOpenId(p) + 2 * j
    BY <1>1 DEF OwnParity, OfParity
  <2>3. PICK k \in Nat : s = d.next_open + 2 * k
    BY <1>3
  <2>4. s = FirstOpenId(p) + 2 * (j + k) /\ j + k \in Nat /\ next = FirstOpenId(p) + 2 * (j + k + 1) /\ j + k + 1 \in Nat
    BY <2>1, <2>2, <2>3
  <2>5. s \in Streams /\ next \in Nat
    BY <2>1, <2>4 DEF Streams, CONTROL_STREAM_ID
  <2> QED
    BY <2>4, <2>5 DEF OfParity
<1>5. v \in Endpoints
  BY <1>1 DEF NewEndpoint, Endpoints, Sides
<1> HIDE DEF v, next
<1>6. dict \in Dicts(Endpoints)
  <2>1. d.endpoints \in Dicts(Endpoints)
    BY <1>1 DEF Sides
  <2> QED
    <3>1. PutGives(Endpoints, d.endpoints, s, v)
      BY <1>4, <1>5, <2>1, PutDict
    <3> QED
      BY <3>1 DEF PutGives
<1>7. opened \in SUBSET Nat
  BY <1>1, <1>4 DEF Sides, Streams
<1> HIDE DEF dict, opened
<1>8. /\ e \in Sides /\ e.endpoints = dict /\ e.mux_id = d.mux_id /\ e.buffers = d.buffers
      /\ e.next_open = next /\ e.opened = opened
  BY <1>1, <1>4, <1>6, <1>7 DEF Sides
<1> HIDE DEF e
<1>9. \A t \in Streams : Endpoint(e, t) = Endpoint(d, t) /\ Buffer(e, t) = Buffer(d, t)
  <2>1. \A t \in Streams : Endpoint(e, t) = IF t = s THEN v ELSE Endpoint(d, t)
    BY <1>1, <1>4, <1>5, <1>8, PutEndpoint DEF dict
  <2>2. Endpoint(d, s) = v
    BY <1>3 DEF Endpoint, v
  <2>3. \A t \in Streams : Buffer(e, t) = Buffer(d, t)
    BY <1>8 DEF Buffer
  <2> QED
    BY <2>1, <2>2, <2>3
<1>10. Grows(d, e) /\ InStep(e, side[Other(p)])
  BY <1>1, <1>9, SameStreams
<1>11. OwnParity(p, e)
  BY <1>1, <1>4, <1>8 DEF OwnParity, opened
<1> QED
  BY <1>2, <1>8, <1>10, <1>11, StayingHolds

----------------------------------------------------------------------------
(* Packets of the streams.                                                 *)

LEMMA DataIsPacket ==
  ASSUME NEW d, NEW ep \in Endpoints, NEW s \in Streams, Endpoint(d, s).queued = ep.queued, NEW n \in 1..Len(ep.queued)
  PROVE  Data(ep, s, n) \in Packets(d)
<1> DEFINE chunk == ep.queued[n]
           f == [type |-> "DATA", stream |-> s, id |-> ep.id, num |-> n, chunk |-> chunk]
<1>1. ep.queued \in Seq(ChunkNames) /\ ep.id \in Ids
  BY DEF Endpoints
<1>2. chunk \in ChunkNames /\ n \in Nat
  BY <1>1, ElementOfSeq
<1>3. f.num \in 1..Len(Endpoint(d, f.stream).queued) /\ f.chunk = Endpoint(d, f.stream).queued[f.num]
  OBVIOUS
<1> HIDE DEF chunk
<1>4. f \in [type : {"DATA"}, stream : Streams, id : Ids, num : Nat, chunk : ChunkNames]
  BY <1>1, <1>2
<1>5. Data(ep, s, n) = f
  BY DEF Data, chunk
<1> HIDE DEF f
<1> QED
  BY <1>3, <1>4, <1>5 DEF Packets

LEMMA AckIsPacket ==
  ASSUME NEW d, NEW ep \in Endpoints, NEW s \in Streams, Endpoint(d, s).got = ep.got
  PROVE  Ack(ep, s) \in Packets(d)
<1> DEFINE f == [type |-> "ACK", stream |-> s, id |-> ep.id, num |-> ep.got]
<1>1. ep.id \in Ids /\ ep.got \in Nat /\ ep.got <= ep.got
  BY DEF Endpoints
<1>2. f \in [type : {"ACK"}, stream : Streams, id : Ids, num : Nat] /\ f.num <= Endpoint(d, f.stream).got
  BY <1>1
<1>3. Ack(ep, s) = f
  BY DEF Ack
<1> HIDE DEF f
<1> QED
  BY <1>2, <1>3 DEF Packets

\* What a frame is that does not belong to the control plane.
LEMMA StreamPacket ==
  ASSUME NEW d, NEW f \in Packets(d), f.stream # CONTROL_STREAM_ID
  PROVE  /\ f.stream \in Streams /\ f.num \in Nat /\ f.type \in {"ACK", "DATA"}
         /\ f.type = "DATA" => /\ f.num \in 1..Len(Endpoint(d, f.stream).queued) /\ f.chunk \in ChunkNames
                              /\ f.chunk = Endpoint(d, f.stream).queued[f.num]
         /\ f.type = "ACK" => f.num <= Endpoint(d, f.stream).got
BY DEF Packets

\* An endpoint is put where one of the same chunks was.
LEMMA PutSameChunks ==
  ASSUME NEW d \in Sides, NEW s \in Streams, NEW v \in Endpoints, NEW o, NEW p, InStep(d, o), OwnParity(p, d),
         v.queued = Endpoint(d, s).queued, v.got = Endpoint(d, s).got,
         v.acked = Endpoint(d, s).acked \/ v.acked <= Endpoint(o, s).got
  PROVE  LET e == [d EXCEPT !.endpoints = Put(d.endpoints, s, v)]
         IN  /\ e \in Sides /\ Grows(d, e) /\ InStep(e, o) /\ OwnParity(p, e)
             /\ Endpoint(e, s).queued = v.queued /\ Endpoint(e, s).got = v.got
<1> DEFINE dict == Put(d.endpoints, s, v)
           e == [d EXCEPT !.endpoints = dict]
<1>1. dict \in Dicts(Endpoints)
  <2>1. d.endpoints \in Dicts(Endpoints)
    BY DEF Sides
  <2> QED
    <3>1. PutGives(Endpoints, d.endpoints, s, v)
      BY <2>1, PutDict
    <3> QED
      BY <3>1 DEF PutGives
<1> HIDE DEF dict
<1>3. /\ e \in Sides /\ e.endpoints = dict /\ e.mux_id = d.mux_id /\ e.buffers = d.buffers
      /\ e.next_open = d.next_open /\ e.opened = d.opened
  BY <1>1 DEF Sides
<1> HIDE DEF e
<1>4. \A t \in Streams : Endpoint(e, t) = IF t = s THEN v ELSE Endpoint(d, t)
  BY <1>3, PutEndpoint DEF dict
<1>5. \A t \in Streams : Buffer(e, t) = Buffer(d, t)
  BY <1>3 DEF Buffer
<1>6. \A t \in Streams : /\ Endpoint(e, t).queued = Endpoint(d, t).queued /\ Endpoint(e, t).got = Endpoint(d, t).got
                         /\ Endpoint(e, t).acked = Endpoint(d, t).acked \/ Endpoint(e, t).acked <= Endpoint(o, t).got
  BY <1>4
<1>7. Grows(d, e) /\ InStep(e, o)
  BY <1>5, <1>6, MoreAcked
<1>8. OwnParity(p, e)
  BY <1>3 DEF OwnParity
<1>9. Endpoint(e, s).queued = v.queued /\ Endpoint(e, s).got = v.got
  BY <1>4
<1> QED
  BY <1>3, <1>7, <1>8, <1>9 DEF e, dict

LEMMA SendOnHolds ==
  ASSUME StreamsInv, NEW p \in Peers, NEW s \in DOMAIN side[p].endpoints \cup {DEFAULT_STREAM_ID}, SendOn(p, s)
  PROVE  StreamsInv'
<1> DEFINE d == side[p]
           m == SetSessionId(d)
           ep == Endpoint(m, s)
           n == Len(ep.queued) + 1
           chunk == <<p, s, n>>
           q == Append(ep.queued, chunk)
           new == [ep EXCEPT !.queued = q]
           dict == Put(m.endpoints, s, new)
           sends == m.sends + 1
           e == [m EXCEPT !.endpoints = dict, !.sends = sends]
           packets == IF ep.acked = Len(ep.queued) THEN <<Data(new, s, n)>> ELSE <<>>
<1>1. d \in Sides /\ InStep(d, side[Other(p)]) /\ OwnParity(p, d)
  BY Here
<1>2. side' = [side EXCEPT ![p] = e] /\ Transmit(p, link, packets, FALSE)
  BY DEF SendOn, Become
<1>3. s \in Streams
  <2>1. DEFAULT_STREAM_ID \in Streams
    BY DEF DEFAULT_STREAM_ID, Streams, CONTROL_STREAM_ID
  <2>2. DOMAIN d.endpoints \subseteq Streams
    BY <1>1, <2>1, EndpointType
  <2> QED
    BY <2>1, <2>2
<1>4. /\ m \in Sides /\ m.next_open = d.next_open /\ m.opened = d.opened
      /\ \A t \in Streams : /\ Endpoint(m, t).queued = Endpoint(d, t).queued /\ Endpoint(m, t).got = Endpoint(d, t).got
                             /\ Endpoint(m, t).acked = Endpoint(d, t).acked /\ Buffer(m, t) = Buffer(d, t)
  BY <1>1, SetSessionIdKeeps
<1> HIDE DEF m
<1>5. ep \in Endpoints /\ ep.queued \in Seq(ChunkNames) /\ Len(ep.queued) \in Nat
  BY <1>3, <1>4, EndpointType
<1> HIDE DEF ep
<1>6. n \in Nat \ {0} /\ chunk \in ChunkNames
  <2>1. n \in Nat \ {0}
    BY <1>5
  <2> HIDE DEF n
  <2> QED
    BY <1>3, <2>1 DEF ChunkNames
<1> HIDE DEF chunk
<1>7. /\ q \in Seq(ChunkNames) /\ Len(q) = n /\ \A i \in 1..Len(ep.queued) : q[i] = ep.queued[i]
  BY <1>5, <1>6, AppendProperties
<1> HIDE DEF q
<1>8. new \in Endpoints /\ new.queued = q /\ new.got = ep.got /\ new.acked = ep.acked
  BY <1>5, <1>7 DEF Endpoints
<1> HIDE DEF new
<1>9. dict \in Dicts(Endpoints)
  <2>1. m.endpoints \in Dicts(Endpoints)
    BY <1>4 DEF Sides
  <2> QED
    <3>1. PutGives(Endpoints, m.endpoints, s, new)
      BY <1>3, <1>8, <2>1, PutDict
    <3> QED
      BY <3>1 DEF PutGives
<1>10. sends \in Nat
  BY <1>4 DEF Sides
<1> HIDE DEF dict, sends
<1>11. /\ e \in Sides /\ e.endpoints = dict /\ e.mux_id = m.mux_id /\ e.buffers = m.buffers
       /\ e.next_open = m.next_open /\ e.opened = m.opened
  BY <1>4, <1>9, <1>10 DEF Sides
<1> HIDE DEF e
<1>12. \A t \in Streams : Endpoint(e, t) = IF t = s THEN new ELSE Endpoint(m, t)
  BY <1>3, <1>4, <1>8, <1>11, PutEndpoint DEF dict
<1>13. \A t \in Streams : /\ Buffer(e, t) = Buffer(d, t) /\ Endpoint(e, t).got = Endpoint(d, t).got
                          /\ Endpoint(e, t).acked = Endpoint(d, t).acked
  BY <1>4, <1>8, <1>11, <1>12 DEF Buffer, ep
<1>14. Endpoint(e, s).queued = q /\ Endpoint(d, s).queued = ep.queued
       /\ \A t \in Streams : t # s => Endpoint(e, t).queued = Endpoint(d, t).queued
  BY <1>3, <1>4, <1>8, <1>12 DEF ep
<1>15. Grows(d, e)
  <2> SUFFICES ASSUME NEW t \in Streams
               PROVE  /\ Endpoint(d, t).got \in Nat /\ Endpoint(e, t).got \in Nat /\ Endpoint(d, t).got <= Endpoint(e, t).got
                      /\ Len(Endpoint(d, t).queued) \in Nat /\ Len(Endpoint(e, t).queued) \in Nat
                      /\ Len(Endpoint(d, t).queued) <= Len(Endpoint(e, t).queued)
                      /\ \A i \in 1..Len(Endpoint(d, t).queued) : Endpoint(e, t).queued[i] = Endpoint(d, t).queued[i]
    BY DEF Grows
  <2>1. Endpoint(d, t).got \in Nat /\ Endpoint(e, t).got = Endpoint(d, t).got
    BY <1>1, <1>13, EndpointType
  <2>2. CASE t = s
    BY <1>5, <1>6, <1>7, <1>14, <2>1, <2>2
  <2>3. CASE t # s
    <3>1. Endpoint(e, t).queued = Endpoint(d, t).queued /\ Len(Endpoint(d, t).queued) \in Nat
      BY <1>1, <1>14, <2>3, EndpointType
    <3> QED
      BY <2>1, <3>1
  <2> QED
    BY <2>2, <2>3
<1>16. InStep(e, side[Other(p)])
  BY <1>1, <1>13 DEF InStep
<1>17. OwnParity(p, e)
  BY <1>1, <1>4, <1>11 DEF OwnParity
<1>18. packets \in Seq(Packets(e))
  <2>1. Data(new, s, n) \in Packets(e)
    <3>1. n \in 1..Len(new.queued) /\ Endpoint(e, s).queued = new.queued
      BY <1>6, <1>7, <1>8, <1>14
    <3> HIDE DEF n
    <3> QED
      BY <1>3, <1>8, <3>1, DataIsPacket
  <2> DEFINE f == Data(new, s, n)
  <2>2. f \in Packets(e)
    BY <2>1
  <2> HIDE DEF f
  <2>3. <<f>> \in Seq(Packets(e)) /\ <<>> \in Seq(Packets(e))
    BY <2>2
  <2> QED
    BY <2>3 DEF f
<1> HIDE DEF packets
<1>19. FALSE \in BOOLEAN
  OBVIOUS
<1> QED
  BY <1>2, <1>11, <1>15, <1>16, <1>17, <1>18, <1>19, Here, SendingHolds

\* Side d with endpoint v for stream s, and one more chunk received there.
WithNext(d, s, v, chunk) ==
  [d EXCEPT !.endpoints = Put(d.endpoints, s, v), !.buffers = Put(d.buffers, s, Buffer(d, s) \o <<chunk>>)]

\* Side d has become e, with endpoint v for stream s, and fits o as before.
GoesOn(d, e, o, p, s, v) ==
  /\ e \in Sides /\ Grows(d, e) /\ InStep(e, o) /\ OwnParity(p, e)
  /\ Endpoint(e, s).queued = v.queued /\ Endpoint(e, s).got = v.got

\* The chunk that is next is taken into the buffer.
LEMMA PutNextChunk ==
  ASSUME NEW d \in Sides, NEW s \in Streams, NEW v \in Endpoints, NEW o \in Sides, NEW p, InStep(d, o), OwnParity(p, d),
         v.queued = Endpoint(d, s).queued, v.got = Endpoint(d, s).got + 1, v.got \in 1..Len(Endpoint(o, s).queued),
         v.acked = Endpoint(d, s).acked, NEW chunk \in ChunkNames, chunk = Endpoint(o, s).queued[v.got]
  PROVE  GoesOn(d, WithNext(d, s, v, chunk), o, p, s, v)
<1> DEFINE dict == Put(d.endpoints, s, v)
           old == Buffer(d, s)
           b == old \o <<chunk>>
           buffers == Put(d.buffers, s, b)
           e == [d EXCEPT !.endpoints = dict, !.buffers = buffers]
           got == Endpoint(d, s).got
           sent == Endpoint(o, s).queued
<1>1. old \in Seq(ChunkNames) /\ got \in Nat /\ Len(sent) \in Nat
  BY EndpointType
<1>2. Len(old) = got /\ got <= Len(sent) /\ \A i \in 1..got : old[i] = sent[i]
  BY DEF InStep
<1> HIDE DEF old, got, sent
<1>3. /\ b \in Seq(ChunkNames) /\ Len(b) = got + 1 /\ got + 1 <= Len(sent)
      /\ \A i \in 1..got + 1 : b[i] = sent[i]
  <2>1. v.got = got + 1 /\ chunk = sent[got + 1] /\ got + 1 <= Len(sent)
    <3>1. v.got = got + 1 /\ v.got \in 1..Len(sent) /\ chunk = sent[v.got]
      BY DEF got, sent
    <3> QED
      BY <1>1, <3>1
  <2>2. <<chunk>> \in Seq(ChunkNames) /\ Len(<<chunk>>) = 1 /\ <<chunk>>[1] = chunk
    OBVIOUS
  <2>3. /\ b \in Seq(ChunkNames) /\ Len(b) = got + 1
        /\ \A i \in 1..got + 1 : b[i] = IF i <= got THEN old[i] ELSE <<chunk>>[i - got]
    BY <1>1, <1>2, <2>2, ConcatProperties
  <2>4. ASSUME NEW i \in 1..got + 1 PROVE b[i] = sent[i]
    <3> HIDE DEF b
    <3>1. CASE i <= got
      BY <1>1, <1>2, <2>3, <3>1
    <3>2. CASE ~(i <= got)
      <4>1. i = got + 1 /\ i - got = 1
        BY <1>1, <3>2
      <4> QED
        BY <2>1, <2>2, <2>3, <3>2, <4>1
    <3> QED
      BY <3>1, <3>2
  <2> QED
    BY <2>1, <2>3, <2>4
<1> HIDE DEF b
<1>4. dict \in Dicts(Endpoints)
  <2>1. d.endpoints \in Dicts(Endpoints)
    BY DEF Sides
  <2> QED
    <3>1. PutGives(Endpoints, d.endpoints, s, v)
      BY <2>1, PutDict
    <3> QED
      BY <3>1 DEF PutGives
<1>5. /\ buffers \in Dicts(Chunks) /\ DOMAIN buffers = DOMAIN d.buffers \cup {s}
      /\ buffers[s] = b /\ \A t \in DOMAIN d.buffers : t # s => buffers[t] = d.buffers[t]
  <2> DEFINE before == d.buffers
  <2>1. before \in Dicts(Chunks) /\ b \in Chunks
    BY <1>3 DEF Sides, Chunks
  <2> HIDE DEF before
  <2>2. /\ Put(before, s, b) \in Dicts(Chunks) /\ DOMAIN Put(before, s, b) = DOMAIN before \cup {s}
        /\ Put(before, s, b)[s] = b /\ \A t \in DOMAIN before : t # s => Put(before, s, b)[t] = before[t]
    <3>1. PutGives(Chunks, before, s, b)
      BY <2>1, PutBuffer
    <3> QED
      BY <3>1 DEF PutGives
  <2> QED
    BY <2>2 DEF before
<1> HIDE DEF dict, buffers
<1>6. /\ e \in Sides /\ e.endpoints = dict /\ e.mux_id = d.mux_id /\ e.buffers = buffers
      /\ e.next_open = d.next_open /\ e.opened = d.opened
  BY <1>4, <1>5 DEF Sides
<1> HIDE DEF e
<1>7. \A t \in Streams : Endpoint(e, t) = IF t = s THEN v ELSE Endpoint(d, t)
  BY <1>6, PutEndpoint DEF dict
<1>8. Buffer(e, s) = b /\ \A t \in Streams : t # s => Buffer(e, t) = Buffer(d, t)
  BY <1>5, <1>6 DEF Buffer
<1>9. Grows(d, e)
  <2> SUFFICES ASSUME NEW t \in Streams
               PROVE  /\ Endpoint(d, t).got \in Nat /\ Endpoint(e, t).got \in Nat /\ Endpoint(d, t).got <= Endpoint(e, t).got
                      /\ Len(Endpoint(d, t).queued) \in Nat /\ Endpoint(e, t).queued = Endpoint(d, t).queued
    BY DEF Grows
  <2>1. Endpoint(e, t).queued = Endpoint(d, t).queued /\ Len(Endpoint(d, t).queued) \in Nat /\ Endpoint(d, t).got \in Nat
    BY <1>7, EndpointType
  <2>2. Endpoint(e, t).got = Endpoint(d, t).got \/ Endpoint(e, t).got = Endpoint(d, t).got + 1
    BY <1>7
  <2> QED
    BY <2>1, <2>2
<1>10. InStep(e, o)
  <2> SUFFICES ASSUME NEW t \in Streams
               PROVE  LET n == Endpoint(e, t).got
                      IN  /\ Len(Buffer(e, t)) = n
                          /\ n <= Len(Endpoint(o, t).queued)
                          /\ \A i \in 1..n : Buffer(e, t)[i] = Endpoint(o, t).queued[i]
                          /\ Endpoint(e, t).acked <= Endpoint(o, t).got
    BY DEF InStep
  <2>1. CASE t = s
    <3>1. Endpoint(e, t).got = got + 1
      BY <1>7, <2>1 DEF got
    <3>2. Buffer(e, t) = b
      BY <1>8, <2>1
    <3>3. Endpoint(o, t).queued = sent
      BY <2>1 DEF sent
    <3>4. Endpoint(e, t).acked <= Endpoint(o, t).got
      BY <1>7, <2>1 DEF InStep
    <3> QED
      BY <1>3, <3>1, <3>2, <3>3, <3>4
  <2>2. CASE t # s
    <3>1. Endpoint(e, t) = Endpoint(d, t) /\ Buffer(e, t) = Buffer(d, t)
      BY <1>7, <1>8, <2>2
    <3> QED
      BY <3>1 DEF InStep
  <2> QED
    BY <2>1, <2>2
<1>11. OwnParity(p, e)
  BY <1>6 DEF OwnParity
<1>12. Endpoint(e, s).queued = v.queued /\ Endpoint(e, s).got = v.got
  BY <1>7
<1> QED
  <2>1. WithNext(d, s, v, chunk) = e
    BY DEF WithNext, e, dict, buffers, b, old
  <2>2. GoesOn(d, e, o, p, s, v)
    BY <1>6, <1>9, <1>10, <1>11, <1>12 DEF GoesOn
  <2> QED
    BY <2>1, <2>2

\* What becomes of a side with a packet of a stream, and what it answers.
LEMMA OnStreamHolds ==
  ASSUME NEW d \in Sides, NEW o \in Sides, NEW p, InStep(d, o), OwnParity(p, d),
         NEW f \in Packets(o), f.stream # CONTROL_STREAM_ID
  PROVE  LET r == OnStream(d, f)
         IN  r.d \in Sides /\ Grows(d, r.d) /\ InStep(r.d, o) /\ OwnParity(p, r.d) /\ r.out \in Seq(Packets(r.d))
<1> DEFINE s == f.stream
           ep == Endpoint(d, s)
           next == [ep EXCEPT !.got = f.num]
           acked == [ep EXCEPT !.acked = f.num]
           r == OnStream(d, f)
           With(v) == [d EXCEPT !.endpoints = Put(d.endpoints, s, v)]
           Fine(e) == e \in Sides /\ Grows(d, e) /\ InStep(e, o) /\ OwnParity(p, e)
<1>1. /\ s \in Streams /\ f.num \in Nat /\ f.type \in {"ACK", "DATA"}
      /\ f.type = "DATA" => /\ f.num \in 1..Len(Endpoint(o, s).queued) /\ f.chunk \in ChunkNames
                           /\ f.chunk = Endpoint(o, s).queued[f.num]
      /\ f.type = "ACK" => f.num <= Endpoint(o, s).got
  BY StreamPacket
<1> HIDE DEF s
<1>2. ep \in Endpoints /\ ep.queued \in Seq(ChunkNames) /\ ep.acked \in Nat /\ ep.got \in Nat
  BY <1>1, EndpointType
<1>3. /\ next \in Endpoints /\ next.queued = ep.queued /\ next.got = f.num /\ next.acked = ep.acked
      /\ acked \in Endpoints /\ acked.queued = ep.queued /\ acked.got = ep.got /\ acked.acked = f.num
  <2> HIDE DEF ep
  <2> QED
    BY <1>1, <1>2 DEF Endpoints
<1>4. Fine(With(ep)) /\ Endpoint(With(ep), s).queued = ep.queued /\ Endpoint(With(ep), s).got = ep.got
  BY <1>1, <1>2, PutSameChunks
<1>5. CASE r = [d |-> With(ep), out |-> <<>>]
  <2>1. r.d = With(ep) /\ r.out = <<>> /\ <<>> \in Seq(Packets(r.d))
    BY <1>5
  <2> HIDE DEF r, With
  <2> QED
    BY <1>4, <2>1 DEF r
<1>6. CASE f.id = ep.id /\ f.type = "DATA" /\ f.num # ep.got + 1
  <2>1. r = [d |-> [d EXCEPT !.endpoints = Put(d.endpoints, s, ep), !.buffers = d.buffers], out |-> <<Ack(ep, s)>>]
    <3> HIDE DEF ep
    <3> QED
      BY <1>6 DEF OnStream, s, ep
  <2>2. [d EXCEPT !.endpoints = Put(d.endpoints, s, ep), !.buffers = d.buffers] = With(ep)
    BY DEF Sides
  <2>3. r.d = With(ep) /\ r.out = <<Ack(ep, s)>>
    BY <2>1, <2>2
  <2>4. Ack(ep, s) \in Packets(r.d)
    <3>1. Endpoint(r.d, s).got = ep.got
      BY <1>4, <2>3
    <3> HIDE DEF r, ep
    <3> QED
      BY <1>1, <1>2, <3>1, AckIsPacket
  <2> HIDE DEF r, With
  <2>5. <<Ack(ep, s)>> \in Seq(Packets(r.d))
    BY <2>4
  <2> QED
    BY <1>4, <2>3, <2>5 DEF r
<1>7. CASE f.id = ep.id /\ f.type = "DATA" /\ f.num = ep.got + 1
  <2> DEFINE e == [d EXCEPT !.endpoints = Put(d.endpoints, s, next), !.buffers = Put(d.buffers, s, Buffer(d, s) \o <<f.chunk>>)]
  <2>1. next # ep
    <3>1. next.got # ep.got
      BY <1>2, <1>3, <1>7
    <3> QED
      BY <3>1
  <2>2. r = [d |-> e, out |-> <<Ack(next, s)>>]
    <3> HIDE DEF ep
    <3> QED
      BY <1>7, <2>1 DEF OnStream, s, ep, Buffer
  <2>3. Fine(e) /\ Endpoint(e, s).queued = next.queued /\ Endpoint(e, s).got = next.got
    <3>1. /\ next \in Endpoints /\ next.queued = Endpoint(d, s).queued /\ next.got = Endpoint(d, s).got + 1
          /\ next.acked = Endpoint(d, s).acked /\ next.got \in 1..Len(Endpoint(o, s).queued)
          /\ f.chunk \in ChunkNames /\ f.chunk = Endpoint(o, s).queued[next.got]
      BY <1>1, <1>3, <1>7
    <3> DEFINE chunk == f.chunk
               x == WithNext(d, s, next, chunk)
    <3>2. chunk \in ChunkNames /\ chunk = Endpoint(o, s).queued[next.got]
      BY <3>1
    <3> HIDE DEF next, s, chunk, ep, x, acked, r, With, Fine, e
    <3>3. GoesOn(d, x, o, p, s, next)
      BY <1>1, <3>1, <3>2, PutNextChunk DEF x
    <3>4. x = e
      BY DEF x, e, WithNext, chunk
    <3> QED
      BY <3>3, <3>4 DEF GoesOn, Fine
  <2>4. r.d = e /\ r.out = <<Ack(next, s)>>
    BY <2>2
  <2>5. Ack(next, s) \in Packets(r.d)
    <3>1. Endpoint(r.d, s).got = next.got
      BY <2>3, <2>4
    <3> HIDE DEF r, next
    <3> QED
      BY <1>1, <1>3, <3>1, AckIsPacket
  <2> HIDE DEF r, e
  <2>6. <<Ack(next, s)>> \in Seq(Packets(r.d))
    BY <2>5
  <2> QED
    BY <2>3, <2>4, <2>6 DEF r
<1>8. CASE f.id = ep.id /\ f.type = "ACK" /\ f.num > ep.acked
  <2> DEFINE out == IF f.num < Len(ep.queued) THEN <<Data(acked, s, f.num + 1)>> ELSE <<>>
  <2>1. r = [d |-> With(acked), out |-> out]
    <3> HIDE DEF ep
    <3> QED
      BY <1>8 DEF OnStream, s, ep
  <2>2. Fine(With(acked)) /\ Endpoint(With(acked), s).queued = ep.queued
    <3>1. /\ acked \in Endpoints /\ acked.queued = Endpoint(d, s).queued /\ acked.got = Endpoint(d, s).got
          /\ acked.acked <= Endpoint(o, s).got /\ acked.queued = ep.queued
      BY <1>1, <1>3, <1>8
    <3> HIDE DEF acked, ep
    <3> QED
      BY <1>1, <3>1, PutSameChunks
  <2>3. r.d = With(acked) /\ r.out = out
    BY <2>1
  <2>4. out \in Seq(Packets(r.d))
    <3>1. CASE f.num < Len(ep.queued)
      <4> DEFINE n == f.num + 1
      <4>1. n \in 1..Len(acked.queued)
        BY <1>1, <1>2, <1>3, <3>1
      <4> HIDE DEF n
      <4>2. Data(acked, s, n) \in Packets(r.d)
        BY <1>1, <1>3, <2>2, <2>3, <4>1, DataIsPacket
      <4> DEFINE g == Data(acked, s, n)
      <4>3. g \in Packets(r.d)
        BY <4>2
      <4> HIDE DEF g, r
      <4>4. <<g>> \in Seq(Packets(r.d))
        BY <4>3
      <4> QED
        BY <3>1, <4>4 DEF g, n
    <3>2. CASE ~(f.num < Len(ep.queued))
      BY <3>2
    <3> QED
      BY <3>1, <3>2
  <2> HIDE DEF r, With, out
  <2> QED
    BY <2>2, <2>3, <2>4 DEF r
<1>9. ASSUME f.id # ep.id \/ (f.type = "ACK" /\ ~(f.num > ep.acked))
      PROVE  r = [d |-> With(ep), out |-> <<>>]
  BY <1>9 DEF OnStream, s
<1> QED
  BY <1>1, <1>5, <1>6, <1>7, <1>8, <1>9 DEF r

\* The same for a packet of the control plane.
LEMMA OnControlHolds ==
  ASSUME NEW p, side[p] \in Sides, NEW o, InStep(side[p], o), OwnParity(p, side[p]), NEW f \in Packets(o)
  PROVE  LET r == OnControl(p, f)
         IN  /\ r.d \in Sides /\ Grows(side[p], r.d) /\ InStep(r.d, o) /\ OwnParity(p, r.d)
             /\ r.out \in Seq(Packets(r.d))
<1> DEFINE d == side[p]
           r == OnControl(p, f)
           Answer(type) == [Control(p, type) EXCEPT !.id = f.id]
           heard == [d EXCEPT !.state = "SYN_RCVD", !.id = f.id]
           up == [d EXCEPT !.state = "ESTABLISHED"]
           Quiet(e) == /\ e \in Sides /\ e.endpoints = d.endpoints /\ e.mux_id = d.mux_id /\ e.buffers = d.buffers
                       /\ e.next_open = d.next_open /\ e.opened = d.opened
<1>1. f.id \in Ids
  BY DEF Packets
<1>2. d \in Sides
  OBVIOUS
<1>3. Quiet(d) /\ Quiet(heard) /\ Quiet(up)
  <2>1. Quiet(d)
    OBVIOUS
  <2>2. Quiet(heard)
    BY <1>1, <1>2 DEF Sides, States
  <2>3. Quiet(up)
    BY <1>2 DEF Sides, States
  <2> QED
    BY <2>1, <2>2, <2>3
<1>4. \A e : Answer("SYN_ACK") \in Packets(e) /\ Answer("ACK") \in Packets(e)
  <2>1. Answer("SYN_ACK") = [type |-> "SYN_ACK", stream |-> CONTROL_STREAM_ID, id |-> f.id]
    BY DEF Control
  <2>2. Answer("ACK") = [type |-> "ACK", stream |-> CONTROL_STREAM_ID, id |-> f.id]
    BY DEF Control
  <2> HIDE DEF Answer
  <2> QED
    BY <1>1, <2>1, <2>2 DEF Packets
<1>5. \/ r = [d |-> heard, out |-> <<Answer("SYN_ACK")>>]
      \/ r = [d |-> up, out |-> <<Answer("ACK")>>]
      \/ r = [d |-> up, out |-> <<>>]
      \/ r = [d |-> d, out |-> <<>>]
  BY DEF OnControl
<1>6. r.d \in {d, heard, up} /\ r.out \in {<<Answer("SYN_ACK")>>, <<Answer("ACK")>>, <<>>}
  <2> HIDE DEF r, heard, up, d, Answer
  <2> QED
    BY <1>5
<1> HIDE DEF r, heard, up, Answer
<1>7. Quiet(r.d)
  BY <1>3, <1>6
<1>8. r.out \in Seq(Packets(r.d))
  <2> DEFINE S == Packets(r.d)
             x == Answer("SYN_ACK")
             y == Answer("ACK")
  <2>1. x \in S /\ y \in S
    BY <1>4
  <2> HIDE DEF S, x, y
  <2>2. <<x>> \in Seq(S) /\ <<y>> \in Seq(S) /\ <<>> \in Seq(S)
    BY <2>1
  <2> QED
    BY <1>6, <2>2 DEF S, x, y
<1> DEFINE e == r.d
<1>9. Grows(d, e) /\ InStep(e, o) /\ OwnParity(p, e)
  <2> HIDE DEF e
  <2>1. Quiet(e)
    BY <1>7 DEF e
  <2> QED
    BY <1>2, <2>1, QuietSide
<1> QED
  BY <1>7, <1>8, <1>9 DEF r

----------------------------------------------------------------------------
(* A pump takes what has come, or ends.                                    *)

\* What has been read is gone from its queue.
LEMMA ReadHead ==
  ASSUME StreamsInv, NEW p \in Peers, link[p].queue # <<>>,
         NEW ls, ls = [link EXCEPT ![p].queue = Tail(link[p].queue)]
  PROVE  /\ DOMAIN ls = Peers /\ ls[p] \in Links(side[Other(p)]) /\ ls[Other(p)] = link[Other(p)]
         /\ Head(link[p].queue).packet \in Packets(side[Other(p)])
<1> DEFINE F == Frames(side[Other(p)])
           q == link[p].queue
           rest == Tail(q)
<1>1. link[p] \in [queue : Seq(F), held : Seq(F)] /\ DOMAIN link = Peers /\ Other(p) # p /\ Other(p) \in Peers
  BY Here DEF Links
<1>2. q \in Seq(F) /\ q # <<>>
  BY <1>1
<1> HIDE DEF F, q
<1>3. rest \in Seq(F) /\ Head(q) \in F
  BY <1>2
<1> HIDE DEF rest
<1>4. ls = [link EXCEPT ![p].queue = rest]
  BY DEF rest, q
<1>5. DOMAIN ls = Peers /\ ls[p] \in [queue : Seq(F), held : Seq(F)] /\ ls[Other(p)] = link[Other(p)]
  BY <1>1, <1>3, <1>4
<1>6. Head(q).packet \in Packets(side[Other(p)])
  BY <1>3 DEF F, Frames
<1> QED
  BY <1>5, <1>6 DEF F, q, Links

LEMMA ReceivedIsThere ==
  ASSUME NEW p, Received(p) # {}
  PROVE  link[p].queue # <<>>
<1>1. ToSet(<<>>) = {}
  BY DEF ToSet
<1> QED
  BY <1>1 DEF Received

LEMMA RoutePacketHolds ==
  ASSUME StreamsInv, NEW p \in Peers, RoutePacket(p, FALSE)
  PROVE  StreamsInv'
<1> DEFINE d == side[p]
           o == side[Other(p)]
           f == Head(link[p].queue).packet
           ls == [link EXCEPT ![p].queue = Tail(link[p].queue)]
           r == IF f.stream = CONTROL_STREAM_ID THEN OnControl(p, f) ELSE OnStream(d, f)
<1>1. d \in Sides /\ o \in Sides /\ InStep(d, o) /\ OwnParity(p, d)
  BY Here
<1>2. link[p].queue # <<>>
  BY ReceivedIsThere DEF RoutePacket
<1>3. DOMAIN ls = Peers /\ ls[p] \in Links(o) /\ ls[Other(p)] = link[Other(p)] /\ f \in Packets(o)
  BY <1>2, ReadHead
<1>4. side' = [side EXCEPT ![p] = r.d] /\ Transmit(p, ls, r.out, FALSE)
  BY DEF RoutePacket, Become
<1> HIDE DEF f, ls
<1>5. r.d \in Sides /\ Grows(d, r.d) /\ InStep(r.d, o) /\ OwnParity(p, r.d) /\ r.out \in Seq(Packets(r.d))
  <2>1. CASE f.stream = CONTROL_STREAM_ID
    BY <1>1, <1>3, <2>1, OnControlHolds
  <2>2. CASE f.stream # CONTROL_STREAM_ID
    BY <1>1, <1>3, <2>2, OnStreamHolds
  <2> QED
    BY <2>1, <2>2
<1> HIDE DEF r
<1>6. FALSE \in BOOLEAN
  OBVIOUS
<1> QED
  BY <1>3, <1>4, <1>5, <1>6, SendingHolds

LEMMA DropMalformedHolds ==
  ASSUME StreamsInv, NEW p \in Peers, DropMalformed(p)
  PROVE  StreamsInv'
<1> DEFINE d == side[p]
           ls == [link EXCEPT ![p].queue = Tail(link[p].queue)]
<1>1. d \in Sides /\ InStep(d, side[Other(p)]) /\ OwnParity(p, d) /\ link[Other(p)] \in Links(d)
  BY Here
<1>2. link[p].queue # <<>>
  BY ReceivedIsThere DEF DropMalformed
<1>3. DOMAIN ls = Peers /\ ls[p] \in Links(side[Other(p)]) /\ ls[Other(p)] = link[Other(p)]
  BY <1>2, ReadHead
<1>4. side' = side /\ link' = ls
  BY DEF DropMalformed
<1>5. side' = [side EXCEPT ![p] = d]
  BY <1>4 DEF StreamsInv
<1>6. Grows(d, d)
  BY <1>1, SameStreams
<1> HIDE DEF ls
<1> QED
  BY <1>1, <1>3, <1>4, <1>5, <1>6, StepHolds

\* What is sent when timers have run out is what has been sent before.
LEMMA TicksArePackets ==
  ASSUME NEW p, side[p] \in Sides, NEW some, some \subseteq Unacked(side[p]), NEW due \in SetToSeqs(some), NEW control_due
  PROVE  Ticks(p, control_due, due) \in Seq(Packets(side[p]))
<1> DEFINE d == side[p]
           dict == d.endpoints
           S == Packets(d)
           n == Cardinality(some)
           One(i) == LET ep == dict[due[i]] IN Data(ep, due[i], ep.acked + 1)
           ones == [i \in 1..Len(due) |-> One(i)]
           syn == Control(p, "SYN")
           syn_ack == Control(p, "SYN_ACK")
           first == CASE control_due /\ d.state = "SYN_SENT" -> <<syn>>
                      [] control_due /\ d.state = "SYN_RCVD" -> <<syn_ack>>
                      [] OTHER -> <<>>
<1>1. d \in Sides /\ dict \in Dicts(Endpoints) /\ d.id \in Ids
  BY DEF Sides
<1>2. DOMAIN dict \subseteq Streams /\ IsFiniteSet(DOMAIN dict) /\ \A s \in DOMAIN dict : dict[s] \in Endpoints
  BY <1>1, DictHas
<1>3. some \subseteq DOMAIN dict /\ \A s \in some : dict[s].acked < Len(dict[s].queued)
  BY DEF Unacked
<1>4. n \in Nat
  BY <1>2, <1>3, FS_Subset, FS_CardinalityType
<1>5. due \in [1..n -> some]
  BY DEF SetToSeqs
<1>6. Len(due) = n /\ \A i \in 1..n : due[i] \in some
  <2> HIDE DEF n
  <2>1. due \in Seq(some)
    BY <1>4, <1>5
  <2> QED
    BY <1>4, <1>5, <2>1
<1>7. ASSUME NEW i \in 1..n PROVE One(i) \in S
  <2> DEFINE s == due[i]
             ep == dict[s]
             k == ep.acked + 1
  <2>1. s \in some
    BY <1>6
  <2> HIDE DEF s
  <2>2. s \in Streams /\ s \in DOMAIN dict /\ ep \in Endpoints /\ ep.acked < Len(ep.queued)
    BY <1>2, <1>3, <2>1
  <2>3. Endpoint(d, s) = ep
    BY <2>2 DEF Endpoint
  <2> HIDE DEF ep
  <2>4. k \in 1..Len(ep.queued)
    <3>1. ep.acked \in Nat /\ ep.queued \in Seq(ChunkNames)
      BY <2>2 DEF Endpoints
    <3>2. Len(ep.queued) \in Nat
      BY <3>1, LenProperties
    <3> QED
      BY <2>2, <3>1, <3>2
  <2> HIDE DEF k
  <2>5. Data(ep, s, k) \in S
    BY <2>2, <2>3, <2>4, DataIsPacket
  <2> QED
    BY <2>5 DEF s, ep, k
<1>8. ones \in Seq(S)
  <2> HIDE DEF One, S, n
  <2>1. ones = [i \in 1..n |-> One(i)]
    BY <1>6
  <2> HIDE DEF ones
  <2> QED
    BY <1>4, <1>7, <2>1
<1>9. syn \in S /\ syn_ack \in S
  BY <1>1 DEF Control, Packets
<1>10. Ticks(p, control_due, due) = first \o ones
  BY DEF Ticks
<1> HIDE DEF syn, syn_ack, S, ones
<1>11. first \in Seq(S)
  <2>1. <<syn>> \in Seq(S) /\ <<syn_ack>> \in Seq(S) /\ <<>> \in Seq(S)
    BY <1>9
  <2>2. first \in {<<syn>>, <<syn_ack>>, <<>>}
    OBVIOUS
  <2> HIDE DEF first
  <2> QED
    BY <2>1, <2>2
<1> HIDE DEF first
<1>12. first \o ones \in Seq(S)
  BY <1>8, <1>11, ConcatProperties
<1> QED
  BY <1>10, <1>12 DEF S

LEMMA PumpEndsHolds ==
  ASSUME StreamsInv, NEW p \in Peers, PumpEnds(p, FALSE)
  PROVE  StreamsInv'
<1> DEFINE d == side[p]
           o == side[Other(p)]
           e == [d EXCEPT !.pumping = FALSE]
           q == link[p].queue
           ls == [link EXCEPT ![p].queue = IF q = <<>> THEN q ELSE Tail(q)]
<1>1. d \in Sides /\ InStep(d, o) /\ OwnParity(p, d) /\ DOMAIN link = Peers /\ link[p] \in Links(o)
  BY Here
<1>2. PICK control_due \in BOOLEAN, some \in SUBSET Unacked(d) :
        \E due \in SetToSeqs(some) : Transmit(p, ls, Ticks(p, control_due, due), FALSE)
  BY DEF PumpEnds
<1>3. PICK due \in SetToSeqs(some) : Transmit(p, ls, Ticks(p, control_due, due), FALSE)
  BY <1>2
<1>4. side' = [side EXCEPT ![p] = e]
  BY DEF PumpEnds, Become
<1>5. DOMAIN ls = Peers /\ ls[p] \in Links(o) /\ ls[Other(p)] = link[Other(p)]
  <2>1. CASE q = <<>>
    <3>1. ls[p] = [link[p] EXCEPT !.queue = q] /\ DOMAIN ls = Peers /\ ls[Other(p)] = link[Other(p)]
      BY <1>1, <2>1, Here
    <3>2. [link[p] EXCEPT !.queue = q] = link[p]
      BY <1>1 DEF Links
    <3> QED
      BY <1>1, <3>1, <3>2
  <2>2. CASE q # <<>>
    <3>1. ls = [link EXCEPT ![p].queue = Tail(link[p].queue)]
      BY <2>2
    <3> HIDE DEF ls
    <3> QED
      BY <2>2, <3>1, ReadHead
  <2> QED
    BY <2>1, <2>2
<1> HIDE DEF ls, q
<1>6. /\ e \in Sides /\ e.endpoints = d.endpoints /\ e.mux_id = d.mux_id /\ e.buffers = d.buffers
      /\ e.next_open = d.next_open /\ e.opened = d.opened
  BY <1>1 DEF Sides
<1> HIDE DEF e
<1>7. Grows(d, e) /\ InStep(e, o) /\ OwnParity(p, e)
  BY <1>1, <1>6, QuietSide
<1> DEFINE out == Ticks(p, control_due, due)
<1>8. out \in Seq(Packets(d))
  <2>1. some \subseteq Unacked(side[p])
    BY <1>2
  <2> QED
    BY <1>1, <2>1, TicksArePackets
<1>9. Transmit(p, ls, out, FALSE)
  BY <1>3
<1> HIDE DEF out
<1>10. out \in Seq(Packets(e))
  <2> DEFINE S == Packets(d)
             T == Packets(e)
  <2>1. S \subseteq T
    BY <1>7, LinksGrow
  <2> HIDE DEF S, T
  <2>2. out \in Seq(S)
    BY <1>8 DEF S
  <2>3. out \in Seq(T)
    BY <2>1, <2>2
  <2> QED
    BY <2>3 DEF T
<1>11. FALSE \in BOOLEAN
  OBVIOUS
<1> QED
  BY <1>4, <1>5, <1>6, <1>7, <1>9, <1>10, <1>11, SendingHolds

----------------------------------------------------------------------------
(* The invariant holds from the beginning, and says what was promised.     *)

LEMMA InitHolds ==
  ASSUME Init
  PROVE  StreamsInv
<1>1. <<>> \in Dicts(Endpoints) /\ <<>> \in Dicts(Chunks)
  <2>1. {} \in {E \in SUBSET Streams : IsFiniteSet(E)}
    BY FS_EmptySet
  <2>2. ASSUME NEW V PROVE <<>> \in Dicts(V)
    <3>1. <<>> \in [{} -> V]
      OBVIOUS
    <3> QED
      BY <2>1, <3>1 DEF Dicts
  <2> QED
    BY <2>2
<1>2. ASSUME NEW p \in Peers, NEW id \in Ids
      PROVE  /\ NewSide(p, id) \in Sides /\ NewSide(p, id).endpoints = <<>> /\ NewSide(p, id).buffers = <<>>
             /\ NewSide(p, id).next_open = FirstOpenId(p) /\ NewSide(p, id).opened = {}
  <2>1. FirstOpenId(p) \in Nat
    BY DEF FirstOpenId
  <2> DEFINE dict == <<>>
  <2>2. /\ dict \in Dicts(Endpoints) /\ dict \in Dicts(Chunks)
        /\ NewSide(p, id) = [mux_id |-> id, endpoints |-> dict, next_open |-> FirstOpenId(p), opened |-> {},
                              state |-> "CLOSED", id |-> id, pumping |-> FALSE, buffers |-> dict, sends |-> 0, leaves |-> 0]
    BY <1>1 DEF NewSide
  <2> HIDE DEF dict
  <2>3. NewSide(p, id) \in Sides
    BY <2>1, <2>2 DEF Sides, States
  <2> QED
    BY <2>2, <2>3 DEF dict
<1>3. ASSUME NEW p \in Peers PROVE \E id \in Ids : side[p] = NewSide(p, id)
  BY DEF Init, Ids
<1>4. side \in [Peers -> Sides]
  <2>1. side = [p \in Peers |-> side[p]]
    BY DEF Init
  <2> QED
    BY <1>2, <1>3, <2>1
<1>5. ASSUME NEW p \in Peers
      PROVE  side[p].endpoints = <<>> /\ side[p].buffers = <<>> /\ side[p].next_open = FirstOpenId(p) /\ side[p].opened = {}
  BY <1>2, <1>3
<1>6. DOMAIN link = Peers /\ \A p \in Peers : link[p] \in Links(side[Other(p)])
  BY DEF Init, NewChannels, Links
<1>7. ASSUME NEW p \in Peers PROVE InStep(side[p], side[Other(p)])
  <2> SUFFICES ASSUME NEW s \in Streams
               PROVE  LET got == Endpoint(side[p], s).got
                      IN  /\ Len(Buffer(side[p], s)) = got
                          /\ got <= Len(Endpoint(side[Other(p)], s).queued)
                          /\ \A i \in 1..got : Buffer(side[p], s)[i] = Endpoint(side[Other(p)], s).queued[i]
                          /\ Endpoint(side[p], s).acked <= Endpoint(side[Other(p)], s).got
    BY DEF InStep
  <2>1. Other(p) \in Peers
    BY Others
  <2>2. /\ Endpoint(side[p], s).got = 0 /\ Buffer(side[p], s) = <<>> /\ Endpoint(side[Other(p)], s).queued = <<>>
        /\ Endpoint(side[p], s).acked = 0 /\ Endpoint(side[Other(p)], s).got = 0
    BY <1>5, <2>1 DEF Endpoint, NewEndpoint, Buffer
  <2> QED
    BY <2>2
<1>8. ASSUME NEW p \in Peers PROVE OwnParity(p, side[p])
  <2>1. FirstOpenId(p) = FirstOpenId(p) + 2 * 0
    BY DEF FirstOpenId
  <2> QED
    BY <1>5, <2>1 DEF OwnParity, OfParity
<1> QED
  BY <1>4, <1>6, <1>7, <1>8 DEF StreamsInv

LEMMA NextHolds ==
  ASSUME StreamsInv, [Next]_vars
  PROVE  StreamsInv'
<1>1. CASE UNCHANGED vars
  BY <1>1 DEF vars, StreamsInv
<1>2. CASE Next
  <2>1. PICK p \in Peers :
          \/ Connect(p) \/ OpenStream(p) \/ Leave(p)
          \/ \E s \in DOMAIN side[p].endpoints \cup {DEFAULT_STREAM_ID} : SendOn(p, s)
          \/ PumpBegins(p) \/ RoutePacket(p, FALSE) \/ DropMalformed(p) \/ PumpEnds(p, FALSE)
    BY <1>2 DEF Next
  <2> QED
    BY <2>1, ConnectHolds, OpenStreamHolds, LeaveHolds, SendOnHolds, PumpBeginsHolds, RoutePacketHolds,
       DropMalformedHolds, PumpEndsHolds
<1> QED
  BY <1>1, <1>2

LEMMA ParityDiffers ==
  ASSUME NEW s, OfParity(Initiator, s)
  PROVE  ~OfParity(Responder, s)
<1>1. FirstOpenId(Initiator) = 3 /\ FirstOpenId(Responder) = 2
  BY DataPlaneAssumption DEF FirstOpenId
<1>2. \A j \in Nat, k \in Nat : 3 + 2 * j # 2 + 2 * k
  OBVIOUS
<1> QED
  BY <1>1, <1>2 DEF OfParity

LEMMA Intact ==
  ASSUME StreamsInv
  PROVE  StreamsIntact
<1>1. ASSUME NEW p \in Peers, NEW s \in StreamsUsed
      PROVE  IsPrefix(ArrivedOn(p, s), SentOn(Other(p), s))
  <2> DEFINE d == side[p]
             o == side[Other(p)]
             r == ArrivedOn(p, s)
             sent == SentOn(Other(p), s)
  <2>1. /\ d \in Sides /\ o \in Sides /\ InStep(d, o)
    BY Here
  <2>2. s \in Streams
    <3>1. PICK q \in Peers : s \in DOMAIN side[q].endpoints
      BY DEF StreamsUsed
    <3>2. side[q] \in Sides
      BY Here
    <3>3. DEFAULT_STREAM_ID \in Streams
      BY DEF DEFAULT_STREAM_ID, Streams, CONTROL_STREAM_ID
    <3> QED
      BY <3>1, <3>2, <3>3, EndpointType
  <2>3. r = Buffer(d, s) /\ sent = Endpoint(o, s).queued
    BY DEF ArrivedOn, SentOn, Buffer, Endpoint, NewEndpoint
  <2>4. r \in Seq(ChunkNames) /\ sent \in Seq(ChunkNames)
    BY <2>1, <2>2, <2>3, EndpointType
  <2>5. Len(r) <= Len(sent) /\ \A i \in 1..Len(r) : r[i] = sent[i]
    BY <2>1, <2>2, <2>3 DEF InStep
  <2> HIDE DEF r, sent
  <2>6. SubSeq(sent, 1, Len(r)) = r
    <3>1. Len(r) \in Nat /\ Len(sent) \in Nat /\ r = [i \in 1..Len(r) |-> r[i]]
      BY <2>4
    <3>2. SubSeq(sent, 1, Len(r)) = [i \in 1..Len(r) |-> sent[i]]
      BY <2>4, <2>5, <3>1
    <3> QED
      BY <2>5, <3>1, <3>2
  <2> QED
    BY <2>5, <2>6 DEF IsPrefix, r, sent
<1>2. ASSUME NEW p \in Peers, NEW s \in DOMAIN side[p].endpoints
      PROVE  side[p].endpoints[s].acked <= Len(ArrivedOn(Other(p), s))
  <2>1. /\ side[p] \in Sides /\ Other(p) \in Peers /\ Other(Other(p)) = p
    BY Here, Others
  <2>2. s \in Streams
    <3>1. DEFAULT_STREAM_ID \in Streams
      BY DEF DEFAULT_STREAM_ID, Streams, CONTROL_STREAM_ID
    <3> QED
      BY <2>1, <3>1, EndpointType
  <2>3. Endpoint(side[p], s).acked <= Endpoint(side[Other(p)], s).got
    BY <2>2, Here DEF InStep
  <2>4. Len(Buffer(side[Other(p)], s)) = Endpoint(side[Other(p)], s).got
    BY <2>1, <2>2, Here DEF InStep
  <2>5. Endpoint(side[p], s) = side[p].endpoints[s] /\ ArrivedOn(Other(p), s) = Buffer(side[Other(p)], s)
    BY DEF Endpoint, ArrivedOn, Buffer
  <2> QED
    BY <2>3, <2>4, <2>5
<1>3. side[Initiator].opened \cap side[Responder].opened = {}
  <2>1. OwnParity(Initiator, side[Initiator]) /\ OwnParity(Responder, side[Responder])
    BY DEF StreamsInv, Peers
  <2> QED
    BY <2>1, ParityDiffers DEF OwnParity
<1> QED
  BY <1>1, <1>2, <1>3 DEF StreamsIntact

\* What arrives on a stream is what was sent on it, in order and once: SetSessionId keeps
\* the endpoints with their numbers (mux.py:209-228), a frame of another session changes
\* nothing but that its stream exists, and both peers give their own parity to the streams
\* they open (mux.py:162-197, 247-255).  An acknowledgement never runs ahead of what arrived,
\* since endpoints outlive sessions and their counts only grow.  None of it leans on the
\* handshake, on who has read what of which session, or on the channel keeping an order
\* (session.py:506-518).
THEOREM StreamsStayIntact == Spec => []StreamsIntact
<1>1. Init => StreamsInv
  BY InitHolds
<1>2. StreamsInv /\ [Next]_vars => StreamsInv'
  BY NextHolds
<1>3. StreamsInv => StreamsIntact
  BY Intact
<1> QED
  BY <1>1, <1>2, <1>3, PTL DEF Spec
=============================================================================
