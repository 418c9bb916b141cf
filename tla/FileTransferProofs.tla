-------------------------- MODULE FileTransferProofs --------------------------
(***************************************************************************)
(* The safety of FileTransfer, for files of any number of chunks.          *)
(***************************************************************************)
EXTENDS FileTransfer, SequenceTheorems, TLAPS

(* A transfer is at any moment in one of these phases: which states the    *)
(* two ends are in and what is in flight between them determine each       *)
(* other.                                                                  *)
At(s, r) == sender = s /\ receiver = r

Flight(toSender, toReceiver) ==
    stream["sender"] = toSender /\ stream["receiver"] = toReceiver

Untouched == buffer = << >> /\ ~ verified

NotStarted == At("IDLE", "IDLE") /\ Flight(<< >>, << >>) /\ Untouched

Offered ==
    /\ At("OFFERED", "IDLE")
    /\ \E body \in Files \cup {OtherFile, Malformed} :
          Flight(<< >>, <<Frame("OFFER", body)>>)
    /\ Untouched

LeftOpen ==    \* the receiver could not answer, or would not
    At("OFFERED", "IDLE") /\ Flight(<< >>, << >>) /\ Untouched

Accepted ==
    At("OFFERED", "RECEIVING") /\ Flight(<<Control("ACCEPT")>>, << >>) /\ Untouched

Refused == At("OFFERED", "FAILED") /\ Flight(<<Control("REJECT")>>, << >>)

GivenUp ==    \* the sender could not send
    At("SENDING", "RECEIVING") /\ Flight(<< >>, << >>) /\ Untouched

(* What is still to come when the receiver has the first k chunks.         *)
Rest(k) ==
    [i \in 1 .. Len(data) - k + 1 |->
        IF i <= Len(data) - k THEN Frame("CHUNK", <<data[k + i]>>) ELSE Control("DONE")]

Flowing ==
    /\ At("DONE_SENT", "RECEIVING")
    /\ \E k \in 0 .. Len(data) :
          /\ Flight(<< >>, Rest(k))
          /\ buffer = SubSeq(data, 1, k)

Unanswered ==    \* the receiver could not tell its verdict
    /\ At("DONE_SENT", "RECEIVING")
    /\ Flight(<< >>, << >>)
    /\ buffer = data
    /\ ~ established["receiver"]

Match == buffer = data /\ expected = data /\ verified

Verified == At("DONE_SENT", "COMPLETE") /\ Flight(<<Control("ACK")>>, << >>) /\ Match

Refuted == At("DONE_SENT", "FAILED") /\ Flight(<<Control("NACK")>>, << >>)

Completed == At("COMPLETE", "COMPLETE") /\ Flight(<< >>, << >>) /\ Match

Failed == At("FAILED", "FAILED") /\ Flight(<< >>, << >>)

Phase ==
    \/ NotStarted \/ Offered \/ LeftOpen \/ Accepted \/ Refused \/ GivenUp
    \/ Flowing \/ Unanswered \/ Verified \/ Refuted \/ Completed \/ Failed

IInv == TypeOK /\ Phase

-----------------------------------------------------------------------------
(* Sequences.                                                              *)

(* What handling the only frame in flight leaves.                          *)
LEMMA OneFrame ==
    ASSUME NEW x
    PROVE  /\ <<x>> # << >>
           /\ Head(<<x>>) = x
           /\ Tail(<<x>>) = << >>
           /\ \A k \in 1 .. Len(<<x>>) : SubSeq(<<x>>, k + 1, Len(<<x>>)) = << >>
           /\ Append(<< >>, x) = <<x>>
           /\ << >> \o <<x>> = <<x>>
<1>1. /\ <<x>> # << >>
      /\ Head(<<x>>) = x
      /\ Tail(<<x>>) = << >>
      /\ Append(<< >>, x) = <<x>>
  BY SMT
<1>2. ASSUME NEW k \in 1 .. Len(<<x>>)
      PROVE  SubSeq(<<x>>, k + 1, Len(<<x>>)) = << >>
  <2>1. Len(<<x>>) = 1 /\ <<x>> \in Seq({x})  BY SMT
  <2>2. k = 1  BY <2>1, SMT
  <2> QED  BY <2>1, <2>2, SubSeqEmpty, SMT
<1>3. << >> \o <<x>> = <<x>>
  <2>1. <<x>> \in Seq({x})  BY SMT
  <2> QED  BY <2>1, ConcatEmptySeq
<1> QED  BY <1>1, <1>2, <1>3

(* A file is a sequence of chunks.                                         *)
LEMMA FileIsSeq ==
    ASSUME NEW d \in Files
    PROVE  d \in Seq(Chunks) /\ Len(d) \in Nat
<1>1. PICK n \in 0 .. MaxChunks : d = [i \in 1 .. n |-> i]
  BY DEF Files
<1>2. n \in Nat /\ \A i \in 1 .. n : i \in Chunks
  BY <1>1, TransferAssumption, SMT DEF Chunks
<1>3. d \in Seq(Chunks)
  BY <1>1, <1>2, SMT
<1> QED  BY <1>3, LenProperties

(* Chunks received grow by the next one.                                   *)
LEMMA NextPrefix ==
    ASSUME NEW d \in Files, NEW k \in 0 .. Len(d), k < Len(d)
    PROVE  /\ d[k + 1] \in Chunks
           /\ SubSeq(d, 1, k) \o <<d[k + 1]>> = SubSeq(d, 1, k + 1)
<1>1. d \in Seq(Chunks) /\ Len(d) \in Nat
  BY FileIsSeq
<1>2. k + 1 \in 1 .. Len(d) /\ 1 \in 1 .. Len(d) /\ (k + 1) - 1 = k
  BY <1>1, SMT
<1>3. d[k + 1] \in Chunks
  BY <1>1, <1>2, ElementOfSeq
<1>4. k + 1 \in 1 .. Len(d)
  BY <1>2
<1>5. SubSeq(d, 1, k + 1) = SubSeq(d, 1, (k + 1) - 1) \o <<d[k + 1]>>
  BY <1>1, <1>2, SubSeqRecursiveSecond
<1> QED  BY <1>2, <1>3, <1>5

(* The frames still to come.                                               *)
LEMMA RestIsSeq ==
    ASSUME data \in Files, NEW k \in 0 .. Len(data)
    PROVE  /\ Rest(k) \in Seq(FrameSet)
           /\ Len(Rest(k)) = Len(data) - k + 1
           /\ Rest(k) # << >>
<1> DEFINE n == Len(data) - k + 1
<1>1. data \in Seq(Chunks) /\ Len(data) \in Nat
  BY FileIsSeq
<1>2. n \in Nat /\ n > 0
  BY <1>1, SMT
<1>3. ASSUME NEW i \in 1 .. n
      PROVE  (IF i <= Len(data) - k THEN Frame("CHUNK", <<data[k + i]>>)
              ELSE Control("DONE")) \in FrameSet
  <2>1. CASE i <= Len(data) - k
    <3>1. k + i \in 1 .. Len(data)  BY <1>1, <2>1, SMT
    <3>2. data[k + i] \in Chunks  BY <1>1, <3>1, ElementOfSeq
    <3>3. <<data[k + i]>> \in Pieces  BY <3>2 DEF Pieces
    <3> QED  BY <2>1, <3>3 DEF Frame, FrameSet, FrameTypes
  <2>2. CASE ~ (i <= Len(data) - k)
    BY <2>2 DEF Control, Frame, FrameSet, FrameTypes
  <2> QED  BY <2>1, <2>2
<1>4. Rest(k) \in Seq(FrameSet) /\ Len(Rest(k)) = n
  <2>1. Rest(k) \in [1 .. n -> FrameSet]
    BY <1>3, Zenon DEF Rest
  <2> QED  BY <1>2, <2>1, SMT
<1>5. Rest(k) # << >>
  BY <1>2, <1>4, SMT
<1> QED  BY <1>4, <1>5

(* The first of them, and those behind it.                                 *)
LEMMA RestSteps ==
    ASSUME data \in Files, NEW k \in 0 .. Len(data)
    PROVE  /\ k < Len(data) => /\ Head(Rest(k)) = Frame("CHUNK", <<data[k + 1]>>)
                               /\ Tail(Rest(k)) = Rest(k + 1)
           /\ k = Len(data) => Rest(k) = <<Control("DONE")>>
<1>1. data \in Seq(Chunks) /\ Len(data) \in Nat /\ k \in Nat
  BY FileIsSeq, SMT
<1>2. /\ Rest(k) \in Seq(FrameSet) /\ Len(Rest(k)) = Len(data) - k + 1
      /\ Rest(k) # << >>
  BY RestIsSeq
<1>3. ASSUME k < Len(data)
      PROVE  Head(Rest(k)) = Frame("CHUNK", <<data[k + 1]>>)
  <2>1. Head(Rest(k)) = Rest(k)[1]
    BY <1>2, SMT
  <2>2. 1 \in 1 .. Len(data) - k + 1 /\ 1 <= Len(data) - k
    BY <1>1, <1>3, SMT
  <2> QED  BY <2>1, <2>2 DEF Rest
<1>4. ASSUME k < Len(data)
      PROVE  Tail(Rest(k)) = Rest(k + 1)
  <2>1. k + 1 \in 0 .. Len(data)
    BY <1>1, <1>4, SMT
  <2>2. /\ Rest(k + 1) \in Seq(FrameSet)
        /\ Len(Rest(k + 1)) = Len(data) - (k + 1) + 1
    BY <2>1, RestIsSeq
  <2>3. /\ Tail(Rest(k)) \in Seq(FrameSet)
        /\ Len(Tail(Rest(k))) = Len(Rest(k)) - 1
        /\ \A i \in 1 .. Len(Tail(Rest(k))) : Tail(Rest(k))[i] = Rest(k)[i + 1]
    BY <1>2, HeadTailProperties
  <2>4. Len(Tail(Rest(k))) = Len(Rest(k + 1))
    BY <1>1, <1>2, <2>2, <2>3, SMT
  <2>5. ASSUME NEW i \in 1 .. Len(Tail(Rest(k)))
        PROVE  Tail(Rest(k))[i] = Rest(k + 1)[i]
    <3>1. /\ i + 1 \in 1 .. Len(data) - k + 1
          /\ i \in 1 .. Len(data) - (k + 1) + 1
          /\ k + (i + 1) = (k + 1) + i
          /\ (i + 1 <= Len(data) - k) <=> (i <= Len(data) - (k + 1))
      BY <1>1, <1>2, <2>3, SMT
    <3> QED  BY <2>3, <3>1 DEF Rest
  <2> QED  BY <2>2, <2>3, <2>4, <2>5, SeqEqual
<1>5. ASSUME k = Len(data)
      PROVE  Rest(k) = <<Control("DONE")>>
  <2>1. Len(Rest(k)) = 1
    BY <1>1, <1>2, <1>5, SMT
  <2>2. 1 \in 1 .. Len(data) - k + 1 /\ ~ (1 <= Len(data) - k)
    BY <1>1, <1>5, SMT
  <2>3. Rest(k)[1] = Control("DONE")
    BY <2>2 DEF Rest
  <2>4. Control("DONE") \in FrameSet
    BY DEF Control, Frame, FrameSet, FrameTypes
  <2>5. /\ <<Control("DONE")>> \in Seq(FrameSet)
        /\ Len(<<Control("DONE")>>) = 1
        /\ <<Control("DONE")>>[1] = Control("DONE")
    BY <2>4, SMT
  <2>6. \A i \in 1 .. Len(Rest(k)) : Rest(k)[i] = <<Control("DONE")>>[i]
    BY <2>1, <2>3, <2>5, SMT
  <2> QED  BY <1>2, <2>1, <2>5, <2>6, SeqEqual
<1> QED  BY <1>3, <1>4, <1>5

(* They are what is sent of the chunks not yet received.                   *)
LEMMA RestIsSent ==
    ASSUME data \in Files, NEW k \in 0 .. Len(data)
    PROVE  ChunksAndDone(SubSeq(data, k + 1, Len(data))) = Rest(k)
<1> DEFINE d == SubSeq(data, k + 1, Len(data))
           m == Len(data) - k
           chunks == [i \in 1 .. Len(d) |-> Frame("CHUNK", <<d[i]>>)]
<1>1. data \in Seq(Chunks) /\ Len(data) \in Nat /\ k \in Nat /\ m \in Nat
  BY FileIsSeq, SMT
<1>2. \A i \in k + 1 .. Len(data) : data[i] \in Chunks
  <2>1. \A i \in k + 1 .. Len(data) : i \in 1 .. Len(data)  BY <1>1, SMT
  <2> QED  BY <1>1, <2>1, ElementOfSeq
<1>3. /\ d \in Seq(Chunks) /\ Len(d) = m
      /\ \A i \in 1 .. m : d[i] = data[k + i]
  <2>1. k + 1 \in Int /\ Len(data) \in Int  BY <1>1, SMT
  <2>2. /\ d \in Seq(Chunks)
        /\ Len(d) = IF k + 1 <= Len(data) THEN Len(data) - (k + 1) + 1 ELSE 0
        /\ \A i \in 1 .. Len(data) - (k + 1) + 1 : d[i] = data[(k + 1) + i - 1]
    BY <1>2, <2>1, SubSeqProperties
  <2>3. /\ Len(data) - (k + 1) + 1 = m
        /\ \A i \in 1 .. m : (k + 1) + i - 1 = k + i
        /\ k + 1 <= Len(data) \/ m = 0
    BY <1>1, SMT
  <2> HIDE DEF d, m
  <2>4. Len(d) = m
    BY <2>2, <2>3
  <2> QED  BY <2>2, <2>3, <2>4
<1>4. ASSUME NEW i \in 1 .. m
      PROVE  /\ chunks[i] = Frame("CHUNK", <<data[k + i]>>)
             /\ chunks[i] \in FrameSet
  <2>1. d[i] \in Chunks /\ d[i] = data[k + i]
    BY <1>3, ElementOfSeq
  <2>2. <<d[i]>> \in Pieces
    BY <2>1 DEF Pieces
  <2> QED  BY <1>3, <2>1, <2>2 DEF Frame, FrameSet, FrameTypes
<1>5. chunks \in Seq(FrameSet) /\ Len(chunks) = m
  <2>1. chunks \in [1 .. m -> FrameSet]
    BY <1>3, <1>4, Zenon
  <2> HIDE DEF chunks, m
  <2> QED  BY <1>1, <2>1, SMT
<1>6. Control("DONE") \in FrameSet
  BY DEF Control, Frame, FrameSet, FrameTypes
<1> HIDE DEF chunks
<1>7. /\ Append(chunks, Control("DONE")) \in Seq(FrameSet)
      /\ Len(Append(chunks, Control("DONE"))) = m + 1
      /\ \A i \in 1 .. m : Append(chunks, Control("DONE"))[i] = chunks[i]
      /\ Append(chunks, Control("DONE"))[m + 1] = Control("DONE")
  BY <1>5, <1>6, AppendProperties
<1>8. Rest(k) \in Seq(FrameSet) /\ Len(Rest(k)) = m + 1
  BY RestIsSeq
<1>9. ASSUME NEW i \in 1 .. m + 1
      PROVE  Append(chunks, Control("DONE"))[i] = Rest(k)[i]
  <2>1. i \in 1 .. Len(data) - k + 1 /\ (i <= m \/ i = m + 1) /\ ~ (m + 1 <= m)
    BY <1>1, SMT
  <2>2. CASE i <= m
    <3>1. i \in 1 .. m  BY <1>1, <2>2, SMT
    <3> QED  BY <1>4, <1>7, <2>1, <2>2, <3>1 DEF Rest
  <2>3. CASE i = m + 1
    BY <1>7, <2>1, <2>3 DEF Rest
  <2> QED  BY <2>1, <2>2, <2>3
<1>10. Append(chunks, Control("DONE")) = Rest(k)
  BY <1>7, <1>8, <1>9, SeqEqual
<1> QED  BY <1>10 DEF ChunksAndDone, chunks

LEMMA RestOfNone ==
    ASSUME data \in Files
    PROVE  ChunksAndDone(data) = Rest(0)
<1>1. data \in Seq(Chunks) /\ Len(data) \in Nat
  BY FileIsSeq
<1>2. SubSeq(data, 0 + 1, Len(data)) = data
  BY <1>1, SubSeqFull, SMT
<1>3. 0 \in 0 .. Len(data)
  BY <1>1, SMT
<1> QED  BY <1>2, <1>3, RestIsSent

-----------------------------------------------------------------------------
(* What handling a frame does to the streams.                              *)

LEMMA FramesTyped ==
    /\ \A type \in FrameTypes : Control(type) \in FrameSet
    /\ \A type \in FrameTypes : <<Control(type)>> \in Seq(FrameSet)
    /\ \A body \in Files \cup {OtherFile, Malformed} : Frame("OFFER", body) \in FrameSet
<1>1. \A type \in FrameTypes : Control(type) \in FrameSet
  BY DEF Control, Frame, FrameSet
<1>2. \A f \in FrameSet : <<f>> \in Seq(FrameSet)
  BY SMT
<1>3. \A body \in Files \cup {OtherFile, Malformed} : Frame("OFFER", body) \in FrameSet
  BY DEF Frame, FrameSet, FrameTypes
<1> QED  BY <1>1, <1>2, <1>3

LEMMA ConsumeEffect ==
    ASSUME stream \in [Ends -> Seq(FrameSet)], NEW e \in Ends,
           stream[e] # << >>, Consume(e)
    PROVE  /\ stream' \in [Ends -> Seq(FrameSet)]
           /\ stream'[e] = Tail(stream[e])
           /\ stream'[Other(e)] = stream[Other(e)]
<1>1. Other(e) \in Ends /\ Other(e) # e
  BY DEF Other, Ends
<1>2. Tail(stream[e]) \in Seq(FrameSet)
  BY HeadTailProperties
<1> QED  BY <1>1, <1>2 DEF Consume

LEMMA AnswerEffect ==
    ASSUME stream \in [Ends -> Seq(FrameSet)], NEW e \in Ends,
           stream[e] # << >>, stream[Other(e)] = << >>,
           NEW frames \in Seq(FrameSet), Answer(e, frames)
    PROVE  /\ stream' \in [Ends -> Seq(FrameSet)]
           /\ stream'[e] = Tail(stream[e])
           /\ stream'[Other(e)] = frames
<1>1. Other(e) \in Ends /\ Other(e) # e
  BY DEF Other, Ends
<1>2. Tail(stream[e]) \in Seq(FrameSet)
  BY HeadTailProperties
<1>3. stream[Other(e)] \o frames = frames
  BY ConcatEmptySeq
<1>4. stream' = [stream EXCEPT ![e] = Tail(stream[e]),
                               ![Other(e)] = stream[Other(e)] \o frames]
  BY <1>1 DEF Answer
<1> QED  BY <1>1, <1>2, <1>3, <1>4

LEMMA RaiseEffect ==
    ASSUME stream \in [Ends -> Seq(FrameSet)], NEW e \in Ends,
           NEW x, stream[e] = <<x>>, Raise(e)
    PROVE  /\ ~ established[e]
           /\ stream' \in [Ends -> Seq(FrameSet)]
           /\ stream'[e] = << >>
           /\ stream'[Other(e)] = stream[Other(e)]
<1>1. Other(e) \in Ends /\ Other(e) # e
  BY DEF Other, Ends
<1>2. PICK k \in 1 .. Len(stream[e]) :
         stream' = [stream EXCEPT ![e] = SubSeq(@, k + 1, Len(@))]
  BY DEF Raise
<1>3. SubSeq(stream[e], k + 1, Len(stream[e])) = << >>
  BY <1>2, OneFrame
<1>4. << >> \in Seq(FrameSet)
  BY EmptySeq
<1> QED  BY <1>1, <1>2, <1>3, <1>4 DEF Raise

-----------------------------------------------------------------------------
(* The frame that arrives tells the phase.                                 *)

LEMMA ArrivalAtSender ==
    ASSUME Phase, stream["sender"] # << >>
    PROVE  \/ Accepted /\ Head(stream["sender"]).type = "ACCEPT"
           \/ Refused /\ Head(stream["sender"]).type = "REJECT"
           \/ Verified /\ Head(stream["sender"]).type = "ACK"
           \/ Refuted /\ Head(stream["sender"]).type = "NACK"
<1>1. Accepted \/ Refused \/ Verified \/ Refuted
  BY DEF Phase, Flight, NotStarted, Offered, LeftOpen, GivenUp, Flowing,
         Unanswered, Completed, Failed
<1>2. Accepted => Head(stream["sender"]).type = "ACCEPT"
  BY OneFrame DEF Accepted, Flight, Control, Frame
<1>3. Refused => Head(stream["sender"]).type = "REJECT"
  BY OneFrame DEF Refused, Flight, Control, Frame
<1>4. Verified => Head(stream["sender"]).type = "ACK"
  BY OneFrame DEF Verified, Flight, Control, Frame
<1>5. Refuted => Head(stream["sender"]).type = "NACK"
  BY OneFrame DEF Refuted, Flight, Control, Frame
<1> QED  BY <1>1, <1>2, <1>3, <1>4, <1>5

LEMMA ArrivalAtReceiver ==
    ASSUME data \in Files, Phase, stream["receiver"] # << >>
    PROVE  \/ Offered /\ Head(stream["receiver"]).type = "OFFER"
           \/ Flowing /\ Head(stream["receiver"]).type \in {"CHUNK", "DONE"}
<1>1. Offered \/ Flowing
  BY DEF Phase, Flight, NotStarted, LeftOpen, Accepted, Refused, GivenUp,
         Unanswered, Verified, Refuted, Completed, Failed
<1>2. Offered => Head(stream["receiver"]).type = "OFFER"
  BY OneFrame DEF Offered, Flight, Frame
<1>3. ASSUME Flowing
      PROVE  Head(stream["receiver"]).type \in {"CHUNK", "DONE"}
  <2>1. PICK k \in 0 .. Len(data) : stream["receiver"] = Rest(k)
    BY <1>3 DEF Flowing, Flight
  <2>2. k < Len(data) \/ k = Len(data)
    BY <2>1, FileIsSeq, SMT
  <2> QED  BY <2>1, <2>2, RestSteps, OneFrame DEF Control, Frame
<1> QED  BY <1>1, <1>2, <1>3

-----------------------------------------------------------------------------
(* Each step of the sender preserves the invariant.                        *)

LEMMA StartStep ==
    ASSUME IInv, NEW body \in {data, OtherFile, Malformed}, Start(body)
    PROVE  IInv'
<1> USE DEF IInv, TypeOK
<1>1. NotStarted
  BY DEF Start, Phase, At, Offered, LeftOpen, Accepted, Refused, GivenUp, Flowing,
         Unanswered, Verified, Refuted, Completed, Failed
<1> DEFINE offer == Frame("OFFER", body)
<1>2. offer \in FrameSet /\ body \in Files \cup {OtherFile, Malformed}
  BY FramesTyped
<1>3. <<offer>> \in Seq(FrameSet)
  BY <1>2, SMT
<1>4. stream' = [stream EXCEPT !["receiver"] = <<offer>>]
  BY <1>1, OneFrame DEF Start, NotStarted, Flight
<1>5. /\ stream' \in [Ends -> Seq(FrameSet)]
      /\ stream'["receiver"] = <<offer>>
      /\ stream'["sender"] = << >>
  BY <1>1, <1>3, <1>4 DEF NotStarted, Flight, Ends
<1>6. TypeOK'
  BY <1>5 DEF Start, arguments, receiverVars, SenderStates
<1>7. Offered'
  BY <1>1, <1>2, <1>5
  DEF Start, Offered, NotStarted, At, Flight, Untouched, arguments, receiverVars
<1> QED  BY <1>6, <1>7 DEF Phase

LEMMA OnAcceptStep ==
    ASSUME IInv, OnAccept
    PROVE  IInv'
<1> USE DEF IInv, TypeOK
<1>1. Accepted
  BY ArrivalAtSender DEF OnAccept, Arrived
<1>2. /\ "sender" \in Ends /\ Other("sender") = "receiver"
      /\ stream["sender"] = <<Control("ACCEPT")>> /\ stream["receiver"] = << >>
      /\ stream["sender"] # << >> /\ Tail(stream["sender"]) = << >>
  BY <1>1, OneFrame DEF Ends, Other, Accepted, Flight
<1>3. CASE Answer("sender", ChunksAndDone(data)) /\ sender' = "DONE_SENT"
  <2>1. 0 \in 0 .. Len(data) /\ SubSeq(data, 1, 0) = << >>
    BY FileIsSeq, SubSeqEmpty, SMT
  <2>2. ChunksAndDone(data) = Rest(0) /\ Rest(0) \in Seq(FrameSet)
    BY <2>1, RestOfNone, RestIsSeq
  <2>3. /\ stream' \in [Ends -> Seq(FrameSet)]
        /\ stream'["sender"] = << >>
        /\ stream'["receiver"] = Rest(0)
    BY <1>2, <1>3, <2>2, AnswerEffect
  <2>4. TypeOK'
    BY <1>3, <2>3 DEF OnAccept, arguments, receiverVars, SenderStates
  <2>5. Rest(0)' = Rest(0) /\ data' = data
    BY DEF OnAccept, arguments, Rest
  <2>6. Flowing'
    BY <1>1, <1>3, <2>1, <2>3, <2>5
    DEF OnAccept, Flowing, Accepted, At, Flight, Untouched, arguments, receiverVars
  <2> QED  BY <2>4, <2>6 DEF Phase
<1>4. CASE Raise("sender") /\ sender' = "SENDING"
  <2>1. /\ stream' \in [Ends -> Seq(FrameSet)]
        /\ stream'["sender"] = << >>
        /\ stream'["receiver"] = << >>
    BY <1>2, <1>4, RaiseEffect
  <2>2. TypeOK'
    BY <1>4, <2>1 DEF OnAccept, arguments, receiverVars, SenderStates
  <2>3. GivenUp'
    BY <1>1, <1>4, <2>1
    DEF OnAccept, GivenUp, Accepted, At, Flight, Untouched, arguments, receiverVars
  <2> QED  BY <2>2, <2>3 DEF Phase
<1> QED  BY <1>3, <1>4 DEF OnAccept

LEMMA OnVerdictStep ==
    ASSUME IInv,
           \/ OnVerdict("REJECT", "OFFERED", "FAILED")
           \/ OnVerdict("ACK", "DONE_SENT", "COMPLETE")
           \/ OnVerdict("NACK", "DONE_SENT", "FAILED")
    PROVE  IInv'
<1> USE DEF IInv, TypeOK
<1>1. /\ "sender" \in Ends /\ Other("sender") = "receiver"
      /\ stream["sender"] # << >> /\ Consume("sender")
      /\ UNCHANGED <<arguments, receiverVars, established>>
  BY DEF Ends, Other, OnVerdict, Arrived
<1>2. /\ stream' \in [Ends -> Seq(FrameSet)]
      /\ stream'["sender"] = Tail(stream["sender"])
      /\ stream'["receiver"] = stream["receiver"]
  BY <1>1, ConsumeEffect
<1>3. TypeOK'
  BY <1>1, <1>2 DEF OnVerdict, arguments, receiverVars, SenderStates
<1>4. CASE OnVerdict("REJECT", "OFFERED", "FAILED")
  <2>1. Refused  BY <1>4, ArrivalAtSender DEF OnVerdict, Arrived
  <2>2. Failed'
    BY <1>1, <1>2, <1>4, <2>1, OneFrame
    DEF OnVerdict, Refused, Failed, At, Flight, arguments, receiverVars
  <2> QED  BY <1>3, <2>2 DEF Phase
<1>5. CASE OnVerdict("ACK", "DONE_SENT", "COMPLETE")
  <2>1. Verified  BY <1>5, ArrivalAtSender DEF OnVerdict, Arrived
  <2>2. Completed'
    BY <1>1, <1>2, <1>5, <2>1, OneFrame
    DEF OnVerdict, Verified, Completed, Match, At, Flight, arguments, receiverVars
  <2> QED  BY <1>3, <2>2 DEF Phase
<1>6. CASE OnVerdict("NACK", "DONE_SENT", "FAILED")
  <2>1. Refuted  BY <1>6, ArrivalAtSender DEF OnVerdict, Arrived
  <2>2. Failed'
    BY <1>1, <1>2, <1>6, <2>1, OneFrame
    DEF OnVerdict, Refuted, Failed, At, Flight, arguments, receiverVars
  <2> QED  BY <1>3, <2>2 DEF Phase
<1> QED  BY <1>4, <1>5, <1>6

-----------------------------------------------------------------------------
(* Each step of the receiver does too.                                     *)

LEMMA OnOfferStep ==
    ASSUME IInv, OnOffer
    PROVE  IInv'
<1> USE DEF IInv, TypeOK
<1>1. Offered
  BY ArrivalAtReceiver DEF OnOffer, Arrived
<1>2. PICK body \in Files \cup {OtherFile, Malformed} :
         Flight(<< >>, <<Frame("OFFER", body)>>)
  BY <1>1 DEF Offered
<1>3. /\ "receiver" \in Ends /\ Other("receiver") = "sender"
      /\ stream["receiver"] = <<Frame("OFFER", body)>> /\ stream["sender"] = << >>
      /\ stream["receiver"] # << >> /\ Tail(stream["receiver"]) = << >>
      /\ Body("receiver") = body
  BY <1>2, OneFrame DEF Ends, Other, Flight, Body, Frame
<1>4. OfferIsValid(body) => body \in Files \cup {OtherFile, NoBody}
  BY DEF OfferIsValid
<1>5. expected' \in Files \cup {OtherFile, NoBody}
  BY <1>3, <1>4 DEF OnOffer, RejectOffer, AcceptOffer, LeaveOffer
<1>6. UNCHANGED <<arguments, sender, buffer, verified, established>>
  BY DEF OnOffer
<1>7. ASSUME Raise("receiver"), UNCHANGED receiver
      PROVE  IInv'
  <2>1. /\ stream' \in [Ends -> Seq(FrameSet)]
        /\ stream'["receiver"] = << >>
        /\ stream'["sender"] = << >>
    BY <1>3, <1>7, RaiseEffect
  <2>2. TypeOK'
    BY <1>5, <1>6, <1>7, <2>1 DEF arguments
  <2>3. LeftOpen'
    BY <1>1, <1>6, <1>7, <2>1
    DEF Offered, LeftOpen, At, Flight, Untouched, arguments
  <2> QED  BY <2>2, <2>3 DEF Phase
<1>8. ASSUME Answer("receiver", <<Control("REJECT")>>), receiver' = "FAILED"
      PROVE  IInv'
  <2>1. <<Control("REJECT")>> \in Seq(FrameSet)
    BY FramesTyped DEF FrameTypes
  <2>2. /\ stream' \in [Ends -> Seq(FrameSet)]
        /\ stream'["receiver"] = << >>
        /\ stream'["sender"] = <<Control("REJECT")>>
    BY <1>3, <1>8, <2>1, AnswerEffect
  <2>3. TypeOK'
    BY <1>5, <1>6, <1>8, <2>2 DEF arguments, ReceiverStates
  <2>4. Refused'
    BY <1>1, <1>6, <1>8, <2>2 DEF Offered, Refused, At, Flight
  <2> QED  BY <2>3, <2>4 DEF Phase
<1>9. ASSUME Answer("receiver", <<Control("ACCEPT")>>), receiver' = "RECEIVING"
      PROVE  IInv'
  <2>1. <<Control("ACCEPT")>> \in Seq(FrameSet)
    BY FramesTyped DEF FrameTypes
  <2>2. /\ stream' \in [Ends -> Seq(FrameSet)]
        /\ stream'["receiver"] = << >>
        /\ stream'["sender"] = <<Control("ACCEPT")>>
    BY <1>3, <1>9, <2>1, AnswerEffect
  <2>3. TypeOK'
    BY <1>5, <1>6, <1>9, <2>2 DEF arguments, ReceiverStates
  <2>4. Accepted'
    BY <1>1, <1>6, <1>9, <2>2 DEF Offered, Accepted, At, Flight, Untouched
  <2> QED  BY <2>3, <2>4 DEF Phase
<1>10. CASE LeaveOffer
  <2>1. /\ stream' \in [Ends -> Seq(FrameSet)]
        /\ stream'["receiver"] = << >>
        /\ stream'["sender"] = << >>
    BY <1>3, <1>10, ConsumeEffect DEF LeaveOffer
  <2>2. TypeOK'
    BY <1>5, <1>6, <1>10, <2>1 DEF arguments, LeaveOffer
  <2>3. LeftOpen'
    BY <1>1, <1>6, <1>10, <2>1
    DEF Offered, LeftOpen, LeaveOffer, At, Flight, Untouched
  <2> QED  BY <2>2, <2>3 DEF Phase
<1> QED
  BY <1>7, <1>8, <1>9, <1>10 DEF OnOffer, RejectOffer, AcceptOffer

LEMMA OnChunkStep ==
    ASSUME IInv, OnChunk
    PROVE  IInv'
<1> USE DEF IInv, TypeOK
<1>1. Flowing /\ Head(stream["receiver"]).type = "CHUNK"
  BY ArrivalAtReceiver DEF OnChunk, Arrived
<1>2. PICK k \in 0 .. Len(data) : Flight(<< >>, Rest(k)) /\ buffer = SubSeq(data, 1, k)
  BY <1>1 DEF Flowing
<1>3. k # Len(data)
  BY <1>1, <1>2, RestSteps, OneFrame DEF Flight, Control, Frame
<1>4. k < Len(data) /\ k + 1 \in 0 .. Len(data)
  BY <1>2, <1>3, FileIsSeq, SMT
<1>5. /\ "receiver" \in Ends /\ Other("receiver") = "sender"
      /\ stream["receiver"] # << >>
      /\ Tail(stream["receiver"]) = Rest(k + 1)
      /\ Body("receiver") = <<data[k + 1]>>
  <2>1. data \in Files /\ stream["receiver"] = Rest(k)
    BY <1>2 DEF Flight
  <2> HIDE DEF IInv, TypeOK
  <2>2. /\ Rest(k) # << >> /\ Tail(Rest(k)) = Rest(k + 1)
        /\ Head(Rest(k)) = Frame("CHUNK", <<data[k + 1]>>)
    BY <1>4, <2>1, RestSteps, RestIsSeq
  <2>3. Frame("CHUNK", <<data[k + 1]>>).body = <<data[k + 1]>>
    BY DEF Frame
  <2>4. "receiver" \in Ends /\ Other("receiver") = "sender"
    BY DEF Ends, Other
  <2> QED  BY <2>1, <2>2, <2>3, <2>4 DEF Body
<1>6. buffer' = SubSeq(data, 1, k + 1)
  <2>1. buffer' = buffer \o Body("receiver")
    BY DEF OnChunk
  <2>2. data \in Files /\ k < Len(data)
    BY <1>4 DEF Files
  <2> HIDE DEF IInv, TypeOK
  <2>3. SubSeq(data, 1, k) \o <<data[k + 1]>> = SubSeq(data, 1, k + 1)
    BY <2>2, NextPrefix
  <2> QED  BY <1>2, <1>5, <2>1, <2>3
<1>7. buffer' \in Seq(Chunks)
  <2>1. data[k + 1] \in Chunks  BY <1>4, NextPrefix
  <2>2. <<data[k + 1]>> \in Seq(Chunks)  BY <2>1, SMT
  <2> QED  BY <1>5, <2>2, ConcatProperties DEF OnChunk
<1>8. /\ stream' \in [Ends -> Seq(FrameSet)]
      /\ stream'["receiver"] = Rest(k + 1)
      /\ stream'["sender"] = << >>
  BY <1>2, <1>5, ConsumeEffect DEF OnChunk, Flight
<1>9. TypeOK'
  BY <1>7, <1>8 DEF OnChunk, arguments
<1>10. Rest(k + 1)' = Rest(k + 1) /\ data' = data
  BY DEF OnChunk, arguments, Rest
<1>11. Flowing'
  BY <1>1, <1>4, <1>6, <1>8, <1>10 DEF OnChunk, Flowing, At, Flight
<1> QED  BY <1>9, <1>11 DEF Phase

LEMMA OnDoneStep ==
    ASSUME IInv, OnDone
    PROVE  IInv'
<1> USE DEF IInv, TypeOK
<1>1. Flowing /\ Head(stream["receiver"]).type = "DONE"
  BY ArrivalAtReceiver DEF OnDone, Arrived
<1>2. PICK k \in 0 .. Len(data) : Flight(<< >>, Rest(k)) /\ buffer = SubSeq(data, 1, k)
  BY <1>1 DEF Flowing
<1>3. k = Len(data)
  <2>1. ~ (k < Len(data))
    BY <1>1, <1>2, RestSteps DEF Flight, Frame
  <2> QED  BY <1>2, <2>1, FileIsSeq, SMT
<1>4. buffer = data
  BY <1>2, <1>3, FileIsSeq, SubSeqFull
<1>5. /\ "receiver" \in Ends /\ Other("receiver") = "sender"
      /\ stream["receiver"] = <<Control("DONE")>> /\ stream["sender"] = << >>
      /\ stream["receiver"] # << >> /\ Tail(stream["receiver"]) = << >>
  BY <1>2, <1>3, RestSteps, OneFrame DEF Ends, Other, Flight
<1>6. verified' = FileMatches /\ UNCHANGED <<arguments, sender, expected, buffer, established>>
  BY DEF OnDone
<1>7. verified' \in BOOLEAN
  BY <1>6 DEF FileMatches
<1>8. CASE Raise("receiver") /\ UNCHANGED receiver
  <2>1. /\ stream' \in [Ends -> Seq(FrameSet)]
        /\ stream'["receiver"] = << >>
        /\ stream'["sender"] = << >>
        /\ ~ established["receiver"]
    BY <1>5, <1>8, RaiseEffect
  <2>2. TypeOK'
    BY <1>6, <1>7, <1>8, <2>1 DEF arguments
  <2>3. Unanswered'
    BY <1>1, <1>4, <1>6, <1>8, <2>1 DEF Flowing, Unanswered, At, Flight, arguments
  <2> QED  BY <2>2, <2>3 DEF Phase
<1>9. ASSUME NEW type \in {"ACK", "NACK"}, Answer("receiver", <<Control(type)>>)
      PROVE  /\ stream' \in [Ends -> Seq(FrameSet)]
             /\ stream'["receiver"] = << >>
             /\ stream'["sender"] = <<Control(type)>>
  <2>1. <<Control(type)>> \in Seq(FrameSet)
    BY FramesTyped DEF FrameTypes
  <2> QED  BY <1>5, <1>9, <2>1, AnswerEffect
<1>10. ASSUME FileMatches, Answer("receiver", <<Control("ACK")>>), receiver' = "COMPLETE"
       PROVE  IInv'
  <2>1. TypeOK'
    BY <1>6, <1>7, <1>9, <1>10 DEF arguments, ReceiverStates
  <2>2. Verified'
    BY <1>1, <1>4, <1>6, <1>9, <1>10
    DEF Flowing, Verified, Match, FileMatches, At, Flight, arguments
  <2> QED  BY <2>1, <2>2 DEF Phase
<1>11. ASSUME ~ FileMatches, Answer("receiver", <<Control("NACK")>>), receiver' = "FAILED"
       PROVE  IInv'
  <2>1. TypeOK'
    BY <1>6, <1>7, <1>9, <1>11 DEF arguments, ReceiverStates
  <2>2. Refuted'
    BY <1>1, <1>6, <1>9, <1>11 DEF Flowing, Refuted, At, Flight
  <2> QED  BY <2>1, <2>2 DEF Phase
<1>12. CASE FileMatches
  BY <1>8, <1>10, <1>12 DEF OnDone
<1>13. CASE ~ FileMatches
  BY <1>8, <1>11, <1>13 DEF OnDone
<1> QED  BY <1>12, <1>13

LEMMA LeaveEstablishedStep ==
    ASSUME IInv, NEW e \in Ends, LeaveEstablished(e)
    PROVE  IInv'
<1> USE DEF IInv, TypeOK
<1>1. UNCHANGED <<arguments, sender, receiverVars, stream>>
  BY DEF LeaveEstablished
<1>2. /\ established' \in [Ends -> BOOLEAN]
      /\ ~ established["receiver"] => ~ established'["receiver"]
  BY DEF LeaveEstablished, Ends
<1>3. TypeOK'
  BY <1>1, <1>2 DEF arguments, receiverVars
<1>4. \A k : Rest(k)' = Rest(k)
  BY <1>1 DEF Rest, arguments
<1>5. Flowing => Flowing'
  BY <1>1, <1>4 DEF Flowing, At, Flight, arguments, receiverVars
<1>6. Unanswered => Unanswered'
  BY <1>1, <1>2 DEF Unanswered, At, Flight, arguments, receiverVars
<1>7. Phase /\ ~ Flowing /\ ~ Unanswered => Phase'
  BY <1>1
  DEF Phase, NotStarted, Offered, LeftOpen, Accepted, Refused, GivenUp, Verified,
      Refuted, Completed, Failed, Match, At, Flight, Untouched, arguments, receiverVars
<1>8. Flowing' \/ Unanswered' => Phase'
  BY DEF Phase
<1> QED  BY <1>3, <1>5, <1>6, <1>7, <1>8

LEMMA StutterStep ==
    ASSUME IInv, UNCHANGED vars
    PROVE  IInv'
<1> USE DEF IInv, TypeOK, vars
<1>1. TypeOK'
  OBVIOUS
<1>2. \A k : Rest(k)' = Rest(k)
  BY DEF Rest
<1>3. Phase'
  BY <1>2
  DEF Phase, NotStarted, Offered, LeftOpen, Accepted, Refused, GivenUp, Flowing,
      Unanswered, Verified, Refuted, Completed, Failed, Match, At, Flight, Untouched
<1> QED  BY <1>1, <1>3

-----------------------------------------------------------------------------
(* The theorems.                                                           *)

LEMMA InvariantInitially == Init => IInv
<1> SUFFICES ASSUME Init PROVE IInv
  OBVIOUS
<1> USE DEF Init
<1>1. << >> \in Seq(FrameSet) /\ << >> \in Seq(Chunks)
  BY EmptySeq
<1>2. TypeOK
  BY <1>1 DEF TypeOK, SenderStates, ReceiverStates
<1>3. NotStarted
  BY DEF NotStarted, At, Flight, Untouched, Ends
<1> QED  BY <1>2, <1>3 DEF IInv, Phase

LEMMA InvariantPreserved == IInv /\ [Next]_vars => IInv'
<1> SUFFICES ASSUME IInv, [Next]_vars PROVE IInv'
  OBVIOUS
<1>1. CASE \E body \in {data, OtherFile, Malformed} : Start(body)
  BY <1>1, StartStep
<1>2. CASE SenderPump
  BY <1>2, OnAcceptStep, OnVerdictStep DEF SenderPump
<1>3. CASE ReceiverPump
  BY <1>3, OnOfferStep, OnChunkStep, OnDoneStep DEF ReceiverPump
<1>4. CASE \E e \in Ends : LeaveEstablished(e)
  BY <1>4, LeaveEstablishedStep
<1>5. CASE UNCHANGED vars
  BY <1>5, StutterStep
<1> QED  BY <1>1, <1>2, <1>3, <1>4, <1>5 DEF Next

(* The invariant: a transfer is always in one of the phases above.         *)
THEOREM PhasesHold == Spec => []IInv
  BY InvariantInitially, InvariantPreserved, PTL DEF Spec

(* Every variable keeps its type, for files of any number of chunks; an    *)
(* OFFER that the validation refuses is never what a receiver works for.   *)
THEOREM TypesHold == Spec => []TypeOK
<1>1. IInv => TypeOK
  BY DEF IInv
<1> QED  BY <1>1, PhasesHold, PTL

(* A COMPLETE sender may close: the receiver has the file, verified, and   *)
(* nothing is in flight (flush on close, app/file.py:24).                  *)
THEOREM FlushOnClose == Spec => []CompletionHandshake
<1>1. IInv => CompletionHandshake
  <2> SUFFICES ASSUME IInv, sender = "COMPLETE"
               PROVE  /\ receiver = "COMPLETE" /\ verified /\ expected = data
                      /\ buffer = data /\ stream = [e \in Ends |-> << >>]
    BY DEF CompletionHandshake
  <2>1. Completed
    BY DEF IInv, Phase, At, NotStarted, Offered, LeftOpen, Accepted, Refused,
           GivenUp, Flowing, Unanswered, Verified, Refuted, Failed
  <2>2. stream \in [Ends -> Seq(FrameSet)]
    BY DEF IInv, TypeOK
  <2> QED  BY <2>1, <2>2 DEF Completed, Match, At, Flight, Ends
<1> QED  BY <1>1, PhasesHold, PTL

(* What has been put together and what is in flight make up the file, each *)
(* chunk once and in order (app/file.py:281, 443).                         *)
THEOREM NothingMissing == Spec => []ChunksAddUp
<1>1. IInv => ChunksAddUp
  <2> SUFFICES ASSUME IInv, sender = "DONE_SENT", receiver = "RECEIVING"
               PROVE  ChunksAddUp
    BY DEF ChunksAddUp
  <2>1. Flowing \/ Unanswered
    BY DEF IInv, Phase, At, NotStarted, Offered, LeftOpen, Accepted, Refused,
           GivenUp, Verified, Refuted, Completed, Failed
  <2>2. CASE Flowing
    <3>1. PICK k \in 0 .. Len(data) : Flight(<< >>, Rest(k)) /\ buffer = SubSeq(data, 1, k)
      BY <2>2 DEF Flowing
    <3>2. Rest(k) = ChunksAndDone(SubSeq(data, k + 1, Len(data)))
      BY RestIsSent DEF IInv, TypeOK
    <3> QED  BY <3>1, <3>2 DEF ChunksAddUp, Flight
  <2>3. CASE Unanswered
    BY <2>3 DEF Unanswered, ChunksAddUp, Flight
  <2> QED  BY <2>1, <2>2, <2>3
<1> QED  BY <1>1, PhasesHold, PTL

(* No frame arrives in a state whose handler ignores it (app/file.py:261,  *)
(* 436).                                                                   *)
THEOREM NothingIgnored == Spec => []FramesFit
<1>1. IInv => FramesFit
  <2> SUFFICES ASSUME IInv PROVE FramesFit
    OBVIOUS
  <2>1. Phase /\ data \in Files
    BY DEF IInv, TypeOK
  <2>2. stream["sender"] # << >> =>
          \/ sender = "OFFERED" /\ Head(stream["sender"]).type \in {"ACCEPT", "REJECT"}
          \/ sender = "DONE_SENT" /\ Head(stream["sender"]).type \in {"ACK", "NACK"}
    BY <2>1, ArrivalAtSender DEF Accepted, Refused, Verified, Refuted, At
  <2>3. stream["receiver"] # << >> =>
          \/ receiver = "IDLE" /\ Head(stream["receiver"]).type = "OFFER"
          \/ receiver = "RECEIVING" /\ Head(stream["receiver"]).type \in {"CHUNK", "DONE"}
    BY <2>1, ArrivalAtReceiver DEF Offered, Flowing, At
  <2> QED  BY <2>2, <2>3 DEF FramesFit
<1> QED  BY <1>1, PhasesHold, PTL

(* The two ends never contradict one another: each transfer is an abstract *)
(* one, in which the sender learns of the receiver's verdict or nothing.   *)
THEOREM Refinement == Spec => ImplementsOutcome
<1> USE DEF Verdict
<1>1. Init => Outcome!Init
  BY DEF Init, Outcome!Init
<1>2. IInv /\ [Next]_vars => [Outcome!Next]_(Outcome!vars)
  <2> SUFFICES ASSUME IInv, [Next]_vars
               PROVE  Outcome!Next \/ UNCHANGED Outcome!vars
    OBVIOUS
  <2> USE DEF Outcome!Next, Outcome!Decide, Outcome!Learn, Outcome!vars
  <2>1. CASE \E body \in {data, OtherFile, Malformed} : Start(body)
    BY <2>1 DEF Start, receiverVars
  <2>2. CASE OnAccept
    BY <2>2 DEF OnAccept, receiverVars
  <2>3. CASE OnVerdict("REJECT", "OFFERED", "FAILED")
    <3>1. Refused  BY <2>3, ArrivalAtSender DEF IInv, OnVerdict, Arrived
    <3> QED  BY <2>3, <3>1 DEF OnVerdict, Refused, At, receiverVars
  <2>4. CASE OnVerdict("ACK", "DONE_SENT", "COMPLETE")
    <3>1. Verified  BY <2>4, ArrivalAtSender DEF IInv, OnVerdict, Arrived
    <3> QED  BY <2>4, <3>1 DEF OnVerdict, Verified, At, receiverVars
  <2>5. CASE OnVerdict("NACK", "DONE_SENT", "FAILED")
    <3>1. Refuted  BY <2>5, ArrivalAtSender DEF IInv, OnVerdict, Arrived
    <3> QED  BY <2>5, <3>1 DEF OnVerdict, Refuted, At, receiverVars
  <2>6. CASE OnOffer
    BY <2>6 DEF OnOffer, RejectOffer, AcceptOffer, LeaveOffer
  <2>7. CASE OnChunk
    BY <2>7 DEF OnChunk
  <2>8. CASE OnDone
    BY <2>8 DEF OnDone
  <2>9. CASE \E e \in Ends : LeaveEstablished(e)
    BY <2>9 DEF LeaveEstablished, receiverVars
  <2>10. CASE UNCHANGED vars
    BY <2>10 DEF vars
  <2> QED
    BY <2>1, <2>2, <2>3, <2>4, <2>5, <2>6, <2>7, <2>8, <2>9, <2>10
    DEF Next, SenderPump, ReceiverPump
<1> QED  BY <1>1, <1>2, PhasesHold, PTL DEF Spec, ImplementsOutcome, Outcome!Spec
=============================================================================
