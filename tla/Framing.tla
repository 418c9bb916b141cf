------------------------------ MODULE Framing ------------------------------
(***************************************************************************)
(* Length-prefixed frames over a reliable stream: ChatSession with its     *)
(* StreamReassembler (src/photontcp/app/chat.py, codec.py) and, the same   *)
(* but for what a length counts and what makes a body bad, the             *)
(* FileFrameReassembler (app/file_codec.py).  The stream is the one that   *)
(* ReliableStream.tla and DataPlane.tla promise: chunks arrive whole, once *)
(* and in order.  A byte is named by its frame and its place there.        *)
(***************************************************************************)
EXTENDS Naturals, Sequences, SequencesExt

CONSTANTS
  LengthSize,   \* _LENGTH_SIZE
  MaxLength,    \* MAX_MESSAGE_BYTES, MAX_FRAME_BYTES
  MinLength,    \* 1 where a length counts a type byte
  MaxPayloads,  \* what arq_max_payload may be
  MaxFrames,    \* bound: frames sent
  MaxSwitches   \* bound: times the session comes up or goes down

ASSUME FramingAssumption ==
  /\ LengthSize \in Nat \ {0} /\ MaxLength \in Nat /\ MinLength \in 0..MaxLength
  /\ MaxPayloads \subseteq Nat \ {0}

VARIABLES
  max_payload,
  sender,   \* its session is ESTABLISHED, how often that changed, _next_msg_id, and the frames it sent
  stream,   \* chunks on their way, and those that recv_on will return
  reader    \* its pump: what it drained, the buffer, new_messages, and _received

framingVars == <<max_payload, sender, stream, reader>>

FramingInit ==
  /\ max_payload \in MaxPayloads
  /\ sender = [established |-> FALSE, switches |-> 0, next_msg_id |-> 1, sent |-> <<>>]
  /\ stream = [wire |-> <<>>, buffer |-> <<>>]
  /\ reader = [pc |-> "idle", drained |-> <<>>, buf |-> <<>>, messages |-> <<>>, new_messages |-> <<>>,
               received |-> <<>>, raised |-> FALSE]

----------------------------------------------------------------------------
(* The sender.                                                             *)

\* send splits what it is given into chunks of max_payload bytes.
Chunks(n, length) ==
  LET size == LengthSize + length
      start(i) == (i - 1) * max_payload
  IN  [i \in 1..((size + max_payload - 1) \div max_payload) |->
         [k \in 1..(IF start(i) + max_payload > size THEN size - start(i) ELSE max_payload) |-> <<n, start(i) + k>>]]

\* A frame: the id it carries, the length it declares, and whether its body parses: one
\* that another application puts on the stream does not.
Send(frame) ==
  /\ sender.established /\ Len(sender.sent) < MaxFrames
  /\ stream' = [stream EXCEPT !.wire = @ \o Chunks(Len(sender.sent) + 1, frame.length)]

\* encode_message refuses other lengths.
Encodes(length) == length \in MinLength..MaxLength

\* It, or send_on, may raise: then nothing has changed.
SendMessage(length) ==
  /\ Encodes(length)
  /\ LET frame == [id |-> sender.next_msg_id, length |-> length, parses |-> TRUE]
     IN  Send(frame) /\ sender' = [sender EXCEPT !.next_msg_id = @ + 1, !.sent = Append(@, frame)]
  /\ UNCHANGED <<max_payload, reader>>

SendForeign(length) ==
  /\ length \in 0..MaxLength + 1
  /\ LET frame == [id |-> 0, length |-> length, parses |-> FALSE]
     IN  Send(frame) /\ sender' = [sender EXCEPT !.sent = Append(@, frame)]
  /\ UNCHANGED <<max_payload, reader>>

SessionSwitches ==
  /\ sender.switches < MaxSwitches
  /\ sender' = [sender EXCEPT !.established = ~@, !.switches = @ + 1]
  /\ UNCHANGED <<max_payload, stream, reader>>

Arrives ==
  /\ stream.wire # <<>>
  /\ stream' = [wire |-> Tail(stream.wire), buffer |-> Append(stream.buffer, Head(stream.wire))]
  /\ UNCHANGED <<max_payload, sender, reader>>

----------------------------------------------------------------------------
(* The reader.                                                             *)

PumpDrains ==
  /\ reader.pc = "idle" /\ stream.buffer # <<>>
  /\ reader' = [reader EXCEPT !.pc = "pump", !.drained = stream.buffer, !.new_messages = <<>>]
  /\ stream' = [stream EXCEPT !.buffer = <<>>]
  /\ UNCHANGED <<max_payload, sender>>

\* slip: what an earlier feed left is gone
FeedBeginsAfresh ==
  /\ reader.pc = "pump" /\ reader.drained # <<>>
  /\ reader' = [reader EXCEPT !.pc = "feed", !.drained = Tail(@), !.buf = Head(reader.drained), !.messages = <<>>]
  /\ UNCHANGED <<max_payload, sender, stream>>

FeedBegins ==
  /\ reader.pc = "pump" /\ reader.drained # <<>>
  /\ reader' = [reader EXCEPT !.pc = "feed", !.drained = Tail(@), !.buf = @ \o Head(reader.drained), !.messages = <<>>]
  /\ UNCHANGED <<max_payload, sender, stream>>

\* The frame that buf begins with, as its first bytes tell.
HeadFrame == sender.sent[reader.buf[1][1]]
LengthKnown == Len(reader.buf) >= LengthSize
LengthBad == HeadFrame.length \notin MinLength..MaxLength
FrameEnd == LengthSize + HeadFrame.length
FrameThere == LengthKnown /\ ~LengthBad /\ Len(reader.buf) >= FrameEnd

\* del self._buf[:n]
Delete(n) == SubSeq(reader.buf, n + 1, Len(reader.buf))

TakeFrame ==
  /\ reader.pc = "feed" /\ FrameThere /\ HeadFrame.parses
  /\ reader' = [reader EXCEPT !.buf = Delete(FrameEnd), !.messages = Append(@, HeadFrame)]
  /\ UNCHANGED <<max_payload, sender, stream>>

\* The bad frame stays; the messages of this feed, those of this pump, and the chunks it
\* has drained and not fed are gone with the exception.
FeedRaises ==
  /\ reader.pc = "feed" /\ LengthKnown /\ (LengthBad \/ (FrameThere /\ ~HeadFrame.parses))
  /\ reader' = [reader EXCEPT !.pc = "idle", !.drained = <<>>, !.messages = <<>>, !.new_messages = <<>>, !.raised = TRUE]
  /\ UNCHANGED <<max_payload, sender, stream>>

FeedReturns ==
  /\ reader.pc = "feed" /\ (IF LengthKnown THEN ~LengthBad /\ ~FrameThere ELSE TRUE)
  /\ reader' = [reader EXCEPT !.pc = "pump", !.new_messages = @ \o reader.messages, !.messages = <<>>]
  /\ UNCHANGED <<max_payload, sender, stream>>

PumpReturns ==
  /\ reader.pc = "pump" /\ reader.drained = <<>>
  /\ reader' = [reader EXCEPT !.pc = "idle", !.received = @ \o reader.new_messages, !.new_messages = <<>>]
  /\ UNCHANGED <<max_payload, sender, stream>>

FramingNext ==
  \/ \E length \in 0..MaxLength + 1 : SendMessage(length) \/ SendForeign(length)
  \/ SessionSwitches \/ Arrives
  \/ PumpDrains \/ FeedBegins \/ TakeFrame \/ FeedRaises \/ FeedReturns \/ PumpReturns

FramingSpec == FramingInit /\ [][FramingNext]_framingVars

----------------------------------------------------------------------------

\* The byte sent after b.
NextByte(b) == IF b[2] < LengthSize + sender.sent[b[1]].length THEN <<b[1], b[2] + 1>> ELSE <<b[1] + 1, 1>>

\* The pieces hold every byte from one on until another, in the order they were sent.
Unbroken(pieces, from, until) ==
  LET due(i) == IF i = 1 THEN from ELSE NextByte(Last(pieces[i - 1]))
  IN  /\ \A i \in DOMAIN pieces :
           /\ pieces[i] # <<>> /\ Head(pieces[i]) = due(i)
           /\ \A k \in 1..Len(pieces[i]) - 1 : pieces[i][k + 1] = NextByte(pieces[i][k])
      /\ due(Len(pieces) + 1) = until

\* Messages come out whole, in order and once, numbered without a gap although sends fail,
\* wherever the stream was cut into chunks; between two pumps nothing whole is left waiting
\* and no byte is missing.  After a frame that raises, what was parsed with it is lost and
\* nothing comes out any more, rather than something that was never sent
\* (codec.py:140-179, file_codec.py:189-241, chat.py:157-184).
FramesWhole ==
  LET n == Len(reader.received)
  IN  /\ IsPrefix(reader.received, sender.sent)
      /\ \A i \in 1..n : reader.received[i].id = i
      /\ (reader.pc = "idle" /\ ~reader.raised) =>
           /\ ~FrameThere
           /\ LET pieces == (IF reader.buf = <<>> THEN <<>> ELSE <<reader.buf>>) \o stream.buffer \o stream.wire
              IN  Unbroken(pieces, <<n + 1, 1>>, <<Len(sender.sent) + 1, 1>>)
=============================================================================
