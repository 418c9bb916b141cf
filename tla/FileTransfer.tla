----------------------------- MODULE FileTransfer -----------------------------
(***************************************************************************)
(* src/photontcp/app/file.py: a FileSender and a FileReceiver, one on each *)
(* end of a session.                                                       *)
(*                                                                         *)
(* Under them is what ArqEndpoint and SessionStateMachine were shown to    *)
(* provide: each direction of the stream hands over what was sent on it,   *)
(* in order, sooner or later or never (a NACK never comes between two      *)
(* sends of this protocol, so nothing overtakes); send_on raises unless    *)
(* the session of that end is ESTABLISHED (session.py:265-269), which it   *)
(* may cease to be at any moment, at each end by itself; and what was sent *)
(* before may still arrive after that.                                     *)
(*                                                                         *)
(* A pump handles the frames delivered to it one by one; as nothing else   *)
(* happens to that end between two of them, each is an action here.  When  *)
(* a handler raises, pump is left with the rest of the frames it had taken *)
(* from the session, and these are lost.  established does not change in a *)
(* handler, so a handler that sends several frames sends all or none.      *)
(*                                                                         *)
(* A frame is a type and a body; a file is the sequence of its chunks, and *)
(* a digest is the file it was computed from (collisions are out of scope).*)
(* chunk_size is one that the codec can frame (file_codec.py:65).          *)
(***************************************************************************)
EXTENDS Naturals, Sequences

CONSTANTS
    MaxChunks,  \* bound: chunks of the file
    Malformed,  \* an OFFER body that _offer_is_valid refuses
    NoBody      \* the body of a frame that needs none, and a digest not yet set

Ends == {"sender", "receiver"}
Other(e) == IF e = "sender" THEN "receiver" ELSE "sender"

FrameTypes == {"OFFER", "ACCEPT", "REJECT", "CHUNK", "DONE", "ACK", "NACK"}
SenderStates == {"IDLE", "OFFERED", "SENDING", "DONE_SENT", "COMPLETE", "FAILED"}
ReceiverStates == {"IDLE", "RECEIVING", "COMPLETE", "FAILED"}

Chunks == 1 .. MaxChunks
Files == {[i \in 1 .. n |-> i] : n \in 0 .. MaxChunks}
OtherFile == <<0>>           \* contents that no sender here has
Pieces == {<<c>> : c \in Chunks}    \* bodies of CHUNK frames

ASSUME TransferAssumption ==
    /\ MaxChunks \in Nat
    /\ Malformed # NoBody
    /\ {Malformed, NoBody} \cap (Files \cup Pieces \cup {OtherFile}) = {}

Frame(type, body) == [type |-> type, body |-> body]
Control(type) == Frame(type, NoBody)

VARIABLES
    data,         \* FileSender.data, the constructor's argument
    sender,       \* FileSender._state
    auto_accept,  \* FileReceiver.auto_accept, the constructor's argument
    receiver,     \* FileReceiver._state
    expected,     \* _expected_sha, with _name and _expected_size; NoBody for None
    buffer,       \* FileReceiver._buffer
    verified,     \* FileReceiver._verified
    stream,       \* end -> frames on their way to it
    established   \* end -> its session is ESTABLISHED

vars == <<data, sender, auto_accept, receiver, expected, buffer, verified,
          stream, established>>

arguments == <<data, auto_accept>>
receiverVars == <<receiver, expected, buffer, verified>>

Init ==
    /\ data \in Files
    /\ sender = "IDLE"
    /\ auto_accept \in BOOLEAN
    /\ receiver = "IDLE"
    /\ expected = NoBody
    /\ buffer = << >>
    /\ verified = FALSE
    /\ stream = [e \in Ends |-> << >>]
    /\ established = [e \in Ends |-> TRUE]

-----------------------------------------------------------------------------
(* The stream and the session.                                             *)

(* e handles the frame at the head of its stream without sending, ...      *)
Consume(e) == stream' = [stream EXCEPT ![e] = Tail(@)]

(* ... sends these frames when it has handled it, ...                      *)
Answer(e, frames) ==
    /\ established[e]
    /\ stream' = [stream EXCEPT ![e] = Tail(@), ![Other(e)] = @ \o frames]

(* ... or raises on the attempt, and loses what pump had taken with it.    *)
Raise(e) ==
    /\ ~ established[e]
    /\ \E k \in 1 .. Len(stream[e]) :
          stream' = [stream EXCEPT ![e] = SubSeq(@, k + 1, Len(@))]

(* The session of e is closed, by either host or by a timeout.             *)
LeaveEstablished(e) ==
    /\ established[e]
    /\ established' = [established EXCEPT ![e] = FALSE]
    /\ UNCHANGED <<arguments, sender, receiverVars, stream>>

Arrived(e, type) == stream[e] # << >> /\ Head(stream[e]).type = type

Body(e) == Head(stream[e]).body

-----------------------------------------------------------------------------
(* The sender.                                                             *)

(* start(): the OFFER carries the digest of the data.  One with another    *)
(* digest, or with a field the receiver refuses, is what a sender sends    *)
(* that does not keep to the protocol (tests/test_file_transfer.py:299) or *)
(* was given a name that is no string.                                     *)
Start(body) ==
    /\ sender = "IDLE"
    /\ established["sender"]
    /\ sender' = "OFFERED"
    /\ stream' = [stream EXCEPT !["receiver"] = Append(@, Frame("OFFER", body))]
    /\ UNCHANGED <<arguments, receiverVars, established>>

(* slip: nothing to send for an empty file.                                *)
ChunksAndDoneUnlessEmpty(d) ==
    IF d = << >> THEN << >>
    ELSE Append([i \in 1 .. Len(d) |-> Frame("CHUNK", <<d[i]>>)], Control("DONE"))

(* What _send_all_chunks_and_done() sends of the file d.                   *)
ChunksAndDone(d) ==
    Append([i \in 1 .. Len(d) |-> Frame("CHUNK", <<d[i]>>)], Control("DONE"))

(* slip: a transfer is complete when everything has been queued.           *)
OnAcceptCompletes ==
    /\ Arrived("sender", "ACCEPT")
    /\ sender = "OFFERED"
    /\ Answer("sender", ChunksAndDone(data))
    /\ sender' = "COMPLETE"
    /\ UNCHANGED <<arguments, receiverVars, established>>

OnAccept ==
    /\ Arrived("sender", "ACCEPT")
    /\ sender = "OFFERED"
    /\ \/ Answer("sender", ChunksAndDone(data)) /\ sender' = "DONE_SENT"
       \/ Raise("sender") /\ sender' = "SENDING"
    /\ UNCHANGED <<arguments, receiverVars, established>>

(* REJECT, ACK and NACK only end the transfer: type, state, next state.    *)
OnVerdict(type, from, to) ==
    /\ Arrived("sender", type)
    /\ sender = from
    /\ sender' = to
    /\ Consume("sender")
    /\ UNCHANGED <<arguments, receiverVars, established>>

SenderPump ==
    \/ OnAccept
    \/ OnVerdict("REJECT", "OFFERED", "FAILED")
    \/ OnVerdict("ACK", "DONE_SENT", "COMPLETE")
    \/ OnVerdict("NACK", "DONE_SENT", "FAILED")

-----------------------------------------------------------------------------
(* The receiver.  Every handler sends first and moves on after that, so    *)
(* one that raises has captured or verified but not moved.                 *)

(* slip: an OFFER is taken at its word.                                    *)
OfferIsValidAlways(body) == TRUE

OfferIsValid(body) == body # Malformed

RejectOffer ==
    /\ ~ OfferIsValid(Body("receiver"))
    /\ \/ Answer("receiver", <<Control("REJECT")>>) /\ receiver' = "FAILED"
       \/ Raise("receiver") /\ UNCHANGED receiver
    /\ UNCHANGED expected

AcceptOffer ==
    /\ OfferIsValid(Body("receiver"))
    /\ auto_accept
    /\ expected' = Body("receiver")
    /\ \/ Answer("receiver", <<Control("ACCEPT")>>) /\ receiver' = "RECEIVING"
       \/ Raise("receiver") /\ UNCHANGED receiver

(* The OFFER is left to the host, who has no way to accept it.             *)
LeaveOffer ==
    /\ OfferIsValid(Body("receiver"))
    /\ ~ auto_accept
    /\ expected' = Body("receiver")
    /\ Consume("receiver")
    /\ UNCHANGED receiver

(* slip: the receiver accepts and does not get ready for the chunks.       *)
OnOfferStaysIdle ==
    /\ Arrived("receiver", "OFFER")
    /\ receiver = "IDLE"
    /\ expected' = Body("receiver")
    /\ Answer("receiver", <<Control("ACCEPT")>>)
    /\ UNCHANGED <<arguments, sender, receiver, buffer, verified, established>>

OnOffer ==
    /\ Arrived("receiver", "OFFER")
    /\ receiver = "IDLE"
    /\ RejectOffer \/ AcceptOffer \/ LeaveOffer
    /\ UNCHANGED <<arguments, sender, buffer, verified, established>>

(* slip: chunks are put together from the end.                             *)
OnChunkPrepends ==
    /\ Arrived("receiver", "CHUNK")
    /\ receiver = "RECEIVING"
    /\ buffer' = Body("receiver") \o buffer
    /\ Consume("receiver")
    /\ UNCHANGED <<arguments, sender, receiver, expected, verified, established>>

OnChunk ==
    /\ Arrived("receiver", "CHUNK")
    /\ receiver = "RECEIVING"
    /\ buffer' = buffer \o Body("receiver")
    /\ Consume("receiver")
    /\ UNCHANGED <<arguments, sender, receiver, expected, verified, established>>

(* slip: the file is what was offered if it has the size.                  *)
FileMatchesInSize == Len(buffer) = Len(expected)

FileMatches == buffer = expected

OnDone ==
    /\ Arrived("receiver", "DONE")
    /\ receiver = "RECEIVING"
    /\ verified' = FileMatches
    /\ \/ /\ Answer("receiver", <<Control(IF FileMatches THEN "ACK" ELSE "NACK")>>)
          /\ receiver' = IF FileMatches THEN "COMPLETE" ELSE "FAILED"
       \/ Raise("receiver") /\ UNCHANGED receiver
    /\ UNCHANGED <<arguments, sender, expected, buffer, established>>

ReceiverPump == OnOffer \/ OnChunk \/ OnDone

-----------------------------------------------------------------------------
(* The last lines of both _handle_frame, which ignore every other frame,   *)
(* need no action: FramesFit says that none arrives.                       *)
Next ==
    \/ \E body \in {data, OtherFile, Malformed} : Start(body)
    \/ SenderPump
    \/ ReceiverPump
    \/ \E e \in Ends : LeaveEstablished(e)

Spec == Init /\ [][Next]_vars

(* Both hosts go on pumping, and the streams deliver (EventuallyDelivered  *)
(* of ArqEndpoint).  Nobody need start a transfer, or keep a session open. *)
FairSpec == Spec /\ WF_vars(SenderPump) /\ WF_vars(ReceiverPump)

-----------------------------------------------------------------------------
(* Properties.                                                             *)

FrameSet ==
    [type : FrameTypes, body : Files \cup Pieces \cup {OtherFile, Malformed, NoBody}]

(* The variables keep their types: in particular a receiver never works    *)
(* towards an OFFER that its validation should have refused (file.py:471). *)
TypeOK ==
    /\ data \in Files
    /\ sender \in SenderStates
    /\ auto_accept \in BOOLEAN
    /\ receiver \in ReceiverStates
    /\ expected \in Files \cup {OtherFile, NoBody}
    /\ buffer \in Seq(Chunks)
    /\ verified \in BOOLEAN
    /\ stream \in [Ends -> Seq(FrameSet)]
    /\ established \in [Ends -> BOOLEAN]

(* The flush-on-close guarantee (file.py:24-36): a sender that is COMPLETE *)
(* may close, as the receiver has the whole file, has verified it against  *)
(* what was offered, and nothing is in flight.                             *)
CompletionHandshake ==
    sender = "COMPLETE" =>
        /\ receiver = "COMPLETE"
        /\ verified
        /\ expected = data
        /\ buffer = data
        /\ stream = [e \in Ends |-> << >>]

(* From the first chunk to the verdict, what the receiver has put together *)
(* and what is in flight make up the file, each chunk once and in order,   *)
(* with DONE behind the last (file.py:281, 443), unless DONE was lost to a *)
(* receiver that could not answer it.                                      *)
ChunksAddUp ==
    sender = "DONE_SENT" /\ receiver = "RECEIVING" =>
        \/ \E k \in 0 .. Len(data) :
              /\ buffer = SubSeq(data, 1, k)
              /\ stream["receiver"] = ChunksAndDone(SubSeq(data, k + 1, Len(data)))
        \/ /\ ~ established["receiver"]
          /\ buffer = data
          /\ stream["receiver"] = << >>

(* Each end handles every frame in the state that expects it, so the rest  *)
(* of the two _handle_frame (file.py:261, 436), which ignores frames that  *)
(* come too early or too late, never has to drop one that matters.         *)
FramesFit ==
    /\ stream["sender"] # << >> =>
          \/ sender = "OFFERED" /\ Head(stream["sender"]).type \in {"ACCEPT", "REJECT"}
          \/ sender = "DONE_SENT" /\ Head(stream["sender"]).type \in {"ACK", "NACK"}
    /\ stream["receiver"] # << >> =>
          \/ receiver = "IDLE" /\ Head(stream["receiver"]).type = "OFFER"
          \/ receiver = "RECEIVING" /\ Head(stream["receiver"]).type \in {"CHUNK", "DONE"}

Verdict(state) ==
    IF state = "COMPLETE" THEN "complete"
    ELSE IF state = "FAILED" THEN "failed" ELSE "open"

Outcome ==
    INSTANCE TransferOutcome WITH verdict <- Verdict(receiver), known <- Verdict(sender)

(* The two ends never contradict one another: the sender takes a transfer  *)
(* for complete or failed only after the receiver has, and neither ever    *)
(* changes its mind (the state diagrams, file.py:119-128 and 313-318).     *)
ImplementsOutcome == Outcome!Spec

(* A transfer that was offered is decided, unless the receiver leaves the  *)
(* OFFER to its host or a session ends under it (file.py:281, 507): no     *)
(* sender waits for a verdict that is not going to come.                   *)
TransferDecided ==
    sender = "OFFERED" ~>
        \/ sender \in {"COMPLETE", "FAILED"}
        \/ ~ auto_accept /\ expected # NoBody
        \/ \E e \in Ends : ~ established[e]
=============================================================================
