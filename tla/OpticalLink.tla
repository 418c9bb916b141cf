---------------------------- MODULE OpticalLink ----------------------------
(***************************************************************************)
(* One direction of the optical channel.  On the phone: the sending half of  *)
(* an OpticalChannel over a KivyDisplay, the lens, and the receiving half  *)
(* of another OpticalChannel over a KivyCamera (src/photontcp/optical/     *)
(* channel.py, mobile/kivy_devices.py); and the same over the OpenCV       *)
(* devices (cv2_devices.py) and over the in-memory pair (devices.py).      *)
(* A step is what a thread does between two accesses to what it shares:    *)
(* the sender, the UI thread that renders, the camera callback, the        *)
(* capture thread, the callers of recv_frame and who closes the receiver.  *)
(***************************************************************************)
EXTENDS Naturals, Sequences, FiniteSets, SequencesExt

CONSTANTS
  Callers,      \* calls of recv_frame, each on a thread of its own
  TimedCallers, \* those with a timeout
  Payloads,     \* the packets sent
  MaxSends,     \* bound: calls of send_frame
  EarlySends,   \* bound: recv_frame and close are called before more than so many sends
  Settings,     \* the channels considered: over which device, nonce_mod is
                \* 256 ** _NONCE_BYTES, depth is _DEDUP_DEPTH, echo is how many of the
                \* latest images the lens may still see, sends the bound of this one
  NoFrame       \* Python's None

Devices == {"kivy", "cv2", "memory"}

\* Between two sightings of a frame at most echo - 1 newer ones and echo - 1 older
\* ones can be delivered; the constants of the code leave room for an echo of 4.
ASSUME OpticalAssumption ==
  /\ IsFiniteSet(Callers) /\ TimedCallers \subseteq Callers /\ NoFrame \notin Callers
  /\ NoFrame \notin [id : Nat, nonce : Nat, payload : Payloads]
  /\ MaxSends \in Nat /\ EarlySends \in Nat
  /\ \A s \in Settings :
       /\ s \in [device : Devices, nonce_mod : Nat, depth : Nat, echo : Nat \ {0}, sends : EarlySends..MaxSends]
       /\ 2 * s.echo - 1 <= s.depth /\ s.depth + s.echo <= s.nonce_mod

VARIABLES
  setting,  \* chosen once
  \* the sending channel and its display
  send_pc, send_nonce, sent, pending_show, scheduled, callbacks, display_closed,
  \* the UI thread and the screen
  screen,
  queue,  \* the frames between a MemoryDisplay and its MemoryCamera
  \* the camera: its callback, its slot and what read remembers
  submitting, pending, arrived, last, cam_closed,
  \* the capture thread
  threads, cap_pc, entry, recent, delivered, hidden,
  \* recv_frame, start and close of the receiving channel
  call_pc, start_lock, closed, close_pc, gave_up

sendVars    == <<send_pc, send_nonce, sent>>
displayVars == <<pending_show, scheduled, callbacks, display_closed>>
linkVars    == <<screen, queue>>
cameraVars  == <<submitting, pending, arrived, last, cam_closed>>
captureVars == <<threads, cap_pc, entry, recent, delivered, hidden>>
callVars    == <<call_pc, start_lock>>
closeVars   == <<closed, close_pc, gave_up>>
senderSide  == <<setting, sendVars, displayVars, linkVars>>
receiverSide == <<setting, cameraVars, captureVars, callVars, closeVars>>
vars == <<senderSide, receiverSide>>

\* A channel_frame: nonce and packet; id counts the sends and is history.
Frame == [id : 1..MaxSends, nonce : 0..setting.nonce_mod - 1, payload : Payloads]
Content(f) == <<f.nonce, f.payload>>
Ids(s) == {s[i].id : i \in DOMAIN s}

NewDisplay == pending_show = NoFrame /\ scheduled = FALSE /\ callbacks = 0 /\ display_closed = FALSE

NewCamera ==
  /\ submitting = NoFrame /\ pending = NoFrame /\ arrived = FALSE /\ last = NoFrame
  /\ cam_closed = FALSE

NewLink == screen = <<>> /\ queue = <<>>

Init ==
  /\ setting \in Settings
  /\ send_pc = "idle" /\ send_nonce = 0 /\ sent = 0
  /\ NewDisplay /\ NewCamera /\ NewLink
  /\ threads = 0 /\ cap_pc = "none" /\ entry = NoFrame /\ recent = <<>>
  /\ delivered = <<>> /\ hidden = {}
  /\ call_pc = [c \in Callers |-> "idle"]
  /\ start_lock = NoFrame
  /\ closed = FALSE /\ close_pc = "open" /\ gave_up = FALSE

-----------------------------------------------------------------------------
(* send_frame and KivyDisplay.show, on the sender's thread                 *)

SendBound == IF closed THEN EarlySends ELSE setting.sends

\* slip: the counter does not wrap.
NextNonceUnbounded(n) == n + 1

\* slip: the counter stands still.
NextNonceSame(n) == n

NextNonce(n) == (n + 1) % setting.nonce_mod

\* The screen shows the newest image; for a while the lens may still see older ones.
Show(f) == LET s == Append(screen, f) IN IF Len(s) > setting.echo THEN Tail(s) ELSE s

\* show of each display.  The one of the phone leaves the image to the UI thread.
KivyShow(f) ==
  /\ setting.device = "kivy"
  /\ pending_show' = f
  /\ scheduled' = TRUE
  /\ send_pc' = IF scheduled THEN "idle" ELSE "stored"
  /\ UNCHANGED <<callbacks, display_closed, linkVars>>

Cv2Show(f) ==
  /\ setting.device = "cv2"
  /\ screen' = Show(f)
  /\ UNCHANGED <<send_pc, displayVars, queue>>

MemoryShow(f) ==
  /\ setting.device = "memory"
  /\ queue' = Append(queue, f)
  /\ UNCHANGED <<send_pc, displayVars, screen>>

\* A packet beyond the capacity of a QR code raises in encode_frame, before anything
\* has changed: no step.  The nonce is the sender's own, so it may advance here.
SendFrame(p) ==
  /\ ~display_closed /\ send_pc = "idle" /\ sent < SendBound
  /\ sent' = sent + 1
  /\ LET f == [id |-> sent + 1, nonce |-> send_nonce, payload |-> p]
     IN  KivyShow(f) \/ Cv2Show(f) \/ MemoryShow(f)
  /\ send_nonce' = NextNonce(send_nonce)
  /\ UNCHANGED receiverSide

ShowSchedule ==
  /\ send_pc = "stored" /\ send_pc' = "idle"
  /\ callbacks' = callbacks + 1
  /\ UNCHANGED <<send_nonce, sent, pending_show, scheduled, display_closed, linkVars,
                 receiverSide>>

\* close of the sending channel, by the thread that sends.  A render between the flag
\* and the slot shows nothing, as one after both.
SenderClose ==
  /\ ~display_closed /\ send_pc = "idle" /\ sent <= EarlySends
  /\ display_closed' = TRUE
  /\ pending_show' = NoFrame
  /\ UNCHANGED <<sendVars, scheduled, callbacks, linkVars, receiverSide>>

-----------------------------------------------------------------------------
(* KivyDisplay._render, on the UI thread                                   *)

\* slip: a render is taken to be scheduled for ever.
RenderOnce ==
  /\ callbacks > 0
  /\ callbacks' = callbacks - 1
  /\ pending_show' = NoFrame
  /\ screen' = IF pending_show = NoFrame \/ display_closed THEN screen ELSE Show(pending_show)
  /\ UNCHANGED <<scheduled, display_closed, queue, sendVars, receiverSide>>

Render ==
  /\ callbacks > 0
  /\ callbacks' = callbacks - 1
  /\ pending_show' = NoFrame
  /\ scheduled' = FALSE
  /\ screen' = IF pending_show = NoFrame \/ display_closed THEN screen ELSE Show(pending_show)
  /\ UNCHANGED <<display_closed, queue, sendVars, receiverSide>>

Fade ==
  /\ Len(screen) > 1
  /\ screen' = <<Last(screen)>>
  /\ UNCHANGED <<sendVars, displayVars, queue, receiverSide>>

-----------------------------------------------------------------------------
(* KivyCamera.submit_frame, on the camera's callback thread                *)

SubmitFrame(f) ==
  /\ setting.device = "kivy"
  /\ submitting = NoFrame /\ ~cam_closed
  /\ submitting' = f
  /\ UNCHANGED <<pending, arrived, last, cam_closed, senderSide, captureVars, callVars, closeVars>>

SubmitStore ==
  /\ submitting # NoFrame
  /\ pending' = submitting
  /\ arrived' = TRUE
  /\ submitting' = NoFrame
  /\ UNCHANGED <<last, cam_closed, senderSide, captureVars, callVars, closeVars>>

\* The newest image, or one that the lens sees once more.
LensSees == {screen[i] : i \in DOMAIN screen}

-----------------------------------------------------------------------------
(* The capture thread: _capture_loop with the camera's read inside          *)

\* After an image without use the loop starts again.
LoopTop == cap_pc' = "top" /\ entry' = NoFrame

\* slip: the loop goes on for ever.
LoopTestForEver ==
  /\ cap_pc = "top" /\ cap_pc' = "reading"
  /\ UNCHANGED <<threads, entry, recent, delivered, hidden, senderSide, cameraVars,
                 callVars, closeVars>>

LoopTest ==
  /\ cap_pc = "top"
  /\ cap_pc' = IF closed THEN "dead" ELSE "reading"
  /\ UNCHANGED <<threads, entry, recent, delivered, hidden, senderSide, cameraVars,
                 callVars, closeVars>>

\* Woken by the event or by the timeout, read looks at _closed a second time.
ReadWakes ==
  /\ cap_pc = "reading"
  /\ cap_pc' = IF cam_closed THEN "top" ELSE "awake"
  /\ UNCHANGED <<threads, entry, recent, delivered, hidden, senderSide, cameraVars,
                 callVars, closeVars>>

\* slip: the event stays set.
KivyTakesLeavingEvent ==
  /\ setting.device = "kivy"
  /\ pending' = NoFrame
  /\ IF pending = NoFrame THEN LoopTop ELSE cap_pc' = "decoding" /\ entry' = pending
  /\ UNCHANGED <<submitting, arrived, last, cam_closed, linkVars>>

\* Without a new capture read returns the array it returned last, which the loop knows
\* by identity and skips.
KivyTakes ==
  /\ setting.device = "kivy"
  /\ pending' = NoFrame
  /\ arrived' = FALSE
  /\ IF pending = NoFrame THEN LoopTop ELSE cap_pc' = "decoding" /\ entry' = pending
  /\ UNCHANGED <<submitting, last, cam_closed, linkVars>>

\* A grab may fail; draining the driver's buffer leaves the freshest image it holds.
Cv2Grabs(f) ==
  /\ setting.device = "cv2"
  /\ cap_pc' = "decoding" /\ entry' = f
  /\ UNCHANGED <<cameraVars, linkVars>>
Cv2GrabFails == setting.device = "cv2" /\ LoopTop /\ UNCHANGED <<cameraVars, linkVars>>

\* An empty queue yields None or the last array, which is skipped as above.
MemoryGets ==
  /\ setting.device = "memory"
  /\ IF queue = <<>> THEN LoopTop /\ UNCHANGED queue
     ELSE queue' = Tail(queue) /\ cap_pc' = "decoding" /\ entry' = Head(queue)
  /\ UNCHANGED <<cameraVars, screen>>

Reads(read) ==
  /\ cap_pc = "awake"
  /\ read
  /\ UNCHANGED <<threads, recent, delivered, hidden, setting, sendVars, displayVars,
                 callVars, closeVars>>

ReadGrabs == Reads(\E f \in LensSees : Cv2Grabs(f))
ReadTakes == Reads(KivyTakes \/ Cv2GrabFails \/ MemoryGets)

\* What read and the loop do with the image in hand.  KivyCamera keeps it, unless
\* _frame_to_array has no use for the buffer, whose size, format or shape is another; then
\* read returns the last array, which is skipped.
ImageUnusable ==
  /\ cap_pc = "decoding"
  /\ LoopTop
  /\ UNCHANGED <<threads, recent, delivered, hidden, senderSide, cameraVars, callVars, closeVars>>

Keep ==
  /\ last' = IF setting.device = "kivy" THEN entry ELSE last
  /\ UNCHANGED <<submitting, pending, arrived, cam_closed>>

DecodeFails ==
  /\ cap_pc = "decoding"
  /\ Keep /\ LoopTop
  /\ UNCHANGED <<threads, recent, delivered, hidden, senderSide, callVars, closeVars>>

Suppressed(f) == \E i \in DOMAIN recent : Content(recent[i]) = Content(f)

\* slip: room for one frame less.
RememberFewer(f) ==
  LET s == Append(recent, f) IN IF Len(s) >= setting.depth THEN Tail(s) ELSE s

Remember(f) == LET s == Append(recent, f) IN IF Len(s) > setting.depth THEN Tail(s) ELSE s

\* A frame that is dropped without having been delivered before is recorded.
DecodeSuppressed ==
  /\ cap_pc = "decoding" /\ Suppressed(entry)
  /\ hidden' = IF entry.id \in Range(delivered) THEN hidden ELSE hidden \union {entry.id}
  /\ Keep /\ LoopTop
  /\ UNCHANGED <<threads, recent, delivered, senderSide, callVars, closeVars>>

DecodeDelivers ==
  /\ cap_pc = "decoding" /\ ~Suppressed(entry)
  /\ delivered' = Append(delivered, entry.id)
  /\ recent' = Remember(entry)
  /\ Keep /\ LoopTop
  /\ UNCHANGED <<threads, hidden, senderSide, callVars, closeVars>>

Decode == ImageUnusable \/ DecodeFails \/ DecodeSuppressed \/ DecodeDelivers

-----------------------------------------------------------------------------
(* recv_frame and start, on the threads that call them                     *)

Goto(c, pc) == call_pc' = [call_pc EXCEPT ![c] = pc]

\* slip: the thread is not looked at.
MayCreateOpen == ~closed

MayCreate == threads = 0 /\ ~closed

\* recv_frame, and start without the lock.  A closed channel returns None at once: no step.
RecvFrame(c) ==
  /\ call_pc[c] = "idle" /\ ~closed /\ sent <= EarlySends
  /\ Goto(c, IF MayCreate THEN "locking" ELSE "getting")
  /\ UNCHANGED <<start_lock, senderSide, cameraVars, captureVars, closeVars>>

\* start with the lock.
StartLocks(c) ==
  /\ call_pc[c] = "locking" /\ start_lock = NoFrame
  /\ IF MayCreate THEN start_lock' = c /\ Goto(c, "creating")
                  ELSE UNCHANGED start_lock /\ Goto(c, "getting")
  /\ UNCHANGED <<senderSide, cameraVars, captureVars, closeVars>>

StartCreates(c) ==
  /\ call_pc[c] = "creating"
  /\ threads' = threads + 1
  /\ cap_pc' = "top"
  /\ start_lock' = NoFrame
  /\ Goto(c, "getting")
  /\ UNCHANGED <<entry, recent, delivered, hidden, senderSide, cameraVars, closeVars>>

\* inbox.get: the packets put and not yet taken.
Inbox == Len(delivered) - Cardinality({c \in Callers : call_pc[c] = "got"})

GetsFrame(c) ==
  /\ call_pc[c] = "getting" /\ Inbox > 0
  /\ Goto(c, "got")
  /\ UNCHANGED <<start_lock, senderSide, cameraVars, captureVars, closeVars>>

GetTimesOut(c) ==
  /\ call_pc[c] = "getting" /\ c \in TimedCallers /\ Inbox = 0
  /\ Goto(c, "empty")
  /\ UNCHANGED <<start_lock, senderSide, cameraVars, captureVars, closeVars>>

-----------------------------------------------------------------------------
(* close of the receiving channel and of its camera, on one thread         *)

CloseFlag ==
  /\ close_pc = "open" /\ close_pc' = "flagged" /\ sent <= EarlySends
  /\ closed' = TRUE
  /\ UNCHANGED <<gave_up, senderSide, cameraVars, captureVars, callVars>>

CaptureAlive == cap_pc \notin {"none", "dead"}

\* The thread is read once; there may be none yet, or none any more.
CloseLooks ==
  /\ close_pc = "flagged"
  /\ close_pc' = IF CaptureAlive THEN "joining" ELSE "joined"
  /\ UNCHANGED <<closed, gave_up, senderSide, cameraVars, captureVars, callVars>>

CloseJoins ==
  /\ close_pc = "joining" /\ close_pc' = "joined"
  /\ \/ ~CaptureAlive /\ UNCHANGED gave_up
     \/ CaptureAlive /\ gave_up' = TRUE
  /\ UNCHANGED <<closed, senderSide, cameraVars, captureVars, callVars>>

CameraFlag ==
  /\ close_pc = "joined" /\ close_pc' = "clearing"
  /\ cam_closed' = TRUE
  /\ UNCHANGED <<closed, gave_up, submitting, pending, arrived, last, senderSide,
                 captureVars, callVars>>

CameraClear ==
  /\ close_pc = "clearing" /\ close_pc' = "waking"
  /\ pending' = NoFrame /\ last' = NoFrame
  /\ UNCHANGED <<closed, gave_up, submitting, arrived, cam_closed, senderSide,
                 captureVars, callVars>>

CameraWake ==
  /\ close_pc = "waking" /\ close_pc' = "closed"
  /\ arrived' = TRUE
  /\ UNCHANGED <<closed, gave_up, submitting, pending, last, cam_closed, senderSide,
                 captureVars, callVars>>

-----------------------------------------------------------------------------
Sender == (\E p \in Payloads : SendFrame(p)) \/ ShowSchedule \/ SenderClose
Camera == (\E f \in LensSees : SubmitFrame(f)) \/ SubmitStore
Capture == LoopTest \/ ReadWakes \/ ReadGrabs \/ ReadTakes \/ Decode
Start(c) == StartLocks(c) \/ StartCreates(c)
Caller(c) == RecvFrame(c) \/ Start(c) \/ GetsFrame(c) \/ GetTimesOut(c)
Closer == CloseFlag \/ CloseLooks \/ CloseJoins \/ CameraFlag \/ CameraClear \/ CameraWake

Next == Sender \/ Render \/ Fade \/ Camera \/ Capture \/ (\E c \in Callers : Caller(c)) \/ Closer

Spec == Init /\ [][Next]_vars

\* Threads go on, the callback sees the newest image again and again, and decoding it
\* does not fail for ever.
CallerSteps(c) == Start(c) \/ GetsFrame(c) \/ GetTimesOut(c)
SubmitNewest == screen # <<>> /\ SubmitFrame(Last(screen))

Fairness ==
  /\ WF_vars(ShowSchedule) /\ WF_vars(Render) /\ WF_vars(Fade)
  /\ WF_vars(SubmitNewest) /\ WF_vars(SubmitStore)
  /\ WF_vars(Capture) /\ SF_vars(ReadGrabs)
  /\ SF_vars(DecodeSuppressed \/ DecodeDelivers)
  /\ \A c \in Callers : WF_vars(CallerSteps(c))
  /\ WF_vars(close_pc # "open" /\ Closer)

FairSpec == Spec /\ Fairness

-----------------------------------------------------------------------------
FrameOrNone == Frame \union {NoFrame}

TypeOK ==
  /\ setting \in Settings
  /\ send_pc \in {"idle", "stored"} /\ sent \in 0..MaxSends
  /\ send_nonce \in 0..setting.nonce_mod - 1
  /\ pending_show \in FrameOrNone /\ scheduled \in BOOLEAN /\ callbacks \in 0..1
  /\ display_closed \in BOOLEAN
  /\ queue \in Seq(Frame) /\ screen \in Seq(Frame) /\ Len(screen) <= setting.echo
  /\ submitting \in FrameOrNone /\ pending \in FrameOrNone /\ last \in FrameOrNone
  /\ arrived \in BOOLEAN /\ cam_closed \in BOOLEAN
  /\ threads \in 0..Cardinality(Callers)
  /\ cap_pc \in {"none", "top", "reading", "awake", "decoding", "dead"}
  /\ entry \in FrameOrNone
  /\ recent \in Seq(Frame) /\ Len(recent) <= setting.depth
  /\ delivered \in Seq(1..MaxSends) /\ hidden \subseteq 1..MaxSends
  /\ call_pc \in [Callers -> {"idle", "locking", "creating", "getting", "got", "empty"}]
  /\ start_lock \in Callers \union {NoFrame}
  /\ closed \in BOOLEAN /\ gave_up \in BOOLEAN
  /\ close_pc \in {"open", "flagged", "joining", "joined", "clearing", "waking", "closed"}

\* A frame that is shown once reaches the inbox at most once, however often the lens
\* sees it and in whatever order (channel.py:440, "so this can never drop a real frame
\* ..." and _DEDUP_DEPTH at 142).
DeliveredOnce == IsInjective(delivered)

Between(f, g) == {i \in 1..MaxSends : (f < i /\ i < g) \/ (g < i /\ i < f)}

\* The window drops a frame nobody has received only in favour of one whose nonce is the
\* same because it went all the way round, and then of the frames in between not even
\* depth + echo - 2 have come through; the other may be the older one, or be newer and have been
\* seen first (channel.py:440-445, 374-377).
HiddenOnlyAfterLosses ==
  [][\A f \in hidden' \ hidden :
       \E g \in Range(delivered) :
         /\ g # f /\ (f - g) % setting.nonce_mod = 0
         /\ Cardinality(Between(f, g) \ Range(delivered))
              > setting.nonce_mod - setting.depth - setting.echo]_vars

\* No frame waits in a slot without somebody on the way to fetch it, and no signal
\* is up over an empty slot (kivy_devices.py:281-285 and 421-425).
SlotsSignalled ==
  /\ pending_show # NoFrame => scheduled
  /\ scheduled <=> (callbacks = 1 \/ send_pc = "stored")
  /\ ~cam_closed => (arrived <=> pending # NoFrame)

\* However many threads call recv_frame at once there is one capture thread, and it
\* does not touch the camera while close takes it apart, unless close has given up
\* waiting for it (channel.py:310-316 and 466-475).
OneReader ==
  /\ threads <= 1
  /\ cam_closed /\ cap_pc \in {"reading", "awake", "decoding"} => gave_up

\* The frame that stays on a screen arrives, unless the window hides it or an end is
\* closed (channel.py:432-449).
NewestArrives ==
  \A i \in 1..MaxSends :
    sent = i /\ threads > 0 /\ setting.device # "memory"
      ~> sent > i \/ i \in Range(delivered) \/ i \in hidden \/ closed \/ display_closed

\* close comes to an end, the capture thread stops and every recv_frame with a timeout
\* returns (channel.py:458-475).  One without a timeout that finds no frame goes on waiting.
CloseReleases ==
  close_pc = "flagged"
    ~> /\ close_pc = "closed" /\ ~CaptureAlive
       /\ \A c \in TimedCallers : call_pc[c] \in {"idle", "got", "empty"}
=============================================================================
