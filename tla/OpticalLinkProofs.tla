------------------------- MODULE OpticalLinkProofs -------------------------
(***************************************************************************)
(* Proofs about OpticalLink: for any number of callers, frames and         *)
(* packets, over every device, the slots and their signals agree and the   *)
(* camera has one reader, which is gone or given up when it is closed;     *)
(* every variable keeps its type, no frame is delivered twice, and one     *)
(* nobody received is hidden only where the nonce has come round.          *)
(***************************************************************************)
EXTENDS OpticalLink, FiniteSetTheorems, TLAPS

\* The slots, with what else is up when a signal is.
SlotInv ==
  /\ SlotsSignalled
  /\ callbacks \in 0..1 /\ (send_pc = "stored" => callbacks = 0)
  /\ cam_closed <=> close_pc \in {"clearing", "waking", "closed"}

\* The lock belongs to the one caller that is about to make the one thread; a close that
\* looked for the thread found it gone, or none yet, which then finds the flag set.
ThreadInv ==
  /\ threads = IF cap_pc = "none" THEN 0 ELSE 1
  /\ DOMAIN call_pc = Callers /\ \A c \in Callers : call_pc[c] = "creating" => start_lock = c
  /\ start_lock # NoFrame => threads = 0
  /\ close_pc # "open" => closed
  /\ cam_closed => close_pc \in {"clearing", "waking", "closed"}
  /\ close_pc \in {"joined", "clearing", "waking", "closed"} /\ cap_pc \in {"reading", "awake", "decoding"} => gave_up

IInv == SlotInv /\ ThreadInv

LEMMA InitHolds == Init => IInv
  BY OpticalAssumption DEF Init, NewDisplay, NewCamera, NewLink, IInv, SlotInv, ThreadInv, SlotsSignalled

LEMMA SendFrameKeeps ==
  ASSUME IInv, NEW p \in Payloads, SendFrame(p)
  PROVE  IInv'
<1>1. SlotInv'
  BY DEF IInv, SlotInv, ThreadInv, SlotsSignalled, SendFrame, KivyShow, Cv2Show, MemoryShow, displayVars, linkVars, receiverSide, cameraVars, captureVars, callVars, closeVars
<1>2. ThreadInv'
  BY DEF IInv, ThreadInv, SendFrame, KivyShow, Cv2Show, MemoryShow, displayVars, linkVars, receiverSide, cameraVars, captureVars, callVars, closeVars
<1> QED
  BY <1>1, <1>2 DEF IInv

LEMMA ShowScheduleKeeps ==
  ASSUME IInv, ShowSchedule
  PROVE  IInv'
<1>1. SlotInv'
  BY DEF IInv, SlotInv, ThreadInv, SlotsSignalled, ShowSchedule, receiverSide, cameraVars, captureVars, callVars, closeVars
<1>2. ThreadInv'
  BY DEF IInv, ThreadInv, ShowSchedule, receiverSide, cameraVars, captureVars, callVars, closeVars
<1> QED
  BY <1>1, <1>2 DEF IInv

LEMMA SenderCloseKeeps ==
  ASSUME IInv, SenderClose
  PROVE  IInv'
<1>1. SlotInv'
  BY DEF IInv, SlotInv, ThreadInv, SlotsSignalled, SenderClose, sendVars, receiverSide, cameraVars, captureVars, callVars, closeVars
<1>2. ThreadInv'
  BY DEF IInv, ThreadInv, SenderClose, sendVars, receiverSide, cameraVars, captureVars, callVars, closeVars
<1> QED
  BY <1>1, <1>2 DEF IInv

LEMMA RenderKeeps ==
  ASSUME IInv, Render
  PROVE  IInv'
<1>1. SlotInv'
  BY DEF IInv, SlotInv, ThreadInv, SlotsSignalled, Render, sendVars, receiverSide, cameraVars, captureVars, callVars, closeVars
<1>2. ThreadInv'
  BY DEF IInv, ThreadInv, Render, sendVars, receiverSide, cameraVars, captureVars, callVars, closeVars
<1> QED
  BY <1>1, <1>2 DEF IInv

LEMMA FadeKeeps ==
  ASSUME IInv, Fade
  PROVE  IInv'
<1>1. SlotInv'
  BY DEF IInv, SlotInv, ThreadInv, SlotsSignalled, Fade, sendVars, displayVars, receiverSide, cameraVars, captureVars, callVars, closeVars
<1>2. ThreadInv'
  BY DEF IInv, ThreadInv, Fade, sendVars, displayVars, receiverSide, cameraVars, captureVars, callVars, closeVars
<1> QED
  BY <1>1, <1>2 DEF IInv

LEMMA SubmitKeeps ==
  ASSUME IInv, NEW f, SubmitFrame(f) \/ SubmitStore
  PROVE  IInv'
<1>1. SlotInv'
  BY DEF IInv, SlotInv, ThreadInv, SlotsSignalled, SubmitFrame, SubmitStore, captureVars, callVars, closeVars, senderSide, sendVars, displayVars, linkVars
<1>2. ThreadInv'
  BY DEF IInv, ThreadInv, SubmitFrame, SubmitStore, captureVars, callVars, closeVars, senderSide, sendVars, displayVars, linkVars
<1> QED
  BY <1>1, <1>2 DEF IInv

LEMMA LoopTestKeeps ==
  ASSUME IInv, LoopTest \/ ReadWakes
  PROVE  IInv'
<1>1. SlotInv'
  BY DEF IInv, SlotInv, ThreadInv, SlotsSignalled, LoopTest, ReadWakes, cameraVars, callVars, closeVars, senderSide, sendVars, displayVars, linkVars
<1>2. ThreadInv'
  BY DEF IInv, ThreadInv, LoopTest, ReadWakes, cameraVars, callVars, closeVars, senderSide, sendVars, displayVars, linkVars
<1> QED
  BY <1>1, <1>2 DEF IInv

LEMMA ReadTakesKeeps ==
  ASSUME IInv, ReadTakes
  PROVE  IInv'
<1>1. SlotInv'
  BY DEF IInv, SlotInv, ThreadInv, SlotsSignalled, ReadTakes, Reads, KivyTakes, Cv2GrabFails, MemoryGets, LoopTop, sendVars, displayVars, linkVars, cameraVars, callVars, closeVars
<1>2. ThreadInv'
  BY DEF IInv, ThreadInv, ReadTakes, Reads, KivyTakes, Cv2GrabFails, MemoryGets, LoopTop, sendVars, displayVars, linkVars, cameraVars, callVars, closeVars
<1> QED
  BY <1>1, <1>2 DEF IInv

LEMMA ReadGrabsKeeps ==
  ASSUME IInv, ReadGrabs
  PROVE  IInv'
<1>1. SlotInv'
  BY DEF IInv, SlotInv, ThreadInv, SlotsSignalled, ReadGrabs, Reads, Cv2Grabs, sendVars, displayVars, linkVars, cameraVars, callVars, closeVars
<1>2. ThreadInv'
  BY DEF IInv, ThreadInv, ReadGrabs, Reads, Cv2Grabs, sendVars, displayVars, linkVars, cameraVars, callVars, closeVars
<1> QED
  BY <1>1, <1>2 DEF IInv

LEMMA DecodeKeeps ==
  ASSUME IInv, Decode
  PROVE  IInv'
<1>1. SlotInv'
  BY DEF IInv, SlotInv, ThreadInv, SlotsSignalled, Decode, ImageUnusable, DecodeFails, DecodeSuppressed, DecodeDelivers, Keep, LoopTop, cameraVars, callVars, closeVars, senderSide, sendVars, displayVars, linkVars
<1>2. ThreadInv'
  BY DEF IInv, ThreadInv, Decode, ImageUnusable, DecodeFails, DecodeSuppressed, DecodeDelivers, Keep, LoopTop, cameraVars, callVars, closeVars, senderSide, sendVars, displayVars, linkVars
<1> QED
  BY <1>1, <1>2 DEF IInv

LEMMA RecvFrameKeeps ==
  ASSUME IInv, NEW c \in Callers, RecvFrame(c) \/ GetsFrame(c) \/ GetTimesOut(c)
  PROVE  IInv'
<1>1. SlotInv'
  BY DEF IInv, SlotInv, ThreadInv, SlotsSignalled, RecvFrame, GetsFrame, GetTimesOut, Goto, cameraVars, captureVars, closeVars, senderSide, sendVars, displayVars, linkVars
<1>2. ThreadInv'
  BY DEF IInv, ThreadInv, RecvFrame, GetsFrame, GetTimesOut, Goto, cameraVars, captureVars, closeVars, senderSide, sendVars, displayVars, linkVars
<1> QED
  BY <1>1, <1>2 DEF IInv

LEMMA StartLocksKeeps ==
  ASSUME IInv, NEW c \in Callers, StartLocks(c)
  PROVE  IInv'
<1>1. SlotInv'
  BY OpticalAssumption DEF IInv, SlotInv, ThreadInv, SlotsSignalled, StartLocks, MayCreate, Goto, cameraVars, captureVars, closeVars, senderSide, sendVars, displayVars, linkVars
<1>2. ThreadInv'
  BY OpticalAssumption DEF IInv, ThreadInv, StartLocks, MayCreate, Goto, cameraVars, captureVars, closeVars, senderSide, sendVars, displayVars, linkVars
<1> QED
  BY <1>1, <1>2 DEF IInv

LEMMA StartCreatesKeeps ==
  ASSUME IInv, NEW c \in Callers, StartCreates(c)
  PROVE  IInv'
<1>1. SlotInv'
  BY OpticalAssumption DEF IInv, SlotInv, ThreadInv, SlotsSignalled, StartCreates, Goto, cameraVars, closeVars, senderSide, sendVars, displayVars, linkVars
<1>2. ThreadInv'
  BY OpticalAssumption DEF IInv, ThreadInv, StartCreates, Goto, cameraVars, closeVars, senderSide, sendVars, displayVars, linkVars
<1> QED
  BY <1>1, <1>2 DEF IInv

LEMMA CloserKeeps ==
  ASSUME IInv, Closer
  PROVE  IInv'
<1>1. SlotInv'
  BY DEF IInv, SlotInv, ThreadInv, SlotsSignalled, Closer, CloseFlag, CloseLooks, CloseJoins, CameraFlag, CameraClear, CameraWake, CaptureAlive, cameraVars, captureVars, callVars, senderSide, sendVars, displayVars, linkVars
<1>2. ThreadInv'
  BY DEF IInv, ThreadInv, Closer, CloseFlag, CloseLooks, CloseJoins, CameraFlag, CameraClear, CameraWake, CaptureAlive, cameraVars, captureVars, callVars, senderSide, sendVars, displayVars, linkVars
<1> QED
  BY <1>1, <1>2 DEF IInv

LEMMA NextKeeps ==
  ASSUME IInv, [Next]_vars
  PROVE  IInv'
<1>1. CASE UNCHANGED vars
  <2>1. SlotInv'
    BY <1>1 DEF IInv, SlotInv, SlotsSignalled, vars, senderSide, receiverSide, sendVars, displayVars, linkVars, cameraVars, captureVars, callVars, closeVars
  <2>2. ThreadInv'
    BY <1>1 DEF IInv, ThreadInv, vars, senderSide, receiverSide, sendVars, displayVars, linkVars, cameraVars, captureVars, callVars, closeVars
  <2> QED
    BY <2>1, <2>2 DEF IInv
<1>2. CASE Sender \/ Render \/ Fade \/ Camera
  BY <1>2, SendFrameKeeps, ShowScheduleKeeps, SenderCloseKeeps, RenderKeeps, FadeKeeps, SubmitKeeps DEF Sender, Camera
<1>3. CASE Capture
  BY <1>3, LoopTestKeeps, ReadTakesKeeps, ReadGrabsKeeps, DecodeKeeps DEF Capture
<1>4. CASE (\E c \in Callers : Caller(c)) \/ Closer
  BY <1>4, RecvFrameKeeps, StartLocksKeeps, StartCreatesKeeps, CloserKeeps DEF Caller, Start
<1> QED
  BY <1>1, <1>2, <1>3, <1>4 DEF Next

----------------------------------------------------------------------------

\* What the assumption says of a setting.
LEMMA SettingFacts ==
  ASSUME NEW s \in Settings
  PROVE  /\ s.device \in Devices /\ s.nonce_mod \in Nat /\ s.depth \in Nat /\ s.echo \in Nat \ {0}
         /\ s.sends \in EarlySends..MaxSends /\ EarlySends \in Nat /\ MaxSends \in Nat
         /\ 2 * s.echo - 1 <= s.depth /\ s.depth + s.echo <= s.nonce_mod
  BY OpticalAssumption

LEMMA NonceWraps ==
  ASSUME NEW m \in Nat \ {0}, NEW n \in 0..m - 1
  PROVE  (n + 1) % m \in 0..m - 1
  OBVIOUS

LEMMA SettingKept ==
  ASSUME [Next]_vars
  PROVE  setting' = setting /\ Frame' = Frame /\ FrameOrNone' = FrameOrNone
<1>1. setting' = setting
  <2>1. CASE UNCHANGED vars
    BY <2>1 DEF vars, senderSide
  <2>2. CASE Sender \/ Render \/ Fade
    BY <2>2 DEF Sender, SendFrame, ShowSchedule, SenderClose, Render, Fade, receiverSide
  <2>3. CASE Camera
    BY <2>3 DEF Camera, SubmitFrame, SubmitStore, senderSide
  <2>4. CASE Capture
    BY <2>4 DEF Capture, LoopTest, ReadWakes, ReadGrabs, ReadTakes, Reads, Decode, ImageUnusable, DecodeFails,
                DecodeSuppressed, DecodeDelivers, senderSide
  <2>5. CASE \E c \in Callers : Caller(c)
    BY <2>5 DEF Caller, Start, RecvFrame, StartLocks, StartCreates, GetsFrame, GetTimesOut, senderSide
  <2>6. CASE Closer
    BY <2>6 DEF Closer, CloseFlag, CloseLooks, CloseJoins, CameraFlag, CameraClear, CameraWake, senderSide
  <2> QED
    BY <2>1, <2>2, <2>3, <2>4, <2>5, <2>6 DEF Next
<1> QED
  BY <1>1 DEF Frame, FrameOrNone

\* TypeOK in parts.  What is in hand while the loop decodes is a frame.
SenderTypes ==
  /\ setting \in Settings
  /\ send_pc \in {"idle", "stored"} /\ sent \in 0..setting.sends /\ send_nonce \in 0..setting.nonce_mod - 1
  /\ pending_show \in FrameOrNone /\ scheduled \in BOOLEAN /\ display_closed \in BOOLEAN
  /\ queue \in Seq(Frame) /\ screen \in Seq(Frame) /\ Len(screen) <= setting.echo

CameraTypes ==
  /\ submitting \in FrameOrNone /\ pending \in FrameOrNone /\ last \in FrameOrNone
  /\ arrived \in BOOLEAN /\ cam_closed \in BOOLEAN

CaptureTypes ==
  /\ cap_pc \in {"none", "top", "reading", "awake", "decoding", "dead"}
  /\ entry \in FrameOrNone /\ (cap_pc = "decoding" => entry \in Frame)
  /\ recent \in Seq(Frame) /\ Len(recent) <= setting.depth
  /\ delivered \in Seq(1..MaxSends) /\ hidden \subseteq 1..MaxSends

CallTypes ==
  /\ threads \in 0..Cardinality(Callers)
  /\ call_pc \in [Callers -> {"idle", "locking", "creating", "getting", "got", "empty"}]
  /\ start_lock \in Callers \union {NoFrame}
  /\ closed \in BOOLEAN /\ gave_up \in BOOLEAN
  /\ close_pc \in {"open", "flagged", "joining", "joined", "clearing", "waking", "closed"}

Types == SenderTypes /\ CameraTypes /\ CaptureTypes /\ CallTypes

LEMMA TypesInit == Init => Types
<1> SUFFICES ASSUME Init PROVE Types
  OBVIOUS
<1>1. SenderTypes
  <2>1. setting.nonce_mod \in Nat \ {0} /\ setting.echo \in Nat /\ setting.sends \in Nat
    BY SettingFacts DEF Init
  <2>2. screen = <<>> /\ queue = <<>> /\ <<>> \in Seq(Frame) /\ Len(<<>>) = 0
    BY DEF Init, NewLink
  <2>3. scheduled \in BOOLEAN /\ display_closed \in BOOLEAN /\ pending_show \in FrameOrNone
    BY DEF Init, NewDisplay, FrameOrNone
  <2>4. send_pc = "idle" /\ send_nonce = 0 /\ sent = 0 /\ setting \in Settings
    BY DEF Init
  <2> QED
    BY <2>1, <2>2, <2>3, <2>4 DEF SenderTypes
<1>2. CameraTypes
  BY DEF Init, NewCamera, CameraTypes, FrameOrNone
<1>3. CaptureTypes
  BY SettingFacts DEF Init, CaptureTypes, FrameOrNone
<1>4. CallTypes
  <2>1. Cardinality(Callers) \in Nat
    BY OpticalAssumption, FS_CardinalityType
  <2>2. call_pc \in [Callers -> {"idle", "locking", "creating", "getting", "got", "empty"}]
    BY DEF Init
  <2>3. closed \in BOOLEAN /\ gave_up \in BOOLEAN
    BY DEF Init
  <2>4. threads = 0 /\ start_lock = NoFrame /\ close_pc = "open"
    BY DEF Init
  <2> QED
    BY <2>1, <2>2, <2>3, <2>4 DEF CallTypes
<1> QED
  BY <1>1, <1>2, <1>3, <1>4 DEF Types

\* What Show makes of the screen.
LEMMA ShowType ==
  ASSUME SenderTypes, NEW f \in Frame
  PROVE  Show(f) \in Seq(Frame) /\ Len(Show(f)) <= setting.echo /\ Show(f) # <<>>
<1> DEFINE s == Append(screen, f)
<1>1. s \in Seq(Frame) /\ Len(s) = Len(screen) + 1 /\ Len(screen) \in Nat
  BY DEF SenderTypes
<1>2. setting.echo \in Nat \ {0} /\ Len(screen) <= setting.echo
  BY SettingFacts DEF SenderTypes
<1> HIDE DEF s
<1>3. CASE Len(s) > setting.echo
  <2>1. Show(f) = Tail(s)
    BY <1>3 DEF Show, s
  <2>2. Tail(s) \in Seq(Frame) /\ Len(Tail(s)) = Len(s) - 1
    BY <1>1, <1>2, <1>3
  <2> QED
    BY <2>1, <2>2, <1>1, <1>2, <1>3
<1>4. CASE ~(Len(s) > setting.echo)
  <2>1. Show(f) = s
    BY <1>4 DEF Show, s
  <2> QED
    BY <2>1, <1>1, <1>2, <1>4
<1> QED
  BY <1>3, <1>4

\* The frame sent next.
NewFrame(p) == [id |-> sent + 1, nonce |-> send_nonce, payload |-> p]

LEMMA NewFrameType ==
  ASSUME SenderTypes, NEW p \in Payloads, SendFrame(p)
  PROVE  NewFrame(p) \in Frame /\ sent' \in 0..setting.sends /\ sent' = sent + 1
<1>1. sent \in Nat /\ sent < setting.sends /\ setting.sends \in Nat /\ setting.sends <= MaxSends /\ MaxSends \in Nat
  BY SettingFacts DEF SenderTypes, SendFrame, SendBound
<1>2. sent' = sent + 1
  BY DEF SendFrame
<1> QED
  BY <1>1, <1>2 DEF NewFrame, Frame, SenderTypes

\* A step of the sender leaves the receiver as it is.
LEMMA ReceiverTypes ==
  ASSUME Types, UNCHANGED receiverSide
  PROVE  CameraTypes' /\ CaptureTypes' /\ CallTypes'
<1>1. setting' = setting /\ Frame' = Frame /\ FrameOrNone' = FrameOrNone
  BY DEF receiverSide, Frame, FrameOrNone
<1>2. UNCHANGED <<cameraVars, captureVars, callVars, closeVars>>
  BY DEF receiverSide
<1>3. CameraTypes'
  BY <1>1, <1>2 DEF Types, CameraTypes, cameraVars
<1>4. CaptureTypes'
  BY <1>1, <1>2 DEF Types, CaptureTypes, captureVars
<1>5. CallTypes'
  BY <1>2 DEF Types, CallTypes, callVars, closeVars, captureVars
<1> QED
  BY <1>3, <1>4, <1>5

LEMMA SendFrameTypes ==
  ASSUME Types, NEW p \in Payloads, SendFrame(p)
  PROVE  Types'
<1> USE DEF Types
<1>1. setting' = setting /\ Frame' = Frame /\ FrameOrNone' = FrameOrNone
  BY DEF SendFrame, receiverSide, Frame, FrameOrNone
<1>2. NewFrame(p) \in Frame /\ sent' \in 0..setting.sends
  BY NewFrameType
<1>3. send_nonce' \in 0..setting.nonce_mod - 1
  <2>1. setting.nonce_mod \in Nat \ {0}
    BY SettingFacts DEF SenderTypes
  <2>2. send_nonce' = (send_nonce + 1) % setting.nonce_mod
    BY DEF SendFrame, NextNonce
  <2> QED
    BY <2>1, <2>2, NonceWraps DEF SenderTypes
<1>4. Show(NewFrame(p)) \in Seq(Frame) /\ Len(Show(NewFrame(p))) <= setting.echo
  BY <1>2, ShowType
<1>5. SenderTypes'
  <2>1. KivyShow(NewFrame(p)) \/ Cv2Show(NewFrame(p)) \/ MemoryShow(NewFrame(p))
    BY DEF SendFrame, NewFrame
  <2>2. send_pc' \in {"idle", "stored"} /\ pending_show' \in FrameOrNone /\ scheduled' \in BOOLEAN /\ display_closed' \in BOOLEAN
    BY <2>1, <1>2 DEF SenderTypes, KivyShow, Cv2Show, MemoryShow, displayVars, FrameOrNone
  <2>3. queue' \in Seq(Frame) /\ screen' \in Seq(Frame) /\ Len(screen') <= setting.echo
    <3>1. CASE KivyShow(NewFrame(p)) \/ Cv2Show(NewFrame(p))
      BY <3>1, <1>4 DEF SenderTypes, KivyShow, Cv2Show, linkVars
    <3>2. CASE MemoryShow(NewFrame(p))
      <4>1. Append(queue, NewFrame(p)) \in Seq(Frame)
        BY <1>2 DEF SenderTypes
      <4> QED
        BY <3>2, <4>1 DEF SenderTypes, MemoryShow
    <3> QED
      BY <2>1, <3>1, <3>2
  <2> QED
    BY <1>1, <1>2, <1>3, <2>2, <2>3 DEF SenderTypes
<1> QED
  <2>1. UNCHANGED receiverSide
    BY DEF SendFrame
  <2> QED
    BY <1>5, <2>1, ReceiverTypes

LEMMA DisplayTypes ==
  ASSUME Types, ShowSchedule \/ SenderClose \/ Render \/ Fade
  PROVE  Types'
<1> USE DEF Types
<1>1. setting' = setting /\ Frame' = Frame /\ FrameOrNone' = FrameOrNone
  BY DEF ShowSchedule, SenderClose, Render, Fade, receiverSide, Frame, FrameOrNone
<1>2. CameraTypes' /\ CaptureTypes' /\ CallTypes'
  <2>1. UNCHANGED receiverSide
    BY DEF ShowSchedule, SenderClose, Render, Fade
  <2> QED
    BY <2>1, ReceiverTypes
<1>3. CASE ShowSchedule \/ SenderClose
  BY <1>1, <1>2, <1>3 DEF ShowSchedule, SenderClose, SenderTypes, sendVars, linkVars, FrameOrNone
<1>4. CASE Render
  <2>1. screen' \in Seq(Frame) /\ Len(screen') <= setting.echo
    BY <1>4, ShowType DEF Render, SenderTypes, FrameOrNone
  <2> QED
    BY <1>1, <1>2, <1>4, <2>1 DEF Render, SenderTypes, sendVars, FrameOrNone
<1>5. CASE Fade
  <2>1. screen' \in Seq(Frame) /\ Len(screen') = 1
    BY <1>5 DEF Fade, SenderTypes, Last
  <2> QED
    BY <1>1, <1>2, <1>5, <2>1, SettingFacts DEF Fade, SenderTypes, sendVars, displayVars
<1> QED
  BY <1>3, <1>4, <1>5

LEMMA CameraStepTypes ==
  ASSUME Types, Camera
  PROVE  Types'
<1> USE DEF Types
<1>1. setting' = setting /\ Frame' = Frame /\ FrameOrNone' = FrameOrNone
  BY DEF Camera, SubmitFrame, SubmitStore, senderSide, Frame, FrameOrNone
<1>2. SenderTypes'
  BY <1>1 DEF Camera, SubmitFrame, SubmitStore, SenderTypes, senderSide, sendVars, displayVars, linkVars
<1>3. CaptureTypes' /\ CallTypes'
  BY <1>1 DEF Camera, SubmitFrame, SubmitStore, CaptureTypes, CallTypes, captureVars, callVars, closeVars
<1>4. LensSees \subseteq Frame
  BY DEF LensSees, SenderTypes
<1>5. CameraTypes'
  BY <1>1, <1>4 DEF Camera, SubmitFrame, SubmitStore, CameraTypes, FrameOrNone
<1> QED
  BY <1>2, <1>3, <1>5

LEMMA ReadTypes ==
  ASSUME Types, LoopTest \/ ReadWakes \/ ReadGrabs \/ ReadTakes
  PROVE  Types'
<1> USE DEF Types
<1>1. setting' = setting /\ Frame' = Frame /\ FrameOrNone' = FrameOrNone
  BY DEF LoopTest, ReadWakes, ReadGrabs, ReadTakes, Reads, senderSide, Frame, FrameOrNone
<1>2. CallTypes'
  BY <1>1 DEF LoopTest, ReadWakes, ReadGrabs, ReadTakes, Reads, CallTypes, callVars, closeVars
<1>3. CASE LoopTest \/ ReadWakes
  BY <1>1, <1>2, <1>3 DEF LoopTest, ReadWakes, SenderTypes, CameraTypes, CaptureTypes, senderSide, sendVars, displayVars, linkVars, cameraVars
<1>4. CASE ReadGrabs
  <2>1. LensSees \subseteq Frame
    BY DEF LensSees, SenderTypes
  <2>2. CaptureTypes'
    BY <1>1, <1>4, <2>1 DEF ReadGrabs, Reads, Cv2Grabs, CaptureTypes, FrameOrNone
  <2> QED
    BY <1>1, <1>2, <1>4, <2>2 DEF ReadGrabs, Reads, Cv2Grabs, SenderTypes, CameraTypes, sendVars, displayVars, linkVars, cameraVars
<1>5. CASE ReadTakes
  <2>1. queue # <<>> => Head(queue) \in Frame /\ Tail(queue) \in Seq(Frame)
    BY DEF SenderTypes
  <2>2. CaptureTypes'
    BY <1>1, <1>5, <2>1 DEF ReadTakes, Reads, KivyTakes, Cv2GrabFails, MemoryGets, LoopTop, CaptureTypes, CameraTypes, FrameOrNone
  <2>3. queue' \in Seq(Frame) /\ screen' = screen
    BY <1>5, <2>1 DEF ReadTakes, Reads, KivyTakes, Cv2GrabFails, MemoryGets, linkVars, SenderTypes
  <2>4. SenderTypes'
    BY <1>1, <1>5, <2>3 DEF ReadTakes, Reads, SenderTypes, sendVars, displayVars
  <2>5. CameraTypes'
    BY <1>1, <1>5 DEF ReadTakes, Reads, KivyTakes, Cv2GrabFails, MemoryGets, CameraTypes, cameraVars, FrameOrNone
  <2> QED
    BY <1>2, <2>2, <2>4, <2>5
<1> QED
  BY <1>3, <1>4, <1>5

LEMMA RememberType ==
  ASSUME SenderTypes, CaptureTypes, NEW f \in Frame
  PROVE  Remember(f) \in Seq(Frame) /\ Len(Remember(f)) <= setting.depth
<1> DEFINE s == Append(recent, f)
<1>1. s \in Seq(Frame) /\ Len(s) = Len(recent) + 1 /\ Len(recent) \in Nat
  BY DEF CaptureTypes
<1>2. setting.depth \in Nat /\ Len(recent) <= setting.depth
  BY SettingFacts DEF SenderTypes, CaptureTypes
<1> HIDE DEF s
<1>3. CASE Len(s) > setting.depth
  <2>1. Remember(f) = Tail(s)
    BY <1>3 DEF Remember, s
  <2> QED
    BY <2>1, <1>1, <1>2, <1>3
<1>4. CASE ~(Len(s) > setting.depth)
  <2>1. Remember(f) = s
    BY <1>4 DEF Remember, s
  <2> QED
    BY <2>1, <1>1, <1>2, <1>4
<1> QED
  BY <1>3, <1>4

LEMMA DecodeTypes ==
  ASSUME Types, Decode
  PROVE  Types'
<1> USE DEF Types
<1>1. setting' = setting /\ Frame' = Frame /\ FrameOrNone' = FrameOrNone
  BY DEF Decode, ImageUnusable, DecodeFails, DecodeSuppressed, DecodeDelivers, senderSide, Frame, FrameOrNone
<1>2. SenderTypes' /\ CallTypes'
  BY <1>1 DEF Decode, ImageUnusable, DecodeFails, DecodeSuppressed, DecodeDelivers, SenderTypes, CallTypes, senderSide, sendVars, displayVars, linkVars, callVars, closeVars
<1>3. entry \in Frame /\ entry.id \in 1..MaxSends
  BY DEF Decode, ImageUnusable, DecodeFails, DecodeSuppressed, DecodeDelivers, CaptureTypes, Frame
<1>4. CameraTypes'
  BY <1>1, <1>3 DEF Decode, ImageUnusable, DecodeFails, DecodeSuppressed, DecodeDelivers, Keep, CameraTypes, cameraVars, FrameOrNone
<1>5. CASE DecodeDelivers
  BY <1>1, <1>2, <1>3, <1>4, <1>5, RememberType DEF DecodeDelivers, LoopTop, CaptureTypes, FrameOrNone
<1>6. CASE ImageUnusable \/ DecodeFails \/ DecodeSuppressed
  BY <1>1, <1>2, <1>3, <1>4, <1>6 DEF ImageUnusable, DecodeFails, DecodeSuppressed, LoopTop, CaptureTypes, FrameOrNone
<1> QED
  BY <1>5, <1>6 DEF Decode

LEMMA CallerTypes ==
  ASSUME IInv, Types, NEW c \in Callers, Caller(c)
  PROVE  Types'
<1> USE DEF Types
<1>1. setting' = setting /\ Frame' = Frame /\ FrameOrNone' = FrameOrNone
  BY DEF Caller, Start, RecvFrame, StartLocks, StartCreates, GetsFrame, GetTimesOut, senderSide, Frame, FrameOrNone
<1>2. SenderTypes' /\ CameraTypes'
  BY <1>1 DEF Caller, Start, RecvFrame, StartLocks, StartCreates, GetsFrame, GetTimesOut, SenderTypes, CameraTypes, senderSide, sendVars, displayVars, linkVars, cameraVars
<1>3. CaptureTypes'
  BY <1>1 DEF Caller, Start, RecvFrame, StartLocks, StartCreates, GetsFrame, GetTimesOut, CaptureTypes, captureVars
<1>4. call_pc' \in [Callers -> {"idle", "locking", "creating", "getting", "got", "empty"}]
  BY DEF Caller, Start, RecvFrame, StartLocks, StartCreates, GetsFrame, GetTimesOut, Goto, CallTypes
<1>5. threads' \in 0..Cardinality(Callers)
  <2>1. CASE StartCreates(c)
    <3>1. threads = 0
      BY <2>1, OpticalAssumption DEF StartCreates, IInv, ThreadInv
    <3>2. Cardinality(Callers) \in Nat /\ Cardinality(Callers) # 0
      BY OpticalAssumption, FS_CardinalityType, FS_EmptySet
    <3> QED
      BY <2>1, <3>1, <3>2 DEF StartCreates
  <2>2. CASE ~StartCreates(c)
    BY <2>2 DEF Caller, Start, RecvFrame, StartLocks, GetsFrame, GetTimesOut, CallTypes, captureVars
  <2> QED
    BY <2>1, <2>2
<1>6. CallTypes'
  BY <1>4, <1>5 DEF Caller, Start, RecvFrame, StartLocks, StartCreates, GetsFrame, GetTimesOut, CallTypes, closeVars
<1> QED
  BY <1>2, <1>3, <1>6

LEMMA CloserTypes ==
  ASSUME Types, Closer
  PROVE  Types'
<1> USE DEF Types
<1>1. setting' = setting /\ Frame' = Frame /\ FrameOrNone' = FrameOrNone
  BY DEF Closer, CloseFlag, CloseLooks, CloseJoins, CameraFlag, CameraClear, CameraWake, senderSide, Frame, FrameOrNone
<1>2. SenderTypes' /\ CaptureTypes'
  BY <1>1 DEF Closer, CloseFlag, CloseLooks, CloseJoins, CameraFlag, CameraClear, CameraWake, SenderTypes, CaptureTypes, senderSide, sendVars, displayVars, linkVars, captureVars
<1>3. CameraTypes'
  BY <1>1 DEF Closer, CloseFlag, CloseLooks, CloseJoins, CameraFlag, CameraClear, CameraWake, CameraTypes, cameraVars, FrameOrNone
<1>4. CallTypes'
  BY DEF Closer, CloseFlag, CloseLooks, CloseJoins, CameraFlag, CameraClear, CameraWake, CallTypes, captureVars, callVars
<1> QED
  BY <1>2, <1>3, <1>4

LEMMA TypesNext ==
  ASSUME IInv, Types, [Next]_vars
  PROVE  Types'
<1>1. CASE UNCHANGED vars
  BY <1>1, SettingKept DEF Types, SenderTypes, CameraTypes, CaptureTypes, CallTypes, vars, senderSide, receiverSide,
     sendVars, displayVars, linkVars, cameraVars, captureVars, callVars, closeVars
<1>2. CASE Sender \/ Render \/ Fade
  BY <1>2, SendFrameTypes, DisplayTypes DEF Sender
<1>3. CASE Capture
  BY <1>3, ReadTypes, DecodeTypes DEF Capture
<1> QED
  BY <1>1, <1>2, <1>3, CameraStepTypes, CallerTypes, CloserTypes DEF Next

----------------------------------------------------------------------------

\* The inductive invariant of slots and threads.
THEOREM InvariantHolds == Spec => []IInv
<1>1. Init => IInv
  BY InitHolds
<1>2. IInv /\ [Next]_vars => IInv'
  BY NextKeeps
<1> QED
  BY <1>1, <1>2, PTL DEF Spec

\* No frame waits in a slot without somebody on the way to fetch it, and no signal is up
\* over an empty slot (kivy_devices.py:281-285 and 421-425).
THEOREM SlotsAgree == Spec => []SlotsSignalled
<1>1. IInv => SlotsSignalled
  BY DEF IInv, SlotInv
<1> QED
  BY <1>1, InvariantHolds, PTL

\* One capture thread, however many callers start the channel, and none at the camera
\* while close takes it apart, unless close gave up waiting (channel.py:310-316, 466-475).
THEOREM OneReaderOnly == Spec => []OneReader
<1>1. IInv => OneReader
  BY DEF IInv, ThreadInv, OneReader
<1> QED
  BY <1>1, InvariantHolds, PTL

\* Every variable of the channel keeps its type: nonces stay in their width, screen and window
\* within their bounds, and what is decoded is a frame (channel.py:377, 440-455).
THEOREM TypesHold == Spec => []TypeOK
<1>1. IInv /\ Types => TypeOK
  <2> SUFFICES ASSUME IInv, Types PROVE TypeOK
    OBVIOUS
  <2>1. sent \in 0..MaxSends
    BY SettingFacts DEF Types, SenderTypes
  <2> QED
    BY <2>1 DEF IInv, SlotInv, Types, SenderTypes, CameraTypes, CaptureTypes, CallTypes, TypeOK
<1>2. IInv /\ Types /\ [Next]_vars => Types'
  BY TypesNext
<1> QED
  BY <1>1, <1>2, TypesInit, InvariantHolds, PTL DEF Spec

----------------------------------------------------------------------------

(***************************************************************************)
(* What the lens sees more than once.                                      *)
(***************************************************************************)

\* What the lens and the slots have in store.  A sighting is an image that was delivered, or
\* is in one of the slots that lead to the inbox, in this order; images on the screen may
\* become sightings yet.
IdOf(f) == IF f = NoFrame THEN {} ELSE {f.id}
Delivered == Range(delivered)
Sighted == Delivered \union IdOf(entry) \union IdOf(pending) \union IdOf(submitting) \union Ids(queue)

\* y was sighted after a sighting of x.
Before(x, y) ==
  \/ \E i, j \in DOMAIN delivered : i < j /\ delivered[i] = x /\ delivered[j] = y
  \/ x \in Delivered /\ y \in IdOf(entry) \union IdOf(pending) \union IdOf(submitting) \union Ids(queue)
  \/ x \in IdOf(entry) /\ y \in IdOf(pending) \union IdOf(submitting) \union Ids(queue)
  \/ x \in IdOf(pending) /\ y \in IdOf(submitting) \union Ids(queue)
  \/ x \in IdOf(submitting) /\ y \in Ids(queue)
  \/ \E i, j \in DOMAIN queue : i < j /\ queue[i].id = x /\ queue[j].id = y

Behind == [x \in 1..MaxSends |-> {y \in 1..MaxSends : Before(x, y)}]

\* Of sightings H, of which those of B[x] followed x, and images S on a screen: fewer than e
\* newer ones go before one, fewer than e older ones follow it or still may, and what
\* is newer than an image on the screen is on the screen too.
Overlap(B, H, S, e) ==
  /\ \A y \in H : Cardinality({x \in H : y \in B[x] /\ x > y}) < e
  /\ \A x \in H : Cardinality({y \in B[x] \union S : y < x}) < e
  /\ \A x \in H, y \in S : x > y => x \in S

\* Images and packets that may still be seen or compared with.
InPlay ==
  (Range(screen) \union Range(queue) \union Range(recent) \union {pending_show, submitting, pending, entry}) \ {NoFrame}

\* A frame is known by its id, which tells its nonce.
IdsTell ==
  /\ \A f, g \in InPlay : f.id = g.id => f = g
  /\ \A f \in InPlay : f.id <= sent /\ f.nonce = (f.id - 1) % setting.nonce_mod
  /\ send_nonce = sent % setting.nonce_mod

\* Images appear in the order they were sent in, each once, and what each device leaves unused.
ShownInOrder ==
  /\ \A i, j \in DOMAIN screen : i < j => screen[i].id < screen[j].id
  /\ pending_show # NoFrame => \A i \in Ids(screen) \union Sighted : i < pending_show.id
  /\ Ids(screen) \union Sighted \subseteq 1..sent
  /\ setting.device # "kivy" => pending_show = NoFrame /\ pending = NoFrame /\ submitting = NoFrame
  /\ IF setting.device = "memory" THEN screen = <<>> ELSE queue = <<>>
  /\ cap_pc # "decoding" => entry = NoFrame

\* recent is the end of delivered.
RecentIsLast ==
  /\ Len(recent) = IF Len(delivered) < setting.depth THEN Len(delivered) ELSE setting.depth
  /\ \A i \in DOMAIN recent : recent[i].id = delivered[Len(delivered) - Len(recent) + i]

EchoInv ==
  /\ IdsTell /\ ShownInOrder /\ RecentIsLast /\ DeliveredOnce
  /\ Overlap(Behind, Sighted, Ids(screen), setting.echo)
----------------------------------------------------------------------------

SomeIds == SUBSET (1..MaxSends)
Followers == [1..MaxSends -> SomeIds]

LEMMA FiniteIds ==
  ASSUME NEW S \in SomeIds
  PROVE  IsFiniteSet(S) /\ Cardinality(S) \in Nat
<1>1. IsFiniteSet(1..MaxSends)
  BY OpticalAssumption, FS_Interval
<1> QED
  BY <1>1, FS_Subset, FS_CardinalityType DEF SomeIds

LEMMA FewerIds ==
  ASSUME NEW S \in SomeIds, NEW T, T \subseteq S
  PROVE  T \in SomeIds /\ Cardinality(T) \in Nat /\ Cardinality(S) \in Nat /\ Cardinality(T) <= Cardinality(S)
<1>1. T \in SomeIds
  BY DEF SomeIds
<1>2. Cardinality(T) <= Cardinality(S)
  BY FiniteIds, FS_Subset
<1> QED
  BY <1>1, <1>2, FiniteIds

LEMMA NoIds == {} \in SomeIds /\ Cardinality({}) = 0
  BY FS_EmptySet DEF SomeIds

\* What an image leaves to the others on a screen.
LEMMA OthersOnScreen ==
  ASSUME NEW S \in SomeIds, NEW y \in S, NEW T, T \subseteq S \ {y}, NEW e \in Nat, Cardinality(S) <= e
  PROVE  Cardinality(T) < e
<1>1. Cardinality(S \ {y}) = Cardinality(S) - 1 /\ Cardinality(S) \in Nat
  BY FiniteIds, FS_RemoveElement
<1>2. S \ {y} \in SomeIds
  BY DEF SomeIds
<1>3. Cardinality(T) <= Cardinality(S \ {y}) /\ Cardinality(T) \in Nat
  BY <1>2, FewerIds
<1> QED
  BY <1>1, <1>3

\* Sightings that come to nothing, or move on, leave no more behind than there was.
LEMMA OverlapShrinks ==
  ASSUME NEW H \in SomeIds, NEW S \in SomeIds, NEW B \in Followers, NEW e \in Nat,
         NEW K \in SomeIds, NEW C \in Followers,
         Overlap(B, H, S, e), K \subseteq H, \A x \in K : C[x] \subseteq B[x]
  PROVE  Overlap(C, K, S, e)
<1>1. ASSUME NEW y \in K
      PROVE  Cardinality({x \in K : y \in C[x] /\ x > y}) < e
  <2> DEFINE big == {x \in H : y \in B[x] /\ x > y}
  <2>1. {x \in K : y \in C[x] /\ x > y} \subseteq big
    OBVIOUS
  <2>2. big \in SomeIds
    BY DEF SomeIds
  <2>3. Cardinality(big) < e
    BY DEF Overlap
  <2> QED
    BY <2>1, <2>2, <2>3, FewerIds
<1>2. ASSUME NEW x \in K
      PROVE  Cardinality({y \in C[x] \union S : y < x}) < e
  <2> DEFINE big == {y \in B[x] \union S : y < x}
  <2>1. {y \in C[x] \union S : y < x} \subseteq big
    OBVIOUS
  <2>2. big \in SomeIds
    BY DEF SomeIds, Followers
  <2>3. Cardinality(big) < e
    BY DEF Overlap
  <2> QED
    BY <2>1, <2>2, <2>3, FewerIds
<1>3. \A x \in K, y \in S : x > y => x \in S
  BY DEF Overlap
<1> QED
  BY <1>1, <1>2, <1>3 DEF Overlap

\* An image of the screen is captured.
LEMMA OverlapCaptures ==
  ASSUME NEW H \in SomeIds, NEW S \in SomeIds, NEW B \in Followers, NEW e \in Nat,
         NEW K \in SomeIds, NEW C \in Followers, NEW s \in S,
         Overlap(B, H, S, e), Cardinality(S) <= e, K \subseteq H \union {s},
         \A x \in K : C[x] \subseteq IF x \in H THEN B[x] \union {s} ELSE {}
  PROVE  Overlap(C, K, S, e)
<1>1. ASSUME NEW y \in K
      PROVE  Cardinality({x \in K : y \in C[x] /\ x > y}) < e
  <2>1. CASE y = s
    <3>1. {x \in K : y \in C[x] /\ x > y} \subseteq S \ {s}
      <4> SUFFICES ASSUME NEW x \in K, s \in C[x], x > s PROVE x \in S /\ x # s
        BY <2>1
      <4>1. x \in H /\ x \in Nat /\ s \in Nat
        BY DEF SomeIds
      <4>2. x \in S
        BY <4>1 DEF Overlap
      <4>3. x # s
        BY <4>1
      <4> QED
        BY <4>2, <4>3
    <3> QED
      BY <3>1, OthersOnScreen
  <2>2. CASE y # s
    <3> DEFINE big == {x \in H : y \in B[x] /\ x > y}
    <3>1. {x \in K : y \in C[x] /\ x > y} \subseteq big
      BY <2>2
    <3>2. big \in SomeIds
      BY DEF SomeIds
    <3>3. Cardinality(big) < e
      BY <2>2 DEF Overlap
    <3> QED
      BY <3>1, <3>2, <3>3, FewerIds
  <2> QED
    BY <2>1, <2>2
<1>2. ASSUME NEW x \in K
      PROVE  Cardinality({y \in C[x] \union S : y < x}) < e
  <2>1. CASE x \in H
    <3> DEFINE big == {y \in B[x] \union S : y < x}
    <3>1. {y \in C[x] \union S : y < x} \subseteq big
      BY <2>1
    <3>2. big \in SomeIds
      BY DEF SomeIds, Followers
    <3>3. Cardinality(big) < e
      BY <2>1 DEF Overlap
    <3> QED
      BY <3>1, <3>2, <3>3, FewerIds
  <2>2. CASE x \notin H
    <3>1. {y \in C[x] \union S : y < x} \subseteq S \ {s}
      BY <2>2 DEF SomeIds
    <3> QED
      BY <3>1, OthersOnScreen
  <2> QED
    BY <2>1, <2>2
<1>3. \A x \in K, y \in S : x > y => x \in S
  BY DEF Overlap
<1> QED
  BY <1>1, <1>2, <1>3 DEF Overlap

\* The screen changes: what is new there is newer than all that was seen, what is gone
\* was older than all that is left.
LEMMA OverlapShows ==
  ASSUME NEW H \in SomeIds, NEW S \in SomeIds, NEW B \in Followers, NEW e \in Nat, NEW T \in SomeIds,
         Overlap(B, H, S, e), \A t \in T \ S : \A x \in H : x < t, \A s \in S \ T, t \in T : s < t
  PROVE  Overlap(B, H, T, e)
<1>1. ASSUME NEW x \in H
      PROVE  Cardinality({y \in B[x] \union T : y < x}) < e
  <2> DEFINE big == {y \in B[x] \union S : y < x}
  <2>1. {y \in B[x] \union T : y < x} \subseteq big
    <3> SUFFICES ASSUME NEW y \in T, y < x, y \notin S PROVE FALSE
      OBVIOUS
    <3>1. x < y /\ x \in Nat /\ y \in Nat
      BY DEF SomeIds
    <3> QED
      BY <3>1
  <2>2. big \in SomeIds
    BY DEF SomeIds, Followers
  <2>3. Cardinality(big) < e
    BY DEF Overlap
  <2> QED
    BY <2>1, <2>2, <2>3, FewerIds
<1>2. ASSUME NEW x \in H, NEW y \in T, x > y
      PROVE  x \in T
  <2>1. x \in Nat /\ y \in Nat
    BY DEF SomeIds
  <2>2. y \in S
    BY <1>2, <2>1
  <2>3. x \in S
    BY <1>2, <2>2 DEF Overlap
  <2> QED
    BY <1>2, <2>1, <2>3
<1> QED
  BY <1>1, <1>2 DEF Overlap

\* A frame that goes from hand to hand without a screen is newer than all before it.
LEMMA OverlapQueues ==
  ASSUME NEW H \in SomeIds, NEW B \in Followers, NEW e \in Nat, e > 0,
         NEW K \in SomeIds, NEW C \in Followers, NEW n \in 1..MaxSends,
         Overlap(B, H, {}, e), \A x \in H : x < n, K \subseteq H \union {n},
         \A x \in K : C[x] \subseteq IF x \in H THEN B[x] \union {n} ELSE {}
  PROVE  Overlap(C, K, {}, e)
<1>1. ASSUME NEW y \in K
      PROVE  Cardinality({x \in K : y \in C[x] /\ x > y}) < e
  <2>1. CASE y = n
    <3>1. {x \in K : y \in C[x] /\ x > y} = {}
      <4> SUFFICES ASSUME NEW x \in K, y \in C[x], x > y PROVE FALSE
        OBVIOUS
      <4>1. x \in H /\ x \in Nat /\ n \in Nat
        BY DEF SomeIds
      <4> QED
        BY <2>1, <4>1
    <3> QED
      BY <3>1, NoIds
  <2>2. CASE y # n
    <3> DEFINE big == {x \in H : y \in B[x] /\ x > y}
    <3>1. {x \in K : y \in C[x] /\ x > y} \subseteq big
      BY <2>2
    <3>2. big \in SomeIds
      BY DEF SomeIds
    <3>3. Cardinality(big) < e
      BY <2>2 DEF Overlap
    <3> QED
      BY <3>1, <3>2, <3>3, FewerIds
  <2> QED
    BY <2>1, <2>2
<1>2. ASSUME NEW x \in K
      PROVE  Cardinality({y \in C[x] \union {} : y < x}) < e
  <2>1. CASE x \in H
    <3> DEFINE big == {y \in B[x] \union {} : y < x}
    <3>1. {y \in C[x] \union {} : y < x} \subseteq big
      <4> SUFFICES ASSUME NEW y \in C[x], y < x PROVE y \in B[x]
        OBVIOUS
      <4>1. x < n /\ x \in Nat /\ n \in Nat
        BY <2>1 DEF SomeIds
      <4>2. y # n
        BY <4>1
      <4> QED
        BY <2>1, <4>2
    <3>2. big \in SomeIds
      BY DEF SomeIds, Followers
    <3>3. Cardinality(big) < e
      BY <2>1 DEF Overlap
    <3> QED
      BY <3>1, <3>2, <3>3, FewerIds
  <2>2. CASE x \notin H
    <3>1. {y \in C[x] \union {} : y < x} = {}
      BY <2>2
    <3> QED
      BY <3>1, NoIds
  <2> QED
    BY <2>1, <2>2
<1> QED
  BY <1>1, <1>2 DEF Overlap

----------------------------------------------------------------------------

\* The number of images is the number of ids.
LEMMA ScreenIds ==
  ASSUME Types, ShownInOrder
  PROVE  /\ Ids(screen) \in SomeIds /\ Cardinality(Ids(screen)) <= setting.echo
         /\ setting.echo \in Nat /\ setting.echo > 0 /\ setting.depth \in Nat /\ setting.depth > 0
<1>1. setting.echo \in Nat /\ setting.echo > 0 /\ setting.depth \in Nat /\ setting.depth > 0
  BY SettingFacts DEF Types, SenderTypes
<1>2. sent \in Nat /\ sent <= MaxSends
  BY SettingFacts DEF Types, SenderTypes
<1>3. Ids(screen) \in SomeIds
  BY <1>2, SettingFacts DEF ShownInOrder, SomeIds, Types, SenderTypes
<1>4. Cardinality(Ids(screen)) <= Len(screen)
  <2> DEFINE n == Len(screen)
             f == [i \in 1..n |-> screen[i].id]
  <2>1. n \in Nat /\ DOMAIN screen = 1..n
    BY DEF Types, SenderTypes
  <2>2. f \in Surjection(1..n, Ids(screen))
    BY <2>1 DEF Surjection, Ids
  <2> HIDE DEF n
  <2>3. IsFiniteSet(1..n) /\ Cardinality(1..n) = n
    BY <2>1, FS_Interval
  <2> QED
    BY <2>2, <2>3, FS_Surjection DEF n
<1>5. Cardinality(Ids(screen)) \in Nat /\ Len(screen) \in Nat /\ Len(screen) <= setting.echo
  BY <1>3, FiniteIds DEF Types, SenderTypes
<1> QED
  BY <1>1, <1>3, <1>4, <1>5

LEMMA SightingIds ==
  ASSUME Types, ShownInOrder
  PROVE  Sighted \in SomeIds /\ Behind \in Followers /\ sent \in Nat /\ sent <= MaxSends /\ 1..sent \subseteq 1..MaxSends
<1>1. sent \in Nat /\ sent <= MaxSends /\ 1..sent \subseteq 1..MaxSends
  BY SettingFacts DEF Types, SenderTypes
<1>2. Sighted \in SomeIds
  BY <1>1 DEF ShownInOrder, SomeIds
<1>3. Behind \in Followers
  BY DEF Behind, Followers, SomeIds
<1> QED
  BY <1>1, <1>2, <1>3

LEMMA SightingTypes == Types /\ ShownInOrder => Sighted \in SomeIds /\ Behind \in Followers
  BY SightingIds

\* A step on which nothing new is shown or delivered: images are dropped, or move on.
Quiet ==
  /\ UNCHANGED <<setting, sent, send_nonce, screen, delivered, recent>>
  /\ pending_show' \in {pending_show, NoFrame}
  /\ setting.device # "kivy" => pending' = NoFrame /\ submitting' = NoFrame
  /\ setting.device # "memory" => queue' = <<>>
  /\ cap_pc' # "decoding" => entry' = NoFrame

Drops ==
  /\ entry' \in {entry, NoFrame} /\ pending' \in {pending, NoFrame} /\ submitting' \in {submitting, NoFrame}
  /\ queue' = queue

Stores == entry' = entry /\ pending' = submitting /\ submitting' = NoFrame /\ queue' = queue

Takes == entry = NoFrame /\ entry' = pending /\ pending' = NoFrame /\ submitting' = submitting /\ queue' = queue

Fetches ==
  /\ entry = NoFrame /\ pending = NoFrame /\ submitting = NoFrame /\ pending' = NoFrame /\ submitting' = NoFrame
  /\ queue # <<>> /\ entry' = Head(queue) /\ queue' = Tail(queue)

LEMMA TailFacts ==
  ASSUME NEW S, NEW q \in Seq(S), q # <<>>
  PROVE  /\ Len(q) \in Nat \ {0} /\ DOMAIN q = 1..Len(q) /\ DOMAIN Tail(q) = 1..Len(q) - 1
         /\ Head(q) = q[1] /\ \A i \in 1..Len(q) - 1 : Tail(q)[i] = q[i + 1]
  OBVIOUS

LEMMA MovesBefore ==
  ASSUME Types, Quiet, Drops \/ Stores \/ Takes \/ Fetches, NEW x, NEW y, Before(x, y)'
  PROVE  Before(x, y)
<1>1. Delivered' = Delivered /\ delivered' = delivered
  BY DEF Quiet, Delivered
<1>2. CASE Drops
  BY <1>1, <1>2 DEF Drops, Before, IdOf
<1>3. CASE Stores
  BY <1>1, <1>3 DEF Stores, Before, IdOf
<1>4. CASE Takes
  BY <1>1, <1>4 DEF Takes, Before, IdOf
<1>5. CASE Fetches
  <2> DEFINE n == Len(queue)
  <2>1. /\ n \in Nat \ {0} /\ DOMAIN queue = 1..n /\ DOMAIN queue' = 1..n - 1
        /\ entry' = queue[1] /\ \A i \in 1..n - 1 : queue'[i] = queue[i + 1]
    BY <1>5, TailFacts DEF Fetches, Types, SenderTypes
  <2>2. IdOf(entry)' \subseteq Ids(queue)
    BY <2>1 DEF IdOf, Ids
  <2>3. Ids(queue)' \subseteq Ids(queue)
    BY <2>1 DEF Ids
  <2>4. IdOf(pending)' = {} /\ IdOf(submitting)' = {}
    BY <1>5 DEF Fetches, IdOf
  <2>5. CASE \E i, j \in DOMAIN delivered' : i < j /\ delivered'[i] = x /\ delivered'[j] = y
    BY <1>1, <2>5 DEF Before
  <2>6. CASE x \in Delivered' /\ y \in (IdOf(entry) \union IdOf(pending) \union IdOf(submitting) \union Ids(queue))'
    BY <1>1, <2>2, <2>3, <2>4, <2>6 DEF Before
  <2>7. CASE x \in IdOf(entry)' /\ y \in (IdOf(pending) \union IdOf(submitting) \union Ids(queue))'
    <3>1. x = queue[1].id
      BY <2>1, <2>7 DEF IdOf
    <3>2. PICK j \in 1..n - 1 : y = queue[j + 1].id
      BY <2>1, <2>4, <2>7 DEF Ids
    <3>3. 1 \in DOMAIN queue /\ j + 1 \in DOMAIN queue /\ 1 < j + 1
      BY <2>1
    <3> QED
      BY <3>1, <3>2, <3>3 DEF Before
  <2>8. CASE \E i, j \in DOMAIN queue' : i < j /\ queue'[i].id = x /\ queue'[j].id = y
    <3>1. PICK i \in 1..n - 1, j \in 1..n - 1 : i < j /\ queue[i + 1].id = x /\ queue[j + 1].id = y
      BY <2>1, <2>8
    <3>2. i + 1 \in DOMAIN queue /\ j + 1 \in DOMAIN queue /\ i + 1 < j + 1
      BY <2>1, <3>1
    <3> QED
      BY <3>1, <3>2 DEF Before
  <2> QED
    BY <2>4, <2>5, <2>6, <2>7, <2>8 DEF Before
<1> QED
  BY <1>2, <1>3, <1>4, <1>5

LEMMA MovesSighted ==
  ASSUME Types, Quiet, Drops \/ Stores \/ Takes \/ Fetches
  PROVE  Sighted' \subseteq Sighted /\ InPlay' \subseteq InPlay
<1>1. Delivered' = Delivered
  BY DEF Quiet, Delivered
<1>2. Range(screen)' = Range(screen) /\ Range(recent)' = Range(recent)
  BY DEF Quiet
<1>3. CASE Drops
  BY <1>1, <1>2, <1>3 DEF Quiet, Drops, Sighted, InPlay, IdOf
<1>4. CASE Stores
  BY <1>1, <1>2, <1>4 DEF Quiet, Stores, Sighted, InPlay, IdOf
<1>5. CASE Takes
  BY <1>1, <1>2, <1>5 DEF Quiet, Takes, Sighted, InPlay, IdOf
<1>6. CASE Fetches
  <2>1. /\ Len(queue) \in Nat \ {0} /\ DOMAIN queue = 1..Len(queue) /\ DOMAIN queue' = 1..Len(queue) - 1
        /\ entry' = queue[1] /\ \A i \in 1..Len(queue) - 1 : queue'[i] = queue[i + 1]
    BY <1>6, TailFacts DEF Fetches, Types, SenderTypes
  <2>2. Ids(queue)' \subseteq Ids(queue) /\ Range(queue)' \subseteq Range(queue)
    <3>1. \A i \in DOMAIN queue' : i + 1 \in DOMAIN queue /\ queue'[i] = queue[i + 1]
      BY <2>1
    <3>2. Ids(queue)' \subseteq Ids(queue)
      BY <3>1 DEF Ids
    <3>3. Range(queue)' \subseteq Range(queue)
      BY <3>1 DEF Range
    <3> QED
      BY <3>2, <3>3
  <2>3. IdOf(entry)' \subseteq Ids(queue) /\ entry' \in Range(queue)
    BY <2>1 DEF IdOf, Ids, Range
  <2>4. Sighted' \subseteq Sighted
    BY <1>1, <1>6, <2>2, <2>3 DEF Fetches, Sighted, IdOf
  <2> QED
    BY <1>2, <1>6, <2>2, <2>3, <2>4 DEF Quiet, Fetches, InPlay
<1> QED
  BY <1>3, <1>4, <1>5, <1>6

LEMMA QuietKeeps ==
  ASSUME Types, Types', EchoInv, Quiet, Drops \/ Stores \/ Takes \/ Fetches
  PROVE  EchoInv'
<1> USE DEF EchoInv
<1>1. Sighted' \subseteq Sighted /\ InPlay' \subseteq InPlay
  BY MovesSighted
<1>2. IdsTell'
  BY <1>1 DEF IdsTell, Quiet
<1>3. Ids(screen)' = Ids(screen)
  BY DEF Quiet
<1>4. ShownInOrder'
  <2>1. (\A i, j \in DOMAIN screen : i < j => screen[i].id < screen[j].id)'
    BY DEF ShownInOrder, Quiet
  <2>2. (pending_show # NoFrame => \A i \in Ids(screen) \union Sighted : i < pending_show.id)'
    BY <1>1, <1>3 DEF ShownInOrder, Quiet
  <2>3. (Ids(screen) \union Sighted \subseteq 1..sent)'
    BY <1>1, <1>3 DEF ShownInOrder, Quiet
  <2>4. (setting.device # "kivy" => pending_show = NoFrame /\ pending = NoFrame /\ submitting = NoFrame)'
    BY DEF ShownInOrder, Quiet
  <2>5. (IF setting.device = "memory" THEN screen = <<>> ELSE queue = <<>>)'
    BY DEF ShownInOrder, Quiet
  <2> QED
    BY <2>1, <2>2, <2>3, <2>4, <2>5 DEF ShownInOrder, Quiet
<1>5. RecentIsLast' /\ DeliveredOnce'
  BY DEF RecentIsLast, DeliveredOnce, Quiet
<1>6. Overlap(Behind, Sighted, Ids(screen), setting.echo)'
  <2>1. \A x \in Sighted' : Behind'[x] \subseteq Behind[x]
    <3> SUFFICES ASSUME NEW x \in Sighted', NEW y \in Behind'[x] PROVE y \in Behind[x]
      OBVIOUS
    <3>1. x \in 1..MaxSends
      BY <1>1, SightingIds DEF SomeIds
    <3>2. y \in 1..MaxSends /\ Before(x, y)'
      BY <3>1 DEF Behind
    <3>3. Before(x, y)
      BY <3>2, MovesBefore
    <3> QED
      BY <3>1, <3>2, <3>3 DEF Behind
  <2>2. Sighted' \in SomeIds /\ Behind' \in Followers
    <3>1. (Types /\ ShownInOrder => Sighted \in SomeIds /\ Behind \in Followers)'
      BY SightingTypes, PTL
    <3> QED
      BY <1>4, <3>1
  <2>3. Sighted \in SomeIds /\ Behind \in Followers /\ Ids(screen) \in SomeIds /\ setting.echo \in Nat
    BY SightingIds, ScreenIds
  <2>4. Overlap(Behind', Sighted', Ids(screen), setting.echo)
    BY <1>1, <2>1, <2>2, <2>3, OverlapShrinks
  <2> QED
    BY <1>3, <2>4 DEF Quiet, Overlap
<1> QED
  BY <1>2, <1>4, <1>5, <1>6

LEMMA QuietActions ==
  ASSUME IInv, Types, EchoInv,
         \/ UNCHANGED vars \/ ShowSchedule \/ SenderClose \/ (Render /\ screen' = screen) \/ SubmitStore
         \/ LoopTest \/ ReadWakes \/ ReadTakes \/ ImageUnusable \/ DecodeFails \/ DecodeSuppressed
         \/ (\E c \in Callers : Caller(c)) \/ Closer
  PROVE  Quiet /\ (Drops \/ Stores \/ Takes \/ Fetches)
<1> USE DEF EchoInv
<1>1. CASE UNCHANGED vars
  BY <1>1 DEF vars, senderSide, receiverSide, sendVars, displayVars, linkVars, cameraVars, captureVars, ShownInOrder, Quiet, Drops
<1>2. CASE ShowSchedule \/ SenderClose \/ (Render /\ screen' = screen)
  BY <1>2 DEF ShowSchedule, SenderClose, Render, receiverSide, sendVars, linkVars, cameraVars, captureVars, ShownInOrder, Quiet, Drops
<1>3. CASE SubmitStore
  BY <1>3 DEF SubmitStore, senderSide, sendVars, displayVars, linkVars, captureVars, ShownInOrder, Quiet, Stores
<1>4. CASE LoopTest \/ ReadWakes
  BY <1>4 DEF LoopTest, ReadWakes, senderSide, sendVars, displayVars, linkVars, cameraVars, ShownInOrder, Quiet, Drops
<1>5. CASE ReadTakes
  <2> USE DEF ReadTakes, Reads, sendVars, displayVars, linkVars, cameraVars, ShownInOrder, LoopTop
  <2>1. entry = NoFrame
    BY <1>5
  <2>2. CASE KivyTakes
    BY <1>5, <2>1, <2>2 DEF KivyTakes, Quiet, Takes
  <2>3. CASE Cv2GrabFails
    BY <1>5, <2>1, <2>3 DEF Cv2GrabFails, Quiet, Drops
  <2>4. CASE MemoryGets /\ queue = <<>>
    BY <1>5, <2>1, <2>4 DEF MemoryGets, Quiet, Drops
  <2>5. CASE MemoryGets /\ queue # <<>>
    BY <1>5, <2>1, <2>5 DEF MemoryGets, Quiet, Fetches
  <2> QED
    BY <1>5, <2>2, <2>3, <2>4, <2>5
<1>6. CASE ImageUnusable \/ DecodeFails \/ DecodeSuppressed
  BY <1>6 DEF ImageUnusable, DecodeFails, DecodeSuppressed, Keep, LoopTop, senderSide, sendVars, displayVars, linkVars, cameraVars, ShownInOrder, Quiet, Drops
<1>7. CASE \E c \in Callers : Caller(c)
  <2>1. PICK c \in Callers : Caller(c)
    BY <1>7
  <2>2. CASE StartCreates(c)
    <3>1. cap_pc = "none"
      BY <2>2, OpticalAssumption DEF StartCreates, IInv, ThreadInv
    <3> QED
      BY <2>2, <3>1 DEF StartCreates, senderSide, sendVars, displayVars, linkVars, cameraVars, ShownInOrder, Quiet, Drops
  <2>3. CASE ~StartCreates(c)
    BY <2>1, <2>3 DEF Caller, Start, RecvFrame, StartLocks, GetsFrame, GetTimesOut, senderSide, sendVars, displayVars, linkVars, cameraVars, captureVars, ShownInOrder, Quiet, Drops
  <2> QED
    BY <2>2, <2>3
<1>8. CASE Closer
  BY <1>8 DEF Closer, CloseFlag, CloseLooks, CloseJoins, CameraFlag, CameraClear, CameraWake, senderSide, sendVars, displayVars, linkVars, cameraVars, captureVars, ShownInOrder, Quiet, Drops
<1> QED
  BY <1>1, <1>2, <1>3, <1>4, <1>5, <1>6, <1>7, <1>8

\* Residues, as facts the solver can use.
LEMMA Residue ==
  ASSUME NEW x \in Int, NEW m \in Nat, m > 0
  PROVE  x % m \in 0..m - 1 /\ x \div m \in Int /\ x = (m * (x \div m)) + (x % m)
  BY SMT

LEMMA MultipleIsFar ==
  ASSUME NEW k \in Int, NEW m \in Nat, m > 0, k # 0
  PROVE  m * k >= m \/ m * k <= -m
<1>1. CASE k >= 1
  BY <1>1, SMT
<1>2. CASE k <= -1
  BY <1>2, SMT
<1> QED
  BY <1>1, <1>2, SMT

LEMMA SameResidue ==
  ASSUME NEW x \in Int, NEW y \in Int, NEW k \in Int, NEW m \in Nat, m > 0, x - y = m * k
  PROVE  x % m = y % m
<1> DEFINE a == x % m
           b == y % m
           q == k - (x \div m) + (y \div m)
<1>1. a \in 0..m - 1 /\ x \div m \in Int /\ x = (m * (x \div m)) + a
  BY Residue
<1>2. b \in 0..m - 1 /\ y \div m \in Int /\ y = (m * (y \div m)) + b
  BY Residue
<1>3. q \in Int /\ m * q = a - b
  BY <1>1, <1>2, SMT
<1>4. -m < m * q /\ m * q < m
  BY <1>1, <1>2, <1>3, SMT
<1>5. q = 0
  BY <1>3, <1>4, MultipleIsFar
<1>6. a = b
  BY <1>1, <1>2, <1>3, <1>5, SMT
<1> QED
  BY <1>6

LEMMA NextResidue ==
  ASSUME NEW n \in Nat, NEW m \in Nat, m > 0
  PROVE  ((n % m) + 1) % m = (n + 1) % m
<1> DEFINE a == (n % m) + 1
           b == n + 1
           k == -(n \div m)
<1>1. n % m \in Int /\ n \div m \in Int /\ n = (m * (n \div m)) + (n % m)
  BY Residue
<1>2. a \in Int /\ b \in Int /\ k \in Int /\ a - b = m * k
  BY <1>1, SMT
<1> HIDE DEF a, b, k
<1>3. a % m = b % m
  BY <1>2, SameResidue
<1> QED
  BY <1>3 DEF a, b

LEMMA EqualResidues ==
  ASSUME NEW f \in Nat \ {0}, NEW g \in Nat \ {0}, NEW m \in Nat, m > 0, (f - 1) % m = (g - 1) % m, f # g
  PROVE  (f - g) % m = 0 /\ (f - g >= m \/ g - f >= m)
<1> DEFINE k == ((f - 1) \div m) - ((g - 1) \div m)
<1>1. (f - 1) \div m \in Int /\ f - 1 = (m * ((f - 1) \div m)) + ((f - 1) % m) /\ (f - 1) % m \in Int
  <2>1. f - 1 \in Int
    OBVIOUS
  <2> QED
    BY <2>1, Residue
<1>2. (g - 1) \div m \in Int /\ g - 1 = (m * ((g - 1) \div m)) + ((g - 1) % m)
  <2>1. g - 1 \in Int
    OBVIOUS
  <2> QED
    BY <2>1, Residue
<1>3. k \in Int /\ f - g = m * k
  BY <1>1, <1>2, SMT
<1> HIDE DEF k
<1>4. k # 0
  BY <1>3, SMT
<1>5. m * k >= m \/ m * k <= -m
  BY <1>3, <1>4, MultipleIsFar
<1>6. (f - g) % m = 0 % m
  <2>1. f - g \in Int /\ 0 \in Int /\ (f - g) - 0 = m * k
    BY <1>3, SMT
  <2> QED
    BY <1>3, <2>1, SameResidue
<1>7. 0 % m = 0
  BY SMT
<1> QED
  BY <1>3, <1>5, <1>6, <1>7, SMT

----------------------------------------------------------------------------
\* A frame that is sent has an id and a nonce of its own.
LEMMA NewTells ==
  ASSUME Types, EchoInv, NEW p \in Payloads, SendFrame(p), InPlay' \subseteq InPlay \union {NewFrame(p)}
  PROVE  IdsTell'
<1> DEFINE n == NewFrame(p)
<1>1. setting.nonce_mod \in Nat /\ setting.nonce_mod > 0 /\ sent \in Nat
  BY SettingFacts, SightingIds DEF Types, SenderTypes, EchoInv
<1>2. setting' = setting /\ sent' = sent + 1 /\ send_nonce' = (send_nonce + 1) % setting.nonce_mod
  BY DEF SendFrame, NextNonce, receiverSide
<1>3. send_nonce' = sent' % setting'.nonce_mod
  BY <1>1, <1>2, NextResidue DEF EchoInv, IdsTell
<1>4. n.id = sent + 1 /\ n.nonce = (n.id - 1) % setting.nonce_mod
  BY <1>1 DEF NewFrame, EchoInv, IdsTell
<1>5. \A f \in InPlay : f.id <= sent /\ f.id \in Nat
  <2> SUFFICES ASSUME NEW f \in InPlay PROVE f \in Frame /\ f.id <= sent
    BY DEF Frame
  <2>1. f \in Frame
    BY DEF InPlay, Types, SenderTypes, CameraTypes, CaptureTypes, FrameOrNone, Range
  <2> QED
    BY <2>1 DEF EchoInv, IdsTell
<1>6. \A f, g \in InPlay' : f.id = g.id => f = g
  <2> HIDE DEF n
  <2>1. \A f \in InPlay' : f \in InPlay \/ f = n
    BY DEF n
  <2>2. \A f, g \in InPlay : f.id = g.id => f = g
    BY DEF EchoInv, IdsTell
  <2>3. \A f \in InPlay : f.id # n.id
    BY <1>1, <1>4, <1>5
  <2> QED
    BY <2>1, <2>2, <2>3
<1>7. \A f \in InPlay' : f.id <= sent' /\ f.nonce = (f.id - 1) % setting'.nonce_mod
  <2> SUFFICES ASSUME NEW f \in InPlay' PROVE f.id <= sent' /\ f.nonce = (f.id - 1) % setting.nonce_mod
    BY <1>2
  <2>1. CASE f = n
    BY <1>1, <1>2, <1>4, <2>1
  <2>2. CASE f \in InPlay
    BY <1>1, <1>2, <1>5, <2>2 DEF EchoInv, IdsTell
  <2> QED
    BY <2>1, <2>2
<1> QED
  BY <1>3, <1>6, <1>7 DEF IdsTell

\* How the ids on a screen change.
LEMMA ShowIds ==
  ASSUME Types, ShownInOrder, NEW f \in Frame, \A i \in Ids(screen) : i < f.id
  PROVE  /\ \A i, j \in DOMAIN Show(f) : i < j => Show(f)[i].id < Show(f)[j].id
         /\ Ids(Show(f)) \subseteq Ids(screen) \union {f.id} /\ Range(Show(f)) \subseteq Range(screen) \union {f}
         /\ \A s \in Ids(screen) \ Ids(Show(f)), t \in Ids(Show(f)) : s < t
<1> DEFINE n == Len(screen)
           a == Append(screen, f)
<1>1. n \in Nat /\ DOMAIN screen = 1..n /\ \A i \in 1..n : screen[i] \in Frame /\ screen[i].id \in Nat
  <2>1. n \in Nat /\ DOMAIN screen = 1..n /\ \A i \in 1..n : screen[i] \in Frame
    BY DEF Types, SenderTypes
  <2>2. \A x \in Frame : x.id \in Nat
    BY DEF Frame
  <2> QED
    BY <2>1, <2>2
<1>2. /\ a \in Seq(Frame) /\ Len(a) = n + 1 /\ DOMAIN a = 1..n + 1 /\ a[n + 1] = f
      /\ \A i \in 1..n : a[i] = screen[i]
  BY DEF Types, SenderTypes
<1>3. \A i \in 1..n : screen[i].id < f.id
  BY <1>1 DEF Ids
<1>4. \A i, j \in 1..n : i < j => screen[i].id < screen[j].id
  BY <1>1 DEF ShownInOrder
<1>5. f.id \in Nat
  BY DEF Frame
<1> HIDE DEF n, a
<1>6. \A i, j \in 1..n + 1 : i < j => a[i].id < a[j].id
  <2> SUFFICES ASSUME NEW i \in 1..n + 1, NEW j \in 1..n + 1, i < j PROVE a[i].id < a[j].id
    OBVIOUS
  <2>1. CASE j = n + 1
    <3>1. i \in 1..n
      BY <1>1, <2>1
    <3> QED
      BY <1>2, <1>3, <2>1, <3>1
  <2>2. CASE j # n + 1
    <3>1. i \in 1..n /\ j \in 1..n
      BY <1>1, <2>2
    <3> QED
      BY <1>2, <1>4, <3>1
  <2> QED
    BY <2>1, <2>2
<1>7. CASE Show(f) = a
  <2>1. Ids(screen) \subseteq Ids(a) /\ Ids(a) \subseteq Ids(screen) \union {f.id}
    BY <1>1, <1>2 DEF Ids
  <2>2. Range(a) \subseteq Range(screen) \union {f}
    BY <1>1, <1>2 DEF Range
  <2> QED
    BY <1>2, <1>6, <1>7, <2>1, <2>2
<1>8. CASE Show(f) = Tail(a)
  <2>1. DOMAIN Tail(a) = 1..n /\ \A i \in 1..n : Tail(a)[i] = a[i + 1]
    BY <1>1, <1>2
  <2>2. \A i, j \in 1..n : i < j => Tail(a)[i].id < Tail(a)[j].id
    <3> SUFFICES ASSUME NEW i \in 1..n, NEW j \in 1..n, i < j PROVE Tail(a)[i].id < Tail(a)[j].id
      OBVIOUS
    <3>1. i + 1 \in 1..n + 1 /\ j + 1 \in 1..n + 1 /\ i + 1 < j + 1
      BY <1>1
    <3> QED
      BY <1>6, <2>1, <3>1
  <2>3. \A i \in 1..n : i + 1 \in 1..n + 1 /\ (i + 1 \in 1..n \/ i + 1 = n + 1)
    BY <1>1
  <2>4. Ids(Tail(a)) \subseteq Ids(screen) \union {f.id}
    BY <1>1, <1>2, <2>1, <2>3 DEF Ids
  <2>5. Range(Tail(a)) \subseteq Range(screen) \union {f}
    BY <1>1, <1>2, <2>1, <2>3 DEF Range
  <2>6. ASSUME NEW s \in Ids(screen), s \notin Ids(Tail(a))
        PROVE  s = a[1].id
    <3>1. PICK i \in 1..n : s = a[i].id
      BY <1>1, <1>2 DEF Ids
    <3>2. CASE i # 1
      <4>1. i - 1 \in 1..n /\ (i - 1) + 1 = i
        BY <1>1, <3>2
      <4>2. Tail(a)[i - 1] = a[i]
        BY <2>1, <4>1
      <4> QED
        BY <2>1, <2>6, <3>1, <4>1, <4>2 DEF Ids
    <3> QED
      BY <3>1, <3>2
  <2>7. \A t \in Ids(Tail(a)) : a[1].id < t
    <3> SUFFICES ASSUME NEW i \in 1..n PROVE a[1].id < Tail(a)[i].id
      BY <2>1 DEF Ids
    <3>1. 1 \in 1..n + 1 /\ i + 1 \in 1..n + 1 /\ 1 < i + 1
      BY <1>1
    <3> QED
      BY <1>6, <2>1, <3>1
  <2> QED
    BY <1>8, <2>1, <2>2, <2>4, <2>5, <2>6, <2>7
<1> QED
  BY <1>7, <1>8 DEF Show, a

\* A step that leaves the sightings alone.
StillSlots == UNCHANGED <<setting, delivered, recent, cap_pc, entry, pending, submitting, queue>>

LEMMA StillSightings ==
  ASSUME StillSlots
  PROVE  Sighted' = Sighted /\ Behind' = Behind /\ (RecentIsLast => RecentIsLast') /\ (DeliveredOnce => DeliveredOnce')
  BY DEF StillSlots, Sighted, Delivered, Behind, Before, IdOf, RecentIsLast, DeliveredOnce

\* A display shows a frame that is newer than all that were seen.
LEMMA ShowKeeps ==
  ASSUME Types, EchoInv, StillSlots, NEW f \in Frame, screen' = Show(f), pending_show' = NoFrame,
         setting.device # "memory", \A i \in Ids(screen) \union Sighted : i < f.id, f.id <= sent', sent <= sent',
         sent' \in 0..MaxSends, IdsTell'
  PROVE  EchoInv'
<1> USE DEF EchoInv
<1>1. Sighted' = Sighted /\ Behind' = Behind /\ RecentIsLast' /\ DeliveredOnce'
  BY StillSightings
<1>2. /\ \A i, j \in DOMAIN screen' : i < j => screen'[i].id < screen'[j].id
      /\ Ids(screen') \subseteq Ids(screen) \union {f.id}
      /\ \A s \in Ids(screen) \ Ids(screen'), t \in Ids(screen') : s < t
  BY ShowIds
<1>3. f.id \in 1..sent' /\ 1..sent \subseteq 1..sent' /\ f.id \in 1..MaxSends
  <2>1. f.id \in Nat /\ f.id >= 1 /\ sent' \in Nat /\ sent' <= MaxSends /\ MaxSends \in Nat /\ sent \in Nat
    BY SettingFacts, SightingIds, OpticalAssumption DEF Frame
  <2> QED
    BY <2>1
<1>4. ShownInOrder'
  <2>1. (Ids(screen) \union Sighted)' \subseteq 1..sent'
    BY <1>1, <1>2, <1>3 DEF ShownInOrder
  <2> QED
    BY <1>2, <2>1 DEF ShownInOrder, StillSlots
<1>5. Overlap(Behind, Sighted, Ids(screen'), setting.echo)
  <2>1. Sighted \in SomeIds /\ Behind \in Followers /\ Ids(screen) \in SomeIds /\ setting.echo \in Nat
    BY SightingIds, ScreenIds
  <2>2. Ids(screen') \in SomeIds
    BY <1>2, <1>3, <2>1 DEF SomeIds
  <2>3. \A t \in Ids(screen') \ Ids(screen) : \A x \in Sighted : x < t
    BY <1>2
  <2> QED
    BY <1>2, <2>1, <2>2, <2>3, OverlapShows
<1>6. Overlap(Behind, Sighted, Ids(screen), setting.echo)'
  BY <1>1, <1>5 DEF StillSlots, Overlap
<1> QED
  BY <1>1, <1>4, <1>6

LEMMA RenderShows ==
  ASSUME Types, EchoInv, Render, screen' # screen
  PROVE  EchoInv'
<1>1. pending_show # NoFrame /\ screen' = Show(pending_show) /\ pending_show' = NoFrame
  BY DEF Render
<1>2. pending_show \in Frame
  BY <1>1 DEF Types, SenderTypes, FrameOrNone
<1>3. StillSlots /\ sent' = sent /\ send_nonce' = send_nonce
  BY DEF Render, sendVars, receiverSide, cameraVars, captureVars, StillSlots
<1>4. setting.device = "kivy"
  BY <1>1 DEF EchoInv, ShownInOrder
<1>5. \A i \in Ids(screen) \union Sighted : i < pending_show.id
  BY <1>1 DEF EchoInv, ShownInOrder
<1>6. Range(screen') \subseteq Range(screen) \union {pending_show}
  BY <1>1, <1>2, <1>5, ShowIds DEF EchoInv
<1>7. IdsTell' /\ pending_show.id <= sent
  <2>1. InPlay' \subseteq InPlay /\ pending_show \in InPlay
    BY <1>1, <1>3, <1>6 DEF InPlay, StillSlots
  <2> QED
    BY <1>3, <2>1 DEF EchoInv, IdsTell, StillSlots
<1>8. sent \in 0..MaxSends
  BY SightingIds, SettingFacts, OpticalAssumption DEF EchoInv
<1> QED
  BY <1>1, <1>2, <1>3, <1>4, <1>5, <1>7, <1>8, ShowKeeps, SightingIds DEF EchoInv

LEMMA SentIsNew ==
  ASSUME Types, EchoInv, NEW p \in Payloads, SendFrame(p)
  PROVE  /\ NewFrame(p) \in Frame /\ NewFrame(p).id = sent + 1 /\ sent' = sent + 1 /\ sent' \in 0..MaxSends
         /\ sent \in Nat /\ \A i \in Ids(screen) \union Sighted : i < sent + 1
         /\ UNCHANGED <<setting, delivered, recent, cap_pc, entry, pending, submitting>>
<1>1. NewFrame(p) \in Frame /\ sent' \in 0..setting.sends /\ sent' = sent + 1
  BY NewFrameType DEF Types
<1>2. sent \in Nat /\ Ids(screen) \union Sighted \subseteq 1..sent
  BY SightingIds DEF EchoInv, ShownInOrder
<1>3. sent' \in 0..MaxSends
  BY <1>1, SettingFacts DEF Types, SenderTypes
<1> QED
  BY <1>1, <1>2, <1>3 DEF NewFrame, SendFrame, receiverSide, cameraVars, captureVars

LEMMA KivyShowKeeps ==
  ASSUME Types, EchoInv, NEW p \in Payloads, SendFrame(p), KivyShow(NewFrame(p))
  PROVE  EchoInv'
<1> USE DEF EchoInv
<1> DEFINE n == NewFrame(p)
<1>1. /\ n \in Frame /\ n.id = sent + 1 /\ sent' = sent + 1 /\ sent \in Nat
      /\ \A i \in Ids(screen) \union Sighted : i < sent + 1
      /\ UNCHANGED <<setting, delivered, recent, cap_pc, entry, pending, submitting>>
  BY SentIsNew
<1>2. pending_show' = n /\ screen' = screen /\ queue' = queue /\ setting.device = "kivy"
  BY DEF KivyShow, linkVars
<1>3. StillSlots
  BY <1>1, <1>2 DEF StillSlots
<1>4. Sighted' = Sighted /\ Behind' = Behind /\ RecentIsLast' /\ DeliveredOnce'
  BY <1>3, StillSightings
<1>5. IdsTell'
  <2>1. InPlay' \subseteq InPlay \union {n}
    BY <1>1, <1>2 DEF InPlay
  <2> QED
    BY <2>1, NewTells
<1>6. ShownInOrder'
  <2>1. 1..sent \subseteq 1..sent'
    BY <1>1
  <2> QED
    BY <1>1, <1>2, <1>4, <2>1 DEF ShownInOrder
<1>7. Overlap(Behind, Sighted, Ids(screen), setting.echo)'
  BY <1>1, <1>2, <1>4 DEF Overlap
<1> QED
  BY <1>4, <1>5, <1>6, <1>7

LEMMA Cv2ShowKeeps ==
  ASSUME Types, EchoInv, NEW p \in Payloads, SendFrame(p), Cv2Show(NewFrame(p))
  PROVE  EchoInv'
<1> DEFINE n == NewFrame(p)
<1>1. /\ n \in Frame /\ n.id = sent + 1 /\ sent' = sent + 1 /\ sent \in Nat /\ sent' \in 0..MaxSends
      /\ \A i \in Ids(screen) \union Sighted : i < n.id
      /\ UNCHANGED <<setting, delivered, recent, cap_pc, entry, pending, submitting>>
  BY SentIsNew
<1>2. screen' = Show(n) /\ queue' = queue /\ setting.device = "cv2" /\ pending_show' = pending_show /\ pending_show = NoFrame
  BY DEF Cv2Show, displayVars, EchoInv, ShownInOrder
<1>3. StillSlots
  BY <1>1, <1>2 DEF StillSlots
<1>4. IdsTell'
  <2>1. Range(screen') \subseteq Range(screen) \union {n}
    BY <1>1, <1>2, ShowIds DEF EchoInv
  <2>2. InPlay' \subseteq InPlay \union {n}
    BY <1>1, <1>2, <2>1 DEF InPlay
  <2> QED
    BY <2>2, NewTells
<1> HIDE DEF n
<1>5. setting.device # "memory" /\ n.id <= sent' /\ sent <= sent' /\ pending_show' = NoFrame
  BY <1>1, <1>2
<1> QED
  BY <1>1, <1>2, <1>3, <1>4, <1>5, ShowKeeps

LEMMA FadeShows ==
  ASSUME Types, EchoInv, Fade
  PROVE  EchoInv'
<1> USE DEF EchoInv
<1>1. StillSlots /\ UNCHANGED <<sent, send_nonce, pending_show>>
  BY DEF Fade, sendVars, displayVars, receiverSide, cameraVars, captureVars, StillSlots
<1>2. Sighted' = Sighted /\ Behind' = Behind /\ RecentIsLast' /\ DeliveredOnce'
  BY <1>1, StillSightings
<1> DEFINE n == Len(screen)
<1>3. n \in Nat /\ n > 1 /\ DOMAIN screen = 1..n /\ screen' = <<screen[n]>>
  BY DEF Fade, Last, Types, SenderTypes
<1> HIDE DEF n
<1>4. Ids(screen') = {screen[n].id} /\ Range(screen') = {screen[n]} /\ screen[n].id \in Ids(screen) /\ screen[n] \in Range(screen)
  BY <1>3 DEF Ids, Range
<1>5. IdsTell'
  <2>1. InPlay' \subseteq InPlay
    BY <1>1, <1>4 DEF InPlay, StillSlots
  <2> QED
    BY <1>1, <2>1 DEF IdsTell, StillSlots
<1>6. ShownInOrder'
  <2>1. \A i, j \in DOMAIN screen' : i < j => screen'[i].id < screen'[j].id
    BY <1>3
  <2>2. screen # <<>>
    BY <1>3
  <2> QED
    BY <1>1, <1>2, <1>4, <2>1, <2>2 DEF ShownInOrder, StillSlots
<1>7. Overlap(Behind, Sighted, Ids(screen'), setting.echo)
  <2>1. Sighted \in SomeIds /\ Behind \in Followers /\ Ids(screen) \in SomeIds /\ setting.echo \in Nat
    BY SightingIds, ScreenIds
  <2>2. Ids(screen') \in SomeIds
    BY <1>4, <2>1 DEF SomeIds
  <2>3. \A s \in Ids(screen) \ Ids(screen'), t \in Ids(screen') : s < t
    <3> SUFFICES ASSUME NEW i \in 1..n, screen[i].id # screen[n].id PROVE screen[i].id < screen[n].id
      BY <1>3, <1>4 DEF Ids
    <3>1. i < n
      BY <1>3
    <3> QED
      BY <1>3, <3>1 DEF ShownInOrder
  <2> QED
    BY <1>4, <2>1, <2>2, <2>3, OverlapShows
<1>8. Overlap(Behind, Sighted, Ids(screen), setting.echo)'
  BY <1>1, <1>2, <1>7 DEF StillSlots, Overlap
<1> QED
  BY <1>2, <1>5, <1>6, <1>8

\* The lens's image of a screen is taken, by the callback or by a grab.
Captures(f) ==
  /\ UNCHANGED <<setting, sent, send_nonce, screen, delivered, recent, pending_show, queue>>
  /\ queue = <<>> /\ pending' = pending /\ (cap_pc' # "decoding" => entry' = NoFrame)
  /\ \/ setting.device = "kivy" /\ submitting = NoFrame /\ submitting' = f /\ entry' = entry
     \/ entry = NoFrame /\ entry' = f /\ pending = NoFrame /\ submitting = NoFrame /\ submitting' = NoFrame

LEMMA CapturesKeeps ==
  ASSUME Types, EchoInv, NEW f \in LensSees, Captures(f)
  PROVE  EchoInv'
<1> USE DEF EchoInv
<1>1. f \in Frame /\ f \in Range(screen) /\ f.id \in Ids(screen)
  BY DEF LensSees, Types, SenderTypes, Range, Ids
<1>2. Ids(screen)' = Ids(screen) /\ Ids(queue) = {} /\ Ids(queue)' = {} /\ Delivered' = Delivered /\ delivered' = delivered
  BY DEF Captures, Ids, Delivered
<1>3. IdOf(f) \subseteq {f.id}
  BY DEF IdOf
<1>4. Sighted' \subseteq Sighted \union {f.id} /\ InPlay' \subseteq InPlay
  <2>1. Sighted' \subseteq Sighted \union {f.id}
    BY <1>2, <1>3 DEF Captures, Sighted, IdOf
  <2>2. InPlay' \subseteq InPlay
    BY <1>1 DEF Captures, InPlay
  <2> QED
    BY <2>1, <2>2
<1>5. IdsTell' /\ RecentIsLast' /\ DeliveredOnce'
  BY <1>4 DEF IdsTell, RecentIsLast, DeliveredOnce, Captures
<1>6. ShownInOrder'
  <2>1. (pending_show # NoFrame => \A i \in Ids(screen) \union Sighted : i < pending_show.id)'
    BY <1>1, <1>2, <1>4 DEF ShownInOrder, Captures
  <2>2. (Ids(screen) \union Sighted \subseteq 1..sent)'
    BY <1>1, <1>2, <1>4 DEF ShownInOrder, Captures
  <2>3. (\A i, j \in DOMAIN screen : i < j => screen[i].id < screen[j].id)'
    BY DEF ShownInOrder, Captures
  <2>4. (setting.device # "kivy" => pending_show = NoFrame /\ pending = NoFrame /\ submitting = NoFrame)'
    BY DEF ShownInOrder, Captures
  <2>5. (IF setting.device = "memory" THEN screen = <<>> ELSE queue = <<>>)'
    BY DEF ShownInOrder, Captures
  <2> QED
    BY <2>1, <2>2, <2>3, <2>4, <2>5 DEF ShownInOrder, Captures
<1>7. ASSUME NEW x, NEW y, Before(x, y)'
      PROVE  x \in Sighted /\ (y = f.id \/ Before(x, y))
  BY <1>2, <1>3, <1>7 DEF Captures, Before, Sighted, Delivered, IdOf, Range
<1>8. Overlap(Behind', Sighted', Ids(screen), setting.echo)
  <2>1. Sighted' \in SomeIds /\ Behind' \in Followers
    <3>1. (Types /\ ShownInOrder => Sighted \in SomeIds /\ Behind \in Followers)'
      BY SightingTypes, PTL
    <3>2. Sighted \in SomeIds /\ Ids(screen) \in SomeIds
      BY SightingIds, ScreenIds
    <3>3. Sighted' \in SomeIds
      BY <1>1, <1>4, <3>2 DEF SomeIds
    <3>4. Behind' \in Followers
      BY DEF Behind, Followers, SomeIds
    <3> QED
      BY <3>3, <3>4
  <2>2. \A x \in Sighted' : Behind'[x] \subseteq IF x \in Sighted THEN Behind[x] \union {f.id} ELSE {}
    <3> SUFFICES ASSUME NEW x \in Sighted', NEW y \in Behind'[x]
                 PROVE  x \in Sighted /\ (y = f.id \/ y \in Behind[x])
      OBVIOUS
    <3>1. x \in 1..MaxSends
      BY <2>1 DEF SomeIds
    <3>2. y \in 1..MaxSends /\ Before(x, y)'
      BY <3>1 DEF Behind
    <3>3. x \in Sighted /\ (y = f.id \/ Before(x, y))
      BY <1>7, <3>2
    <3> QED
      BY <3>1, <3>2, <3>3 DEF Behind
  <2>3. Sighted \in SomeIds /\ Behind \in Followers /\ Ids(screen) \in SomeIds /\ setting.echo \in Nat
        /\ Cardinality(Ids(screen)) <= setting.echo
    BY SightingIds, ScreenIds
  <2> QED
    BY <1>1, <1>4, <2>1, <2>2, <2>3, OverlapCaptures
<1>9. Overlap(Behind, Sighted, Ids(screen), setting.echo)'
  BY <1>2, <1>8 DEF Captures, Overlap
<1> QED
  BY <1>5, <1>6, <1>9

LEMMA SubmitCaptures ==
  ASSUME EchoInv, NEW f \in LensSees, SubmitFrame(f)
  PROVE  Captures(f)
  BY DEF EchoInv, ShownInOrder, SubmitFrame, Captures, senderSide, sendVars, displayVars, linkVars, captureVars

LEMMA GrabCaptures ==
  ASSUME EchoInv, ReadGrabs
  PROVE  \E f \in LensSees : Captures(f)
<1>1. PICK f \in LensSees : Cv2Grabs(f)
  BY DEF ReadGrabs, Reads
<1>2. Captures(f)
  BY <1>1 DEF EchoInv, ShownInOrder, ReadGrabs, Reads, Cv2Grabs, Captures, sendVars, displayVars, linkVars, cameraVars
<1> QED
  BY <1>2

\* The pair of memory devices hands frames over in the order they were sent in.
LEMMA MemoryShowKeeps ==
  ASSUME Types, EchoInv, NEW p \in Payloads, SendFrame(p), MemoryShow(NewFrame(p))
  PROVE  EchoInv'
<1> USE DEF EchoInv
<1> DEFINE n == NewFrame(p)
<1>1. /\ n \in Frame /\ n.id = sent + 1 /\ sent' = sent + 1 /\ sent \in Nat /\ sent' \in 0..MaxSends
      /\ \A i \in Ids(screen) \union Sighted : i < n.id
      /\ UNCHANGED <<setting, delivered, recent, cap_pc, entry, pending, submitting>>
  BY SentIsNew
<1>2. /\ queue' = Append(queue, n) /\ setting.device = "memory" /\ UNCHANGED <<screen, pending_show>>
      /\ screen = <<>> /\ pending_show = NoFrame /\ pending = NoFrame /\ submitting = NoFrame
  BY DEF MemoryShow, displayVars, ShownInOrder
<1> HIDE DEF n
<1> DEFINE m == Len(queue)
<1>3. /\ m \in Nat /\ DOMAIN queue = 1..m /\ DOMAIN queue' = 1..m + 1
      /\ queue'[m + 1] = n /\ \A i \in 1..m : queue'[i] = queue[i]
  BY <1>1, <1>2 DEF Types, SenderTypes
<1> HIDE DEF m
<1>4. Ids(queue') \subseteq Ids(queue) \union {n.id} /\ Range(queue') \subseteq Range(queue) \union {n}
  <2>1. \A i \in 1..m + 1 : i \in 1..m \/ i = m + 1
    BY <1>3
  <2>2. Ids(queue') \subseteq Ids(queue) \union {n.id}
    BY <1>3, <2>1 DEF Ids
  <2>3. Range(queue') \subseteq Range(queue) \union {n}
    BY <1>3, <2>1 DEF Range
  <2> QED
    BY <2>2, <2>3
<1>5. Delivered' = Delivered /\ Sighted' \subseteq Sighted \union {n.id}
  BY <1>1, <1>4 DEF Sighted, Delivered
<1>6. IdsTell'
  <2>1. InPlay' \subseteq InPlay \union {n}
    BY <1>1, <1>2, <1>4 DEF InPlay
  <2> QED
    BY <2>1, NewTells DEF n
<1>7. Ids(screen) = {} /\ Ids(screen)' = {}
  BY <1>2 DEF Ids
<1>8. RecentIsLast' /\ DeliveredOnce'
  BY <1>1 DEF RecentIsLast, DeliveredOnce
<1>9. ShownInOrder'
  <2>1. (Ids(screen) \union Sighted)' \subseteq 1..sent'
    <3>1. 1..sent \subseteq 1..sent' /\ n.id \in 1..sent'
      BY <1>1
    <3> QED
      BY <1>5, <1>7, <3>1 DEF ShownInOrder
  <2> QED
    BY <1>1, <1>2, <1>7, <2>1 DEF ShownInOrder
<1>10. ASSUME NEW x, NEW y, Before(x, y)'
       PROVE  x \in Sighted /\ (y = n.id \/ Before(x, y))
  <2>1. CASE \E i, j \in DOMAIN queue' : i < j /\ queue'[i].id = x /\ queue'[j].id = y
    <3>1. PICK i \in 1..m + 1, j \in 1..m + 1 : i < j /\ queue'[i].id = x /\ queue'[j].id = y
      BY <1>3, <2>1
    <3>2. i \in 1..m /\ x = queue[i].id
      BY <1>3, <3>1
    <3>3. x \in Sighted
      BY <1>3, <3>2 DEF Sighted, Ids
    <3>4. CASE j = m + 1
      BY <1>3, <3>1, <3>3, <3>4
    <3>5. CASE j # m + 1
      <4>1. j \in 1..m /\ y = queue[j].id
        BY <1>3, <3>1, <3>5
      <4> QED
        BY <1>3, <3>1, <3>2, <3>3, <4>1 DEF Before
    <3> QED
      BY <3>4, <3>5
  <2>2. CASE \E i, j \in DOMAIN delivered' : i < j /\ delivered'[i] = x /\ delivered'[j] = y
    BY <1>1, <2>2 DEF Before, Sighted, Delivered, Range
  <2>3. CASE \/ x \in Delivered' /\ y \in (IdOf(entry) \union IdOf(pending) \union IdOf(submitting) \union Ids(queue))'
             \/ x \in IdOf(entry)' /\ y \in (IdOf(pending) \union IdOf(submitting) \union Ids(queue))'
             \/ x \in IdOf(pending)' /\ y \in (IdOf(submitting) \union Ids(queue))'
             \/ x \in IdOf(submitting)' /\ y \in Ids(queue)'
    BY <1>1, <1>4, <1>5, <2>3 DEF Before, Sighted
  <2> QED
    BY <1>10, <2>1, <2>2, <2>3 DEF Before
<1>11. Overlap(Behind', Sighted', {}, setting.echo)
  <2>1. Sighted \in SomeIds /\ Behind \in Followers /\ setting.echo \in Nat /\ setting.echo > 0 /\ n.id \in 1..MaxSends
    BY <1>1, SightingIds, ScreenIds DEF Frame
  <2>2. Sighted' \in SomeIds /\ Behind' \in Followers
    BY <1>5, <2>1 DEF SomeIds, Behind, Followers
  <2>3. \A x \in Sighted' : Behind'[x] \subseteq IF x \in Sighted THEN Behind[x] \union {n.id} ELSE {}
    <3> SUFFICES ASSUME NEW x \in Sighted', NEW y \in Behind'[x]
                 PROVE  x \in Sighted /\ (y = n.id \/ y \in Behind[x])
      OBVIOUS
    <3>1. x \in 1..MaxSends
      BY <2>2 DEF SomeIds
    <3>2. y \in 1..MaxSends /\ Before(x, y)'
      BY <3>1 DEF Behind
    <3>3. x \in Sighted /\ (y = n.id \/ Before(x, y))
      BY <1>10, <3>2
    <3> QED
      BY <3>1, <3>2, <3>3 DEF Behind
  <2>4. Overlap(Behind, Sighted, {}, setting.echo)
    BY <1>7
  <2> QED
    BY <1>1, <1>5, <2>1, <2>2, <2>3, <2>4, OverlapQueues
<1>12. Overlap(Behind, Sighted, Ids(screen), setting.echo)'
  BY <1>1, <1>7, <1>11 DEF Overlap
<1> QED
  BY <1>6, <1>8, <1>9, <1>12

\* What was delivered after a place: as many as there are places.
DeliveredAfter(k) == {delivered[j] : j \in k + 1..Len(delivered)}

LEMMA PlacesOf ==
  ASSUME NEW S, NEW s \in Seq(S)
  PROVE  Len(s) \in Nat /\ DOMAIN s = 1..Len(s) /\ \A j \in 1..Len(s) : s[j] \in S
  OBVIOUS

LEMMA DeliveredType ==
  ASSUME Types
  PROVE  /\ Len(delivered) \in Nat /\ DOMAIN delivered = 1..Len(delivered)
         /\ \A j \in 1..Len(delivered) : delivered[j] \in 1..MaxSends
<1>1. delivered \in Seq(1..MaxSends)
  BY DEF Types, CaptureTypes
<1> QED
  BY <1>1, PlacesOf

LEMMA CountAfter ==
  ASSUME Types, EchoInv, NEW k \in DOMAIN delivered
  PROVE  DeliveredAfter(k) \in SomeIds /\ Cardinality(DeliveredAfter(k)) = Len(delivered) - k
<1> DEFINE n == Len(delivered)
           f == [j \in k + 1..n |-> delivered[j]]
<1>1. n \in Nat /\ DOMAIN delivered = 1..n /\ k \in 1..n /\ \A j \in 1..n : delivered[j] \in 1..MaxSends
  BY DeliveredType
<1> HIDE DEF n
<1>2. k + 1..n \subseteq 1..n
  BY <1>1
<1>3. DeliveredAfter(k) \in SomeIds
  BY <1>1, <1>2 DEF DeliveredAfter, SomeIds, n
<1>4. f \in Bijection(k + 1..n, DeliveredAfter(k))
  <2>1. \A a, b \in k + 1..n : delivered[a] = delivered[b] => a = b
    BY <1>1, <1>2 DEF EchoInv, DeliveredOnce, IsInjective
  <2>2. f \in [k + 1..n -> DeliveredAfter(k)]
    BY DEF DeliveredAfter, n
  <2>3. \A t \in DeliveredAfter(k) : \E s \in k + 1..n : f[s] = t
    BY DEF DeliveredAfter, n
  <2> QED
    BY <2>1, <2>2, <2>3 DEF Bijection, Injection, Surjection, IsInjective
<1>5. IsFiniteSet(k + 1..n) /\ Cardinality(k + 1..n) = n - k
  <2>1. k + 1 \in Int /\ n \in Int /\ k <= n /\ k \in Int
    BY <1>1
  <2>2. IsFiniteSet(k + 1..n) /\ Cardinality(k + 1..n) = IF k + 1 > n THEN 0 ELSE n - (k + 1) + 1
    BY <2>1, FS_Interval
  <2>3. (IF k + 1 > n THEN 0 ELSE n - (k + 1) + 1) = n - k
    BY <2>1
  <2> QED
    BY <2>2, <2>3
<1>6. Cardinality(DeliveredAfter(k)) = n - k
  BY <1>4, <1>5, FS_Bijection DEF ExistsBijection
<1> QED
  BY <1>3, <1>6 DEF n

\* The last setting.depth deliveries are remembered.
LEMMA StillRemembered ==
  ASSUME Types, EchoInv, NEW k \in DOMAIN delivered, Len(delivered) - k < setting.depth
  PROVE  \E i \in DOMAIN recent : recent[i].id = delivered[k]
<1> DEFINE n == Len(delivered)
           m == Len(recent)
<1>1. n \in Nat /\ DOMAIN delivered = 1..n /\ k \in 1..n /\ m \in Nat /\ DOMAIN recent = 1..m
  BY DEF Types, CaptureTypes
<1>2. setting.depth \in Nat
  BY ScreenIds DEF EchoInv
<1>3. m = (IF n < setting.depth THEN n ELSE setting.depth) /\ \A i \in 1..m : recent[i].id = delivered[n - m + i]
  BY <1>1 DEF EchoInv, RecentIsLast
<1>4. n - k < setting.depth
  OBVIOUS
<1> HIDE DEF n, m
<1> DEFINE i == k - n + m
<1>5. i \in 1..m /\ n - m + i = k
  BY <1>1, <1>2, <1>3, <1>4
<1> HIDE DEF i
<1>6. recent[i].id = delivered[k]
  BY <1>3, <1>5
<1> QED
  BY <1>1, <1>5, <1>6

\* Ahead of what is in hand, fewer than setting.echo newer frames were delivered.
NewerBefore(y) == {x \in Sighted : y \in Behind[x] /\ x > y}

LEMMA CountNewer ==
  ASSUME Types, EchoInv, NEW y \in Sighted
  PROVE  NewerBefore(y) \in SomeIds /\ Cardinality(NewerBefore(y)) < setting.echo
<1>1. NewerBefore(y) \in SomeIds
  BY SightingIds DEF NewerBefore, SomeIds, EchoInv
<1> QED
  BY <1>1 DEF NewerBefore, EchoInv, Overlap

LEMMA DeliveredBeforeHand ==
  ASSUME Types, EchoInv, entry # NoFrame, NEW x \in Delivered
  PROVE  x \in Sighted /\ entry.id \in Sighted /\ entry.id \in 1..MaxSends /\ entry.id \in Behind[x]
<1>1. x \in Sighted /\ entry.id \in Sighted
  BY DEF Sighted, IdOf
<1>2. x \in 1..MaxSends /\ entry.id \in 1..MaxSends
  BY <1>1, SightingIds DEF SomeIds, EchoInv
<1> QED
  BY <1>1, <1>2 DEF Behind, Before, IdOf

LEMMA NoneIsNoFrame ==
  ASSUME setting \in Settings
  PROVE  NoFrame \notin Frame
<1>1. setting.nonce_mod \in Nat /\ MaxSends \in Nat
  BY SettingFacts
<1>2. Frame \subseteq [id : Nat, nonce : Nat, payload : Payloads]
  BY <1>1 DEF Frame
<1> QED
  BY <1>2, OpticalAssumption

\* A frame in hand that was delivered before is still remembered.
LEMMA KnownAgain ==
  ASSUME Types, EchoInv, entry # NoFrame, entry.id \in Delivered
  PROVE  Suppressed(entry)
<1> DEFINE n == Len(delivered)
           x == entry.id
           older == {y \in Behind[x] \union Ids(screen) : y < x}
<1>1. PICK k \in DOMAIN delivered : delivered[k] = x
  BY DEF Delivered, Range
<1>2. n \in Nat /\ DOMAIN delivered = 1..n /\ \A j \in 1..n : delivered[j] \in 1..MaxSends
  BY DeliveredType
<1>3. x \in Sighted /\ x \in 1..MaxSends
  BY DeliveredBeforeHand
<1>4. older \in SomeIds /\ Cardinality(older) < setting.echo
  <2>1. older \in SomeIds
    BY SightingIds, ScreenIds, <1>3 DEF SomeIds, Followers, EchoInv
  <2> QED
    BY <1>3, <2>1 DEF EchoInv, Overlap
<1>5. NewerBefore(x) \in SomeIds /\ Cardinality(NewerBefore(x)) < setting.echo
  BY <1>3, CountNewer
<1>6. DeliveredAfter(k) \subseteq older \union NewerBefore(x)
  <2> SUFFICES ASSUME NEW j \in k + 1..n PROVE delivered[j] \in older \union NewerBefore(x)
    BY DEF DeliveredAfter
  <2>1. j \in DOMAIN delivered /\ k < j
    BY <1>1, <1>2
  <2>2. delivered[j] \in Delivered /\ delivered[j] \in 1..MaxSends /\ delivered[j] # x
    BY <1>1, <1>2, <2>1 DEF Delivered, Range, EchoInv, DeliveredOnce, IsInjective
  <2>3. delivered[j] \in Behind[x]
    BY <1>1, <1>3, <2>1, <2>2 DEF Behind, Before
  <2>4. CASE delivered[j] < x
    BY <2>3, <2>4
  <2>5. CASE delivered[j] > x
    BY <2>2, <2>5, DeliveredBeforeHand DEF NewerBefore
  <2>6. delivered[j] \in Nat /\ x \in Nat
    BY <1>3, <2>2
  <2> QED
    BY <2>2, <2>4, <2>5, <2>6
<1> HIDE DEF older
<1>7. Cardinality(DeliveredAfter(k)) <= Cardinality(older) + Cardinality(NewerBefore(x))
  <2>1. older \union NewerBefore(x) \in SomeIds
    BY <1>4, <1>5 DEF SomeIds
  <2>2. Cardinality(DeliveredAfter(k)) <= Cardinality(older \union NewerBefore(x))
    BY <1>6, <2>1, FewerIds
  <2>3. Cardinality(older \union NewerBefore(x)) = Cardinality(older) + Cardinality(NewerBefore(x)) - Cardinality(older \cap NewerBefore(x))
    BY <1>4, <1>5, FiniteIds, FS_Union
  <2>4. older \cap NewerBefore(x) \in SomeIds
    BY <1>4 DEF SomeIds
  <2>5. /\ Cardinality(older \cap NewerBefore(x)) \in Nat /\ Cardinality(older) \in Nat /\ Cardinality(NewerBefore(x)) \in Nat
        /\ Cardinality(older \union NewerBefore(x)) \in Nat
    BY <1>4, <1>5, <2>1, <2>4, FiniteIds
  <2>6. Cardinality(DeliveredAfter(k)) \in Nat
    BY <1>1, CountAfter, FiniteIds
  <2> QED
    BY <2>2, <2>3, <2>5, <2>6
<1>8. n - k < setting.depth
  <2>1. Cardinality(DeliveredAfter(k)) = n - k
    BY <1>1, CountAfter
  <2>2. Cardinality(older) \in Nat /\ Cardinality(NewerBefore(x)) \in Nat
    BY <1>4, <1>5, FiniteIds
  <2>3. 2 * setting.echo - 1 <= setting.depth /\ setting.echo \in Nat /\ setting.depth \in Nat
    BY SettingFacts DEF Types, SenderTypes
  <2>4. k \in Nat
    BY <1>1, <1>2
  <2> HIDE DEF n
  <2> QED
    BY <1>2, <1>4, <1>5, <1>7, <2>1, <2>2, <2>3, <2>4
<1>9. PICK i \in DOMAIN recent : recent[i].id = x
  BY <1>1, <1>8, StillRemembered
<1>10. recent[i] \in Range(recent) /\ recent[i] \in Frame
  BY DEF Range, Types, CaptureTypes
<1>11. recent[i] = entry
  <2>1. recent[i] # NoFrame
    BY <1>10, NoneIsNoFrame DEF Types, SenderTypes
  <2>2. recent[i] \in InPlay /\ entry \in InPlay
    BY <1>10, <2>1 DEF InPlay
  <2> QED
    BY <1>9, <2>2 DEF EchoInv, IdsTell
<1> QED
  BY <1>11 DEF Suppressed

\* The window of recent frames moves on with what is delivered.
LEMMA RecentNext ==
  ASSUME Types, EchoInv, DecodeDelivers, entry \in Frame
  PROVE  RecentIsLast' /\ Range(recent)' \subseteq Range(recent) \union {entry}
<1> DEFINE m == Len(recent)
           n == Len(delivered)
           s == Append(recent, entry)
           d == setting.depth
<1>1. /\ m \in Nat /\ DOMAIN recent = 1..m /\ n \in Nat /\ DOMAIN delivered = 1..n /\ d \in Nat /\ d > 0
      /\ setting' = setting
  <2>1. m \in Nat /\ DOMAIN recent = 1..m
    BY PlacesOf DEF Types, CaptureTypes
  <2>2. n \in Nat /\ DOMAIN delivered = 1..n
    BY DeliveredType
  <2> QED
    BY <2>1, <2>2, ScreenIds DEF EchoInv, DecodeDelivers, senderSide
<1>2. m = (IF n < d THEN n ELSE d) /\ \A i \in 1..m : recent[i].id = delivered[n - m + i]
  BY <1>1 DEF EchoInv, RecentIsLast
<1>3. /\ Len(delivered') = n + 1 /\ delivered'[n + 1] = entry.id /\ \A i \in 1..n : delivered'[i] = delivered[i]
  BY DeliveredType DEF DecodeDelivers, Types, CaptureTypes
<1>4. /\ s \in Seq(Frame) /\ Len(s) = m + 1 /\ DOMAIN s = 1..m + 1 /\ s[m + 1] = entry
      /\ \A i \in 1..m : s[i] = recent[i]
  BY DEF Types, CaptureTypes
<1>5. recent' = IF m + 1 > d THEN Tail(s) ELSE s
  BY <1>4 DEF DecodeDelivers, Remember
<1> HIDE DEF m, n, s, d
<1>6. CASE n < d
  <2>1. m = n /\ recent' = s
    BY <1>1, <1>2, <1>5, <1>6
  <2>2. \A i \in 1..m + 1 : recent'[i].id = delivered'[i]
    <3> SUFFICES ASSUME NEW i \in 1..m + 1 PROVE recent'[i].id = delivered'[i]
      OBVIOUS
    <3>1. CASE i = m + 1
      BY <1>3, <1>4, <2>1, <3>1
    <3>2. CASE i # m + 1
      <4>1. i \in 1..m /\ n - m + i = i
        BY <1>1, <2>1, <3>2
      <4> QED
        BY <1>2, <1>3, <1>4, <2>1, <4>1
    <3> QED
      BY <3>1, <3>2
  <2>3. Len(recent') = m + 1 /\ DOMAIN recent' = 1..m + 1
    BY <1>4, <2>1
  <2>4. (IF n + 1 < d THEN n + 1 ELSE d) = n + 1
    BY <1>1, <1>6
  <2>5. \A i \in 1..m + 1 : (n + 1) - (m + 1) + i = i
    BY <1>1, <2>1
  <2>6. RecentIsLast'
    BY <1>1, <1>3, <2>1, <2>2, <2>3, <2>4, <2>5 DEF RecentIsLast, d
  <2>7. \A i \in 1..m + 1 : i \in 1..m \/ i = m + 1
    BY <1>1
  <2>8. Range(recent)' \subseteq Range(recent) \union {entry}
    BY <1>1, <1>4, <2>1, <2>7 DEF Range
  <2> QED
    BY <2>6, <2>8
<1>7. CASE n >= d
  <2>1. m = d /\ recent' = Tail(s)
    BY <1>1, <1>2, <1>5, <1>7
  <2>2. Len(recent') = m /\ DOMAIN recent' = 1..m /\ \A i \in 1..m : recent'[i] = s[i + 1]
    BY <1>1, <1>4, <2>1
  <2>3. \A i \in 1..m : i + 1 \in 1..m + 1 /\ (i = m \/ i + 1 \in 1..m)
    BY <1>1
  <2>4. \A i \in 1..m : recent'[i].id = delivered'[(n + 1) - m + i]
    <3> SUFFICES ASSUME NEW i \in 1..m PROVE recent'[i].id = delivered'[(n + 1) - m + i]
      OBVIOUS
    <3>1. CASE i = m
      <4>1. (n + 1) - m + i = n + 1
        BY <1>1, <3>1
      <4> QED
        BY <1>3, <1>4, <2>2, <3>1, <4>1
    <3>2. CASE i # m
      <4>1. i + 1 \in 1..m /\ n - m + (i + 1) = (n + 1) - m + i /\ (n + 1) - m + i \in 1..n
        BY <1>1, <1>7, <2>1, <3>2
      <4> QED
        BY <1>2, <1>3, <1>4, <2>2, <4>1
    <3> QED
      BY <3>1, <3>2
  <2>5. (IF n + 1 < d THEN n + 1 ELSE d) = m
    BY <1>1, <1>7, <2>1
  <2>6. RecentIsLast'
    BY <1>1, <1>3, <2>2, <2>4, <2>5 DEF RecentIsLast, d
  <2>7. Range(recent)' \subseteq Range(recent) \union {entry}
    <3> SUFFICES ASSUME NEW i \in 1..m PROVE recent'[i] \in Range(recent) \union {entry}
      BY <2>2 DEF Range
    <3>1. CASE i = m
      BY <1>4, <2>2, <3>1
    <3>2. CASE i # m
      <4>1. recent'[i] = recent[i + 1] /\ i + 1 \in DOMAIN recent
        BY <1>1, <1>4, <2>2, <2>3, <3>2
      <4> QED
        BY <4>1 DEF Range
    <3> QED
      BY <3>1, <3>2
  <2> QED
    BY <2>6, <2>7
<1> QED
  BY <1>1, <1>6, <1>7

LEMMA DeliverKeeps ==
  ASSUME Types, EchoInv, DecodeDelivers
  PROVE  EchoInv'
<1> USE DEF EchoInv
<1>1. entry \in Frame /\ entry # NoFrame
  BY NoneIsNoFrame DEF DecodeDelivers, Types, CaptureTypes, SenderTypes
<1>2. entry.id \notin Delivered
  BY <1>1, KnownAgain DEF DecodeDelivers
<1>3. RecentIsLast' /\ Range(recent)' \subseteq Range(recent) \union {entry}
  BY <1>1, RecentNext
<1>4. /\ UNCHANGED <<setting, sent, send_nonce, screen, queue, pending_show, pending, submitting>>
      /\ entry' = NoFrame /\ delivered' = Append(delivered, entry.id)
  BY DEF DecodeDelivers, LoopTop, Keep, senderSide, sendVars, displayVars, linkVars
<1> DEFINE n == Len(delivered)
<1>5. /\ n \in Nat /\ DOMAIN delivered = 1..n /\ DOMAIN delivered' = 1..n + 1
      /\ delivered'[n + 1] = entry.id /\ \A i \in 1..n : delivered'[i] = delivered[i]
  BY <1>4, DeliveredType DEF Types, CaptureTypes
<1> HIDE DEF n
<1>6. \A i \in 1..n + 1 : i \in 1..n \/ i = n + 1
  BY <1>5
<1>7. Delivered' \subseteq Delivered \union {entry.id}
  BY <1>5, <1>6 DEF Delivered, Range
<1>8. IdOf(entry) = {entry.id} /\ IdOf(entry)' = {} /\ Ids(queue)' = Ids(queue) /\ Ids(screen)' = Ids(screen)
      /\ IdOf(pending)' = IdOf(pending) /\ IdOf(submitting)' = IdOf(submitting)
  BY <1>1, <1>4 DEF IdOf
<1>9. Sighted' \subseteq Sighted /\ InPlay' \subseteq InPlay
  <2>1. Sighted' \subseteq Sighted
    BY <1>7, <1>8 DEF Sighted
  <2>2. InPlay' \subseteq InPlay
    BY <1>1, <1>3, <1>4 DEF InPlay
  <2> QED
    BY <2>1, <2>2
<1>10. IdsTell'
  BY <1>4, <1>9 DEF IdsTell
<1>11. DeliveredOnce'
  <2> SUFFICES ASSUME NEW i \in 1..n + 1, NEW j \in 1..n + 1, delivered'[i] = delivered'[j] PROVE i = j
    BY <1>5 DEF DeliveredOnce, IsInjective
  <2>1. \A a \in 1..n : delivered[a] \in Delivered
    BY <1>5 DEF Delivered, Range
  <2>2. \A a, b \in 1..n : delivered[a] = delivered[b] => a = b
    BY <1>5 DEF DeliveredOnce, IsInjective
  <2> QED
    BY <1>2, <1>5, <1>6, <2>1, <2>2
<1>12. ShownInOrder'
  BY <1>4, <1>8, <1>9 DEF ShownInOrder
<1>13. ASSUME NEW x, NEW y, Before(x, y)'
       PROVE  Before(x, y)
  <2>1. CASE \E i, j \in DOMAIN delivered' : i < j /\ delivered'[i] = x /\ delivered'[j] = y
    <3>1. PICK i \in 1..n + 1, j \in 1..n + 1 : i < j /\ delivered'[i] = x /\ delivered'[j] = y
      BY <1>5, <2>1
    <3>2. i \in 1..n /\ x = delivered[i] /\ x \in Delivered
      BY <1>5, <3>1 DEF Delivered, Range
    <3>3. CASE j = n + 1
      <4>1. y = entry.id
        BY <1>5, <3>1, <3>3
      <4> QED
        BY <1>8, <3>2, <4>1 DEF Before
    <3>4. CASE j # n + 1
      <4>1. j \in 1..n /\ y = delivered[j]
        BY <1>5, <1>6, <3>1, <3>4
      <4> QED
        BY <1>5, <3>1, <3>2, <4>1 DEF Before
    <3> QED
      BY <3>3, <3>4
  <2>2. CASE \/ x \in Delivered' /\ y \in (IdOf(entry) \union IdOf(pending) \union IdOf(submitting) \union Ids(queue))'
             \/ x \in IdOf(pending)' /\ y \in (IdOf(submitting) \union Ids(queue))'
             \/ x \in IdOf(submitting)' /\ y \in Ids(queue)'
    BY <1>7, <1>8, <2>2 DEF Before
  <2>3. CASE \E i, j \in DOMAIN queue' : i < j /\ queue'[i].id = x /\ queue'[j].id = y
    BY <1>4, <2>3 DEF Before
  <2> QED
    BY <1>8, <1>13, <2>1, <2>2, <2>3 DEF Before
<1>14. Overlap(Behind', Sighted', Ids(screen), setting.echo)
  <2>1. Sighted \in SomeIds /\ Behind \in Followers /\ Ids(screen) \in SomeIds /\ setting.echo \in Nat
    BY SightingIds, ScreenIds
  <2>2. Sighted' \in SomeIds /\ Behind' \in Followers
    BY <1>9, <2>1 DEF SomeIds, Behind, Followers
  <2>3. \A x \in Sighted' : Behind'[x] \subseteq Behind[x]
    <3> SUFFICES ASSUME NEW x \in Sighted', NEW y \in Behind'[x] PROVE y \in Behind[x]
      OBVIOUS
    <3>1. x \in 1..MaxSends
      BY <2>2 DEF SomeIds
    <3>2. y \in 1..MaxSends /\ Before(x, y)'
      BY <3>1 DEF Behind
    <3> QED
      BY <3>1, <3>2, <1>13 DEF Behind
  <2> QED
    BY <1>9, <2>1, <2>2, <2>3, OverlapShrinks
<1>15. Overlap(Behind, Sighted, Ids(screen), setting.echo)'
  BY <1>4, <1>8, <1>14 DEF Overlap
<1> QED
  BY <1>3, <1>10, <1>11, <1>12, <1>15

LEMMA EchoInit == Init => EchoInv
<1> SUFFICES ASSUME Init PROVE EchoInv
  OBVIOUS
<1>1. /\ screen = <<>> /\ queue = <<>> /\ recent = <<>> /\ delivered = <<>>
      /\ pending_show = NoFrame /\ submitting = NoFrame /\ pending = NoFrame /\ entry = NoFrame
      /\ sent = 0 /\ send_nonce = 0 /\ setting \in Settings
  BY DEF Init, NewDisplay, NewCamera, NewLink
<1>2. InPlay = {} /\ Sighted = {} /\ Ids(screen) = {}
  BY <1>1 DEF InPlay, Sighted, Delivered, IdOf, Ids, Range
<1>3. setting.nonce_mod \in Nat /\ setting.nonce_mod > 0 /\ setting.depth \in Nat /\ setting.depth > 0
  BY <1>1, SettingFacts
<1>4. 0 % setting.nonce_mod = 0
  BY <1>3, SMT
<1>5. IdsTell
  BY <1>1, <1>2, <1>4 DEF IdsTell
<1>6. ShownInOrder
  BY <1>1, <1>2 DEF ShownInOrder
<1>7. RecentIsLast /\ DeliveredOnce
  BY <1>1, <1>3 DEF RecentIsLast, DeliveredOnce, IsInjective
<1> QED
  BY <1>2, <1>5, <1>6, <1>7 DEF EchoInv, Overlap

LEMMA EchoNext ==
  ASSUME IInv, Types, Types', EchoInv, [Next]_vars
  PROVE  EchoInv'
<1>1. CASE \/ UNCHANGED vars \/ ShowSchedule \/ SenderClose \/ (Render /\ screen' = screen) \/ SubmitStore
           \/ LoopTest \/ ReadWakes \/ ReadTakes \/ ImageUnusable \/ DecodeFails \/ DecodeSuppressed
           \/ (\E c \in Callers : Caller(c)) \/ Closer
  BY <1>1, QuietActions, QuietKeeps
<1>2. CASE \E p \in Payloads : SendFrame(p)
  <2>1. PICK p \in Payloads : SendFrame(p)
    BY <1>2
  <2>2. KivyShow(NewFrame(p)) \/ Cv2Show(NewFrame(p)) \/ MemoryShow(NewFrame(p))
    BY <2>1 DEF SendFrame, NewFrame
  <2> QED
    BY <2>1, <2>2, KivyShowKeeps, Cv2ShowKeeps, MemoryShowKeeps
<1>3. CASE (\E f \in LensSees : SubmitFrame(f)) \/ ReadGrabs
  BY <1>3, SubmitCaptures, GrabCaptures, CapturesKeeps
<1>4. CASE (Render /\ screen' # screen) \/ Fade \/ DecodeDelivers
  BY <1>4, RenderShows, FadeShows, DeliverKeeps
<1> QED
  BY <1>1, <1>2, <1>3, <1>4 DEF Next, Sender, Camera, Capture, Decode

\* A frame is dropped unseen only for one of the same nonce, with losses in between.
LEMMA HidesForLosses ==
  ASSUME Types, EchoInv, DecodeSuppressed, entry.id \notin Delivered
  PROVE  \E g \in Range(delivered) :
           /\ g # entry.id /\ (entry.id - g) % setting.nonce_mod = 0
           /\ Cardinality(Between(entry.id, g) \ Range(delivered)) > setting.nonce_mod - setting.depth - setting.echo
<1> DEFINE f == entry.id
           n == Len(delivered)
           m == Len(recent)
           mod == setting.nonce_mod
           d == setting.depth
           e == setting.echo
<1>1. PICK i \in DOMAIN recent : Content(recent[i]) = Content(entry)
  BY DEF DecodeSuppressed, Suppressed
<1>2. m \in Nat /\ DOMAIN recent = 1..m /\ recent[i] \in Frame /\ recent[i] \in Range(recent)
  BY <1>1, PlacesOf DEF Types, CaptureTypes, Range
<1>3. n \in Nat /\ DOMAIN delivered = 1..n /\ \A j \in 1..n : delivered[j] \in 1..MaxSends
  BY DeliveredType
<1>4. /\ mod \in Nat /\ d \in Nat /\ e \in Nat /\ e > 0 /\ d > 0 /\ mod > 0 /\ d + e <= mod
  <2>1. setting \in Settings
    BY DEF Types, SenderTypes
  <2> QED
    BY <2>1, SettingFacts
<1>5. NoFrame \notin Frame /\ entry \in Frame /\ entry # NoFrame
  BY NoneIsNoFrame DEF Types, SenderTypes, CaptureTypes, DecodeSuppressed
<1>6. m <= d /\ m <= n /\ recent[i].id = delivered[n - m + i]
  BY <1>1, <1>2, <1>3, <1>4 DEF EchoInv, RecentIsLast
<1> DEFINE k == n - m + i
           g == delivered[k]
<1>7. k \in 1..n /\ n - k <= d - 1 /\ g \in Delivered /\ g \in 1..MaxSends
  <2>1. k \in 1..n /\ n - k <= d - 1
    BY <1>1, <1>2, <1>3, <1>4, <1>6
  <2> QED
    BY <1>3, <2>1 DEF Delivered, Range
<1>8. f \in Sighted /\ g \in Sighted /\ f \in 1..MaxSends
  BY <1>5, <1>7, DeliveredBeforeHand
<1>9. (f - 1) % mod = (g - 1) % mod
  <2>1. recent[i] \in InPlay /\ entry \in InPlay
    BY <1>2, <1>5 DEF InPlay
  <2>2. recent[i].nonce = (recent[i].id - 1) % mod /\ entry.nonce = (f - 1) % mod
    BY <2>1 DEF EchoInv, IdsTell
  <2>3. recent[i].nonce = entry.nonce
    BY <1>1 DEF Content
  <2> QED
    BY <1>6, <2>2, <2>3
<1>10. g # f
  BY <1>7
<1> HIDE DEF k, g, f, n, m, mod, d, e
<1>11. f \in Nat \ {0} /\ g \in Nat \ {0} /\ MaxSends \in Nat /\ f <= MaxSends /\ g <= MaxSends
  BY <1>7, <1>8, OpticalAssumption
<1>12. (f - g) % mod = 0 /\ (f - g >= mod \/ g - f >= mod)
  BY <1>4, <1>9, <1>10, <1>11, EqualResidues
<1> DEFINE B == Between(f, g)
           C == B \cap Delivered
<1>13. B \in SomeIds /\ C \in SomeIds
  BY DEF Between, SomeIds
<1>14. Cardinality(B \ Delivered) = Cardinality(B) - Cardinality(C)
  BY <1>13, FiniteIds, FS_Difference
<1>15. NewerBefore(f) \in SomeIds /\ Cardinality(NewerBefore(f)) < e /\ NewerBefore(g) \in SomeIds /\ Cardinality(NewerBefore(g)) < e
  BY <1>8, CountNewer DEF e
<1>16. CASE f - g >= mod
  <2>1. B = g + 1..f - 1 /\ Cardinality(B) = f - g - 1
    <3>1. B = g + 1..f - 1
      BY <1>4, <1>11, <1>16 DEF Between
    <3>2. g + 1 \in Int /\ f - 1 \in Int
      BY <1>11
    <3>3. Cardinality(g + 1..f - 1) = IF g + 1 > f - 1 THEN 0 ELSE (f - 1) - (g + 1) + 1
      BY <3>2, FS_Interval
    <3>4. (IF g + 1 > f - 1 THEN 0 ELSE (f - 1) - (g + 1) + 1) = f - g - 1
      BY <1>4, <1>11, <1>16
    <3> QED
      BY <3>1, <3>3, <3>4
  <2>2. DeliveredAfter(k) \in SomeIds /\ Cardinality(DeliveredAfter(k)) = n - k
    BY <1>3, <1>7, CountAfter DEF n
  <2>3. C \subseteq NewerBefore(g) \union DeliveredAfter(k)
    <3> SUFFICES ASSUME NEW x \in Delivered, g < x, x \in 1..MaxSends PROVE x \in NewerBefore(g) \union DeliveredAfter(k)
      BY <1>11, <2>1, <1>13 DEF SomeIds
    <3>1. PICK j \in 1..n : x = delivered[j]
      BY <1>3 DEF Delivered, Range
    <3>2. x # g
      BY <1>11
    <3>3. j # k
      BY <3>1, <3>2 DEF g
    <3>4. CASE j > k
      <4>1. j \in k + 1..n
        BY <1>3, <1>7, <3>4
      <4> QED
        BY <3>1, <4>1 DEF DeliveredAfter, n
    <3>5. CASE j < k
      <4>1. g \in Behind[x]
        BY <1>3, <1>7, <3>1, <3>5 DEF Behind, Before, g
      <4>2. x > g /\ x \in Sighted
        BY <1>11 DEF Sighted
      <4> QED
        BY <4>1, <4>2 DEF NewerBefore
    <3>6. j \in Int /\ k \in Int
      BY <1>7
    <3> QED
      BY <3>3, <3>4, <3>5, <3>6
  <2>4. Cardinality(C) <= Cardinality(NewerBefore(g)) + Cardinality(DeliveredAfter(k))
    <3>1. NewerBefore(g) \union DeliveredAfter(k) \in SomeIds /\ NewerBefore(g) \cap DeliveredAfter(k) \in SomeIds
      BY <1>15, <2>2 DEF SomeIds
    <3>2. Cardinality(C) <= Cardinality(NewerBefore(g) \union DeliveredAfter(k))
      BY <2>3, <3>1, FewerIds
    <3>3. Cardinality(NewerBefore(g) \union DeliveredAfter(k)) =
            Cardinality(NewerBefore(g)) + Cardinality(DeliveredAfter(k)) - Cardinality(NewerBefore(g) \cap DeliveredAfter(k))
      BY <1>15, <2>2, FiniteIds, FS_Union
    <3>4. /\ Cardinality(NewerBefore(g)) \in Nat /\ Cardinality(DeliveredAfter(k)) \in Nat /\ Cardinality(C) \in Nat
          /\ Cardinality(NewerBefore(g) \cap DeliveredAfter(k)) \in Nat /\ Cardinality(NewerBefore(g) \union DeliveredAfter(k)) \in Nat
      BY <1>13, <1>15, <2>2, <3>1, FiniteIds
    <3> QED
      BY <3>2, <3>3, <3>4
  <2>5. Cardinality(C) \in Nat /\ Cardinality(NewerBefore(g)) \in Nat
    BY <1>13, <1>15, FiniteIds
  <2>6. Cardinality(B) - Cardinality(C) > mod - d - e
    <3> HIDE DEF B, C
    <3> QED
      BY <1>3, <1>4, <1>7, <1>11, <1>15, <1>16, <2>1, <2>2, <2>4, <2>5
  <2> QED
    BY <1>7, <1>10, <1>12, <1>14, <2>6 DEF Delivered, f, mod, d, e
<1>17. CASE g - f >= mod
  <2>1. B = f + 1..g - 1 /\ Cardinality(B) = g - f - 1
    <3>1. B = f + 1..g - 1
      BY <1>4, <1>11, <1>17 DEF Between
    <3>2. f + 1 \in Int /\ g - 1 \in Int
      BY <1>11
    <3>3. Cardinality(f + 1..g - 1) = IF f + 1 > g - 1 THEN 0 ELSE (g - 1) - (f + 1) + 1
      BY <3>2, FS_Interval
    <3>4. (IF f + 1 > g - 1 THEN 0 ELSE (g - 1) - (f + 1) + 1) = g - f - 1
      BY <1>4, <1>11, <1>17
    <3> QED
      BY <3>1, <3>3, <3>4
  <2>2. C \subseteq NewerBefore(f)
    <3> SUFFICES ASSUME NEW x \in Delivered, f < x PROVE x \in NewerBefore(f)
      BY <1>11, <2>1
    <3>1. x \in Sighted /\ f \in Behind[x]
      BY <1>5, DeliveredBeforeHand DEF f
    <3>2. x \in Nat
      BY <3>1, SightingIds DEF SomeIds, EchoInv
    <3> QED
      BY <1>11, <3>1, <3>2 DEF NewerBefore
  <2>3. Cardinality(C) <= Cardinality(NewerBefore(f)) /\ Cardinality(C) \in Nat /\ Cardinality(NewerBefore(f)) \in Nat
    BY <1>15, <2>2, FewerIds
  <2>4. Cardinality(B) - Cardinality(C) > mod - d - e
    <3> HIDE DEF B, C
    <3> QED
      BY <1>4, <1>11, <1>15, <1>17, <2>1, <2>3
  <2> QED
    BY <1>7, <1>10, <1>12, <1>14, <2>4 DEF Delivered, f, mod, d, e
<1> QED
  BY <1>12, <1>16, <1>17

----------------------------------------------------------------------------

\* A frame that is shown once reaches the inbox at most once, however often the lens sees it
\* and in whatever order, over any device, as long as the window is at least twice the lens's echo less one
\* (channel.py:440-455, _DEDUP_DEPTH at 142).
THEOREM NoFrameTwice == Spec => []DeliveredOnce
<1>1. IInv /\ Types /\ EchoInv /\ [Next]_vars => (Types /\ EchoInv)'
  BY TypesNext, EchoNext
<1>2. EchoInv => DeliveredOnce
  BY DEF EchoInv
<1> QED
  BY <1>1, <1>2, TypesInit, EchoInit, InvariantHolds, PTL DEF Spec

\* The window drops a frame nobody has received only for another whose nonce is the same
\* because it came round, with frames lost in between (channel.py:440-445, 374-377).
THEOREM HiddenMeansLosses == Spec => HiddenOnlyAfterLosses
<1> DEFINE A == \A f \in hidden' \ hidden :
                  \E g \in Range(delivered) :
                    /\ g # f /\ (f - g) % setting.nonce_mod = 0
                    /\ Cardinality(Between(f, g) \ Range(delivered)) > setting.nonce_mod - setting.depth - setting.echo
<1>1. IInv /\ Types /\ EchoInv /\ [Next]_vars => (Types /\ EchoInv)'
  BY TypesNext, EchoNext
<1>2. Types /\ EchoInv /\ [Next]_vars => [A]_vars
  <2> SUFFICES ASSUME Types, EchoInv, [Next]_vars, NEW f \in hidden' \ hidden
               PROVE  \E g \in Range(delivered) :
                        /\ g # f /\ (f - g) % setting.nonce_mod = 0
                        /\ Cardinality(Between(f, g) \ Range(delivered)) > setting.nonce_mod - setting.depth - setting.echo
    OBVIOUS
  <2>1. CASE DecodeSuppressed
    <3>1. f = entry.id /\ entry.id \notin Delivered
      BY <2>1 DEF DecodeSuppressed, Delivered
    <3> QED
      BY <2>1, <3>1, HidesForLosses
  <2>2. CASE ~DecodeSuppressed
    <3>1. hidden' = hidden
      <4>1. CASE UNCHANGED vars
        BY <4>1 DEF vars, receiverSide, captureVars
      <4>2. CASE Sender \/ Render \/ Fade \/ Camera
        BY <4>2 DEF Sender, SendFrame, ShowSchedule, SenderClose, Render, Fade, Camera, SubmitFrame, SubmitStore, receiverSide, captureVars
      <4>3. CASE Capture
        BY <2>2, <4>3 DEF Capture, LoopTest, ReadWakes, ReadGrabs, ReadTakes, Reads, Decode, ImageUnusable, DecodeFails, DecodeDelivers
      <4>4. CASE \E c \in Callers : Caller(c)
        BY <4>4 DEF Caller, Start, RecvFrame, StartLocks, StartCreates, GetsFrame, GetTimesOut, captureVars
      <4>5. CASE Closer
        BY <4>5 DEF Closer, CloseFlag, CloseLooks, CloseJoins, CameraFlag, CameraClear, CameraWake, captureVars
      <4> QED
        BY <4>1, <4>2, <4>3, <4>4, <4>5 DEF Next
    <3> QED
      BY <3>1
  <2> QED
    BY <2>1, <2>2
<1>3. Spec => [][A]_vars
  BY <1>1, <1>2, TypesInit, EchoInit, InvariantHolds, PTL DEF Spec
<1> QED
  BY <1>3 DEF HiddenOnlyAfterLosses
=============================================================================
