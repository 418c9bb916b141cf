# PhotonTCP in TLA+

PhotonTCP moves packets between two hosts by showing QR codes on one screen and
reading them with the camera of the other.  On that link, which loses, repeats and
delays whatever it likes, it builds a TCP-like session: a handshake, selective-repeat
streams, heartbeats, a graceful close, and a chat and a file transfer on top.

This directory holds the specifications of that program, the TLC configurations that
check them, and the proofs about them.  Source lines in the modules are those of
`src/photontcp/`.

## 1. Inventory

| Component | State | Operations | Talks to |
|---|---|---|---|
| `reliability/serial.py` | none | `seq_add`, `seq_lt/leq/gt/geq`, `seq_diff` | ARQ |
| `reliability/rto.py` | srtt, rttvar, rto | `on_sample`, `on_timeout`, `clone` | ARQ |
| `reliability/arq.py` | send window, queue, peer window, reorder buffer, NACK record | `send`, `on_packet` (DATA, ACK, NACK), `on_tick` | mux; returns packets and chunks |
| `stream/mux.py` | stream id to endpoint, next id | `open_stream`, `send`, `on_packet`, `on_tick`, `set_session_id` | ARQ endpoints, session driver |
| `session/state_machine.py`, `states.py` | state, session id, FIN flags, armed packet and its retries, three timestamps | `connect`, `close`, `note_data_activity`, `on_packet`, `on_tick` | session driver; returns packets and events |
| `session/session.py` | receive buffers | `connect`, `close`, `send_on`, `recv_on`, `pump` | channel, clock, state machine, mux |
| `session/clock.py` | virtual time | `now`, `advance` | session driver |
| `channel/loopback.py`, `image_loopback.py` | two queues, a held frame, closed | `send_frame`, `recv_frame`, `close` | the other end |
| `optical/channel.py` | nonce, inbox, capture thread, recent frames | `start`, `send_frame`, `recv_frame`, capture loop, `close` | display, camera, QR codec |
| `optical/devices.py`, `cv2_devices.py` | last frame | `show`, `read`, `close` | screen and camera |
| `optical/peer.py` | result, deadline | `run_peer` | chat over a session |
| `app/file.py`, `file_codec.py` | transfer state, buffer, digest | `start`, `pump` and a handler per frame | session |
| `app/chat.py`, `codec.py` | message id, reassembly buffer | `send_message`, `pump`, `feed` | session |
| `packet/*`, `qr/*` | none | pack, unpack, encode, decode | channel, session |
| `mobile/app.py`, `kivy_devices.py` | running, worker, permission; pending slot, event | Start, Stop, permission callback, teardown; `show`, `submit_frame`, `read`, `close` | UI, camera and worker threads |

What makes this hard: frames get lost, come twice and come late, in both directions;
every timer races the answer it waits for; sequence numbers wrap; the handshake's last
packet and the close's last acknowledgement are never retransmitted by a timer; a
session object can be connected again and keeps some of its old state; and the optical
and mobile parts share slots and flags between threads.

What makes each part correct, in the order of the hazards in `PROJECT.json`:

* **ARQ**: delivery is in order, exactly once and of the right chunks; acknowledged means
  delivered; nothing submitted is lost; the window is honoured and never closes; there is
  always something that will get the queue moving; every chunk's fate is decided.
* **Session**: nobody comes up alone; a graceful close is mutual; the packet repeated is
  the one the state waits for; each attempt surfaces one outcome and ends; heartbeats
  keep a session alive.
* **Mux and driver**: streams do not disturb one another, data of the negotiated session
  is accepted once both ends know its id.
* **Channels**: a frame is delivered whole, at most as often as it was captured anew,
  and close releases whoever waits.
* **File, chat, peer runner**: both ends agree on the outcome or at least never claim
  success for different contents.

## 2. Modules

| Module | Models | Kind |
|---|---|---|
| `SerialArith` | `reliability/serial.py` | operators |
| `SerialArithProofs` | | lemmas on them |
| `ReliableStream` | what one direction of a stream promises | abstract specification |
| `ArqEndpoint` | `reliability/arq.py` | specification, implements `ReliableStream` |
| `ArqEndpointProofs` | | inductive invariant, its consequences, the refinement |
| `SessionLifecycle` | what one session endpoint surfaces | abstract specification |
| `SessionStateMachine` | `session/state_machine.py`, `states.py`, routing in `session.py` | specification, implements `SessionLifecycle` twice |
| `SessionProofs` | | inductive invariants, their consequences, the refinement |
| `DataPlane` | `session/session.py`, `stream/mux.py`, `channel/loopback.py`, `image_loopback.py`, `packet/header.py` | specification of two hosts and their channels |
| `DataPlaneProofs` | | inductive invariant and its consequence |
| `OpticalLink` | `optical/channel.py`, `devices.py`, `cv2_devices.py`, `mobile/kivy_devices.py` | specification, thread by thread |
| `OpticalLinkProofs` | | inductive invariants and their consequences |
| `PeerDrive` | `optical/peer.py` | the two drives, step by step |
| `MobileApp` | `mobile/app.py` around `PeerDrive` | specification |
| `MobileAppProofs` | | inductive invariant and its consequences |
| `TransferOutcome` | what a file transfer promises its two ends | abstract specification |
| `FileTransfer` | `app/file.py` over `session.send_on` | specification, implements `TransferOutcome` |
| `FileTransferProofs` | | inductive invariant, its consequences, the refinement |
| `Framing` | `app/codec.py`, `app/chat.py`, the reassembler of `app/file_codec.py` | specification |
| `QrDecode` | `qr/decode.py` | specification, against the documented selection rule |
| `CodecProofs` | about `QrDecode` and `Framing` | an inductive invariant of each and its consequence |
| `MC...` | | instances for TLC |

How they fit together: `ArqEndpoint` is one direction of one stream over the worst link.
`DataPlane` takes small endpoints of that kind (a window of one) and adds what lies
around them: sessions that adopt an id and multiplexers that make endpoints.
`SessionStateMachine` is the control plane in full.  `PeerDrive` runs over what the other two let
a peer see of a session, and `MobileApp` runs one of the drives on a thread of its own.
`FileTransfer` and `Framing` sit on a reliable stream.  `OpticalLink` is what is
really below a link on a phone: it loses frames and delivers none twice.  The links of
`ArqEndpoint` and `PeerDrive` allow all that it does; those of `SessionStateMachine` and
`DataPlane` keep frames in order, as a lens does that sees no older image after a newer one.

### ArqEndpoint

An `ArqEndpoint` object is a sender half and a receiver half that read nothing of each
other (the `ack` and `window` fields of DATA are written and never read), so one sender,
the peer's receiver and the two links between them are the whole protocol.

`next_seq`, `outstanding`, `peer_window`, `pending`, `failed`, `rcv_base`, `reorder` and
`nacked` are the attributes of the same names; `acked` counts chunks where
`_acked_bytes` counts bytes.  `submitted`, `emitted` and `delivered` are history.  The
actions are the handlers: `Send(k)` (`send` of data that splits into k chunks), `OnAck`
with the flush at its end, `OnNack`, `OnTick(T)` with T the packets found timed out, and
`_on_data` in its three branches, each with the ACK and NACK at its end.  A link is the
set of packets ever put on it, so every packet can arrive again, late, or never; with
`LossyLink` it can also be removed, which matters to liveness alone.

Abstracted: payload bytes (a chunk is the number of its submission), times and the RTO
(any non-empty set of outstanding packets may be found timed out), RTT samples, the
session id check (both ends have the same id here), and 2^32, which is the constant
`SeqMod`.

### SessionStateMachine

Both machines, with one action per branch of `on_packet` and per outcome of `on_tick`.
The code asks of a time only whether an interval has passed since, so the model keeps
the ages `recv_age`, `send_age`, `ctrl_age`, each up to its interval, and `Elapse` makes
them grow; a `None` is `Unset`.  A control packet is its type and session id, as no
handler reads its `seq` or `ack`.  `link[p]` is the queue of frames on their way to p:
each frame sent arrives as often as `Copies` allows, in order, since neither a screen
nor the loopback channel lets one frame pass another.  `event` is the event surfaced
last, and `agreed` records that CLOSED was reached by FIN and FIN_ACK.

`OnForeign` and `OnUseless` are what `_route_packet` and the first and last lines of
`on_packet` do with frames of another session and with frames of no use: only the latter
start the idle timer again.

### DataPlane

`side[p]` is a `Session` with its `StreamMux`: the machine's state and session id,
`mux_id` (`_session_id` of the multiplexer), the dict `endpoints`, `next_open`
(`_next_open_id`) and the receive buffers; `opened` is history.  An endpoint has the id
it stamps packets with, the chunks queued in it, how many are acknowledged and how
many were received.  `pump` is `PumpBegins` (`set_session_id`), one `RoutePacket` or
`DropMalformed` for each frame that the drain loop gets, and `PumpEnds`, in which `on_tick` of machine
and multiplexer may find anything due.  `_route_packet` for the control stream is `OnControl`, for
the others `OnStream`.  A session may `Leave` and be opened again on the same objects.

A channel is a queue and the frame held back.  `SendFrame` gives every outcome of
`send_frame`: lost, changed, doubled, held, or, for the image channel, unreadable.
`reorder` never changes the order, as the code emits a held frame before the next one.
Nonces, CRC arithmetic, the layout of a header and the random numbers are left out; each
behaviour has one `Setting`, the noise its channels make.

### OpticalLink

One direction, from the sending half of one `OpticalChannel` through a display, what
the lens sees and a camera to the receiving half of another.  A step is what a thread does
between two accesses to something shared: the sender in `send_frame` and `show`
(`SendFrame`, `ShowSchedule`, `SenderClose`), the UI thread (`Render`), the camera's callback
(`SubmitFrame`, `SubmitStore`), the capture thread (`LoopTest` to `Decode`, with
`read` inside), callers of `recv_frame` with `start` under its lock, and `close`
(`CloseFlag` to `CameraWake`).  `setting.device` says which devices it is about;
`screen` holds what the lens may still see, an echo of recent images.
`pending_show`, `scheduled`, `pending`, `arrived`, `last` are the slots and flags of the Kivy
adapters, `recent` is the window of recent frames, `hidden` and `gave_up` are history.
A frame that is torn or blurred is one that `Decode` fails on.

### PeerDrive and MobileApp

`drive[p]` holds the locals of `run_peer`, its session and history.  The session is cut
down to what another drive can notice: the packets each side has ever `said`, any of which may be
heard late, again or never (`fin_acked` says whether a FIN_ACK was, before a FIN); DATA in order; timers that may end it inside any `pump`
(`Expire`).  `RoundBegins`, `RoundSends`, `PumpReturns` and `GiveUp` are the
three loops of handshake, chat and close with their early ends; `LeaveChat` is the comparison
of messages with the initiator's `close`, in one step, since its FIN is on the display
before anything is looked at again.  `Unwind` is `SessionCancelled`, raised by the
channel once it is cancelled.

`MobileApp` adds `running`, `held` (channel, devices and worker are set), the permission
and requests for it, `ui` (the callbacks scheduled on the UI thread, first come first served) and the number of
`workers`.  Its actions are the handlers of app.py: Start, the permission's answer on Android's thread,
the launch (at once or scheduled), Stop, the end of `_run_session` and the teardown.

### FileTransfer

A `FileSender` and a `FileReceiver`.  Below them is a queue of frames per direction,
which is what the other modules show of a stream: in order, each frame once, sooner or later or
never.  The one way in which a stream may change the order (`SubmissionOrder`) takes a `send`
after a NACK while chunks are queued; here everything is queued by one handler, and
each side waits for the other's answer in between.  Either session may leave ESTABLISHED
at any moment; from then on `send_on` raises there, while frames sent before
may still arrive.  There is one action for `start` and one for each frame a
`_handle_frame` acts on, with the raise as the second outcome of each handler that sends.  `sender`,
`receiver`, `expected`, `buffer`, `verified` are the attributes `_state`,
`_expected_sha`, `_buffer`, `_verified`; `data` and `auto_accept` are the arguments.

Abstracted: a chunk is its number in the file, a digest the file it was computed from, an OFFER
is well-formed or `Malformed`, framing is left to `Framing`, and with it a `chunk_size` that the codec cannot frame.

### Framing

A sender of frames whose session comes and goes, the chunks its stream cuts them into, and
the reader's `pump`: it drains what has arrived, feeds it chunk by chunk, and `feed` takes
frame by frame off the buffer or raises.  A byte is named by its frame and its place there, so
bytes put together otherwise than they were sent would show.  Chat and file frames
differ in what a length counts (`MinLength`) and in what makes a body bad; a frame that
does not parse stands for another application's on the same stream.

### QrDecode

Threads that call `decode_frame`, one that configures the registry or resets the
probes, and a platform whose OpenCV comes and goes.  A step ends where a global
can be read or written: the negative probe `_cv2_missing`, `_alt_kind` with its lock, the
selected backend.  `With` and `Without` say, per call of `_require_cv2`, what follows
when it returns the module or `None`.  What an image is good for (read at once, after
preprocessing, by an alternate detector alone, or by nothing) is a property of the image;
the preprocessing itself and the detectors are OpenCV's.

### Slips

Beside some definitions stands a variant with a mistake someone could make there (a
missing reset, a comparison off by one, a branch left out), marked `slip` and used by no
specification.  `PROJECT.json` pairs each with a property that TLC finds violated when
it takes the definition's place: that is the evidence that the property depends on the
code.

## 3. What the runs show

| Run | Specification | Checks | Distinct states |
|---|---|---|---|
| `arq_safety` | `TimedSpec` | eight invariants, `ImplementsStream`, `EventuallySettled` | 17 thousand |
| `arq_recovers` | `FairSpec`, lossy link | `EventuallyDelivered` | 4 thousand |
| `session_safety` | `FairSpec` | four invariants, the life cycle of both peers, `AttemptsEnd` | 143 thousand |
| `session_keepalive` | `TimelySpec` | `NeverGivenUp` | 5 hundred |
| `data_plane` | `FairSpec` | `StreamsIntact`, `SendsArrive` | 213 thousand |
| `optical_link` | `FairSpec` | four invariants, `HiddenOnlyAfterLosses`, `NewestArrives`, `CloseReleases` | 202 thousand |
| `mobile_app` | `FairSpec` | four invariants, `RunEnds` | 1.2 million |
| `file_transfer` | `FairSpec` | four invariants, `ImplementsOutcome`, `TransferDecided` | 4 hundred |
| `codecs` | `MCSpec` | `DecodeComplete`, `FramesWhole` | 5.6 million |
| `arq_overtake` | `Spec` | `SubmissionOrder`, **violated** | |
| `session_reconnect` | `Spec` | `PendingCleared`, **violated** | |
| `qr_stale` | `MCSpec` | `AltDetectorFits`, **violated** | |

### Bounds

* ARQ.  Every instance starts two numbers below the wrap and emits more than that, so
  both sides of the wrap meet in the window, the buffer and the links.  `MaxChunks` is up to
  twice the window, which queues chunks behind a full window, buffers ahead of
  a hole and lets packets of the first window meet the second.  `MaxBurst` 2 lets one
  `send` be split between the window and the queue.  The modulus keeps the code's margin (fewer
  than half the space in play).  `RetxCap` is `MaxRetx + 1`, so a recorded count decides every
  comparison as the real one does; in `arq_recovers` it is below `MaxRetx`, which stands
  for a budget that does not run out.
* Session.  Two frames in flight per direction let the pair FIN_ACK, FIN arrive behind one
  another and cross with the other side's; what finds no room counts as lost, which the link may do
  anyway.  `session_keepalive` keeps the code's order of intervals, `ControlRto <
  HeartbeatInterval < IdleTimeout`; in `session_safety` and `session_reconnect` the first two are equal,
  which only adds ties.  With one retry the limit is reached both before and after the idle
  timeout.  `session_safety` covers one `connect` with everything that can be
  lost or repeated around it; a responder may still be opened again by a repeated SYN.
* Data plane.  One kind of noise at a time, with a send or two from either side, and a setting with
  an opening on each side; two frames in a queue let a SYN and DATA be drained in one cycle and an
  ACK cross a retransmission.  Each session may end once and be opened again.  These numbers are
  the run's (`MCSettings`): `DataPlaneAssumption` has any number of sends, sessions and frames in a queue, and as many
  openings as the one byte of a stream id has room for, 127 on each side.
* Optical link.  Three frames over the Kivy and memory devices and six over those of cv2, with a
  nonce that counts to five, a window of three and an echo of two, or to two and a window of
  one.  Both keep the relations that `OpticalAssumption` states and the code's constants
  satisfy: the window outlasts what the screen may still echo (`2 * echo - 1 <= depth`) and the nonce
  outlasts both (`depth + echo <= nonce_mod`); with six frames nonces come round.  Two
  callers race in `start`.  `recv_frame` and `close` are first called before a second frame is sent, and may
  take effect at any time from then on.
* Mobile application.  One message one way and two the other, so that one side is done
  while the other still has to send; two permission requests open at once.  The number of
  rounds is not bounded, nor is the number of runs after one another.
* File transfer.  Files of 0 to 3 chunks: none, one, and enough that a first, a middle and a last
  one can change places.
* Codecs.  Two threads race for every global, with two calls that reset and one change of
  platform; a third thread would do what the second does.  Frames of every length from 0 to one too many, two of
  them, cut into chunks of 1, 3 and 4 bytes: inside the length, at its end, inside a
  body.  The two parts share a run and no state.  Platforms with both
  alternate detectors are left to `qr_stale`, since what it shows makes a decode
  incomplete there.

Deadlock is not checked: a stream with everything delivered, two sessions
that are CLOSED, a transfer that is decided, a closed channel and a phone out of
permission requests really stop.

### Fairness

* `TimedSpec`: hosts call `on_tick` on every pass of their loop (`Session.pump`) and time
  advances, so while packets are outstanding some timer runs out.  Nothing is assumed of
  the link.
* `FairSpec` of the ARQ: the oldest packet's timer is restarted only by a retransmission, so
  it runs out too; and the link is strongly fair to three kinds of reception, as a link that loses
  every single copy for ever would carry no protocol at all.
* `FairSpec` of the session: the clock advances and both hosts tick.  Frames need never
  arrive.
* `FairSpec` of the data plane: both hosts go on pumping, each drains its queue faster than the
  other's timers fill it, so that a pump ends, and the channel does not disturb every frame
  of either plane for ever.
* `Fairness` of the optical link: every thread goes on, the camera's callback sees the screen
  again and again, and decoding what is on it does not fail for ever.  Nobody has to send, to
  call `recv_frame` or to close.
* `FairSpec` of the application: the UI thread runs what is scheduled, the worker goes on, and
  the caps on rounds end each loop, which is strong fairness of `GiveUp`, as between two
  of its chances a round goes by.  The other peer need do nothing.
* `FairSpec` of the file transfer: both hosts go on pumping, and a stream of an established session
  delivers (`EventuallyDelivered`).  Once a session has ended nothing is promised.
* `TimelySpec` is not fairness but a promise of the hosts and the link: both pump and
  every frame arrives within one unit of time.  `NeverGivenUp` is about that case only.

### Disagreements between the code and what it says

Shown by runs:

* `SubmissionOrder` (`arq.py:296`).  A window that the receiver has narrowed holds back
  chunks in the queue; a NACK then widens `peer_window` and does not flush; the next `send`
  emits its chunk at once, in front of the queued ones, and it is delivered
  first.  Everything else the stream promises holds of the order of emission, which is
  why `ReliableStream` speaks of a log and not of submissions.
* `PendingCleared` (`state_machine.py:60`).  After a second `connect` on the same
  object, `_fin_acked` is still set from the first session.  A FIN that
  arrives in FIN_WAIT closes the session at once and leaves its own FIN armed; the CLOSED
  machine goes on sending it and later surfaces TIMED_OUT.
* `AltDetectorFits` (`decode.py:289`).  `_alt_kind_cached` reads `_alt_kind` once more
  without the lock to return it.  After a reset in between, a thread makes the Aruco detector
  although the kind is "wechat", keeps it, and unpacks its answers wrongly ever after.

Met while modelling, and part of the modules or of no consequence to their properties:

* Retransmissions asked for by NACKs raise `retx_count` past `max_retx` (`arq.py:136`); only
  `on_tick` enforces the limit.  `max_control_retries + 1` control packets are repeated
  before a session is aborted (`state_machine.py:138`).
* The loopback channel's `reorder` never swaps two frames: a held frame goes out before the
  next one (`loopback.py:202`).
* A `recv_frame(None)` that already waits is not woken by `close` (`loopback.py:222`,
  `optical/channel.py`), though the base class has it return then.
* After a frame that raises, a reassembler keeps it at its head and nothing ever comes out
  again (`codec.py:164`); `FramesWhole` says that nothing wrong comes out either.
* A failed import of cv2 that is under way during a reset marks cv2 as missing after
  it (`decode.py:194`); `DecodeComplete` therefore speaks of resets with no decode under way.
* The window of recent frames "can never drop a real frame", says `optical/channel.py:440-443`.  The nonce
  comes round, so after as many losses in a row as that takes a frame that was never received is
  dropped as a repetition; `HiddenOnlyAfterLosses` states this as the only exception.
* `_decode_variants` may raise `cv2.error`, which gives up the whole decode and not one variant.
* An unknown packet type under a valid CRC raises `ValueError`, not `PacketError`, from `unpack`.
* An initiator may report PASS while its last message never reached the responder, which
  is why `PassIsShared` is about the responder; and `closed` is also set when a timer, not an agreement, ended the
  session.
* A frame stored by `submit_frame` while `close` runs stays in the closed camera.
* A second permission that is granted after the first session has ended starts another
  session; `OneDrive` says only that there are never two at once.

## 4. What is proved

`SerialArithProofs` proves what the ARQ uses of the arithmetic, for every even modulus:
positions of a stream that are less than half the space apart are ordered and
subtracted by `seq_lt` and `seq_diff` as their positions are.

`ArqEndpointProofs` proves, for all windows, budgets, numbers of chunks and moduli
that satisfy `SeqModAssumption` and `ArqAssumption`, and for a link that loses, repeats, delays
and reorders at will:

* `InvariantHolds`: `Spec => []IInv`;
* from it `DeliveryInOrder`, `AckedWasDelivered`, `WindowStaysOpen`, `QueueIsDriven`,
  `HolesAreReported`, `FlowControl`, `TypesHold`, `NothingLostBeforeTheLink`, one for each
  invariant of `arq_safety`;
* `Refinement`: `Spec => ImplementsStream`.

The one assumption that is not a check of the constructor is that a stream has fewer
chunks than half the space less the receive window: the code's comparisons are right only then.

The argument.  The invariants named after the code speak of sequence numbers, which
are not unique over time, so none is inductive.  `IInv` translates each variable
into positions of the log `emitted`: the sender's window is the positions `acked` to the
end, the receiver's base is the position `Len(delivered)`, the reorder buffer and each DATA
packet hold the chunk of some position, and each ACK or NACK ever sent names a
position the receiver had reached by then.  Since positions stay within half the space, the
lemmas on serial numbers turn every comparison of the code into one of positions.  The delicate
step is an old ACK: that it names a position no greater than `Len(delivered)` is what
keeps it from covering anything the receiver has not got.  That the window never closes
follows since a buffered chunk lies strictly inside the window, so one slot is always free.

The proof that a step preserves `IInv` has one lemma per action, each with one step
per part of the invariant.

`FileTransferProofs` proves, for files of any number of chunks and sessions that end
whenever they like, each invariant of `file_transfer` (`TypesHold`, `FlushOnClose`, `NothingMissing`,
`NothingIgnored`) and `Refinement`: `Spec => ImplementsOutcome`.  The assumptions are only
that a malformed OFFER and a missing body are told from files.  None of the invariants is inductive,
since none says which frame can be in flight when.  `IInv` adds that: a transfer is always in one of
twelve phases, each a pair of states with what is in flight in both directions; while
chunks flow, it is the rest of the file from where the receiver's buffer ends.  The frame that
arrives tells the phase, and each handler leads from that phase to another.

`MobileAppProofs` proves each invariant of `mobile_app` for any number of messages of
either peer and any number of permission requests: `TypesHold`, `OneDriveAtATime`,
`RefusalExplained`, `PassSpeaksForBoth`.  The assumptions are that there are two peers, and that
messages and requests are counted by natural numbers.  `OneDrive` is inductive beside
the types, once counting the callbacks scheduled is reduced to what `Append` and `Tail` do
to a set of places.  The two properties of verdicts are not, as they speak of the
end of a run.  What links the ends is the initiator's FIN: `DriveInv` says that an
established session left ESTABLISHED by a timer or after that FIN was sent
(`Course`), that the responder's FIN comes after it, and that whoever sent it left the chat
early or with everything (`Left`).  Each step of a drive is shown to be a `Move`, a change of one
drive's record that keeps these facts; that any `Move` keeps the invariant is shown once.

`SessionProofs` proves about every choice of intervals, retry limits, copies and bounds:

* `TypesHold` and `SessionIdIsAgreed`, however often `connect` is called: only the id the initiator
  proposed ever travels, so whoever came up, or answered, has it (`BaseInv`);
* `NobodyWaitsUntimed` and `OnlyAFinIsLeftOver`, also however often `connect` is called: a peer that is not
  closed has a packet it repeats or an idle timer that runs, and what a session may find armed from the one
  before is a FIN (`Timed`), which `session_reconnect` shows does happen;
* `PendingIsTheOneAwaited`, `NobodyUpAlone`, `ClosesTogether`, and `LifecycleRefinement` at both peers,
  of the first session;
* `HeartbeatsKeepItUp`: of the first session, `NeverGivenUp` under `TimelySpec`.

The restriction to `connects <= 1` is the code's: `session_reconnect` shows what a second `connect`
on the same object spoils.  `session_safety` and `session_keepalive` have the same bound.  The
argument for the first session lies in the order of frames: no SYN comes after a
frame of another type (`SynsFirst`), so a responder that came up, or took part in a close, meets no SYN
that could open it again; a FIN_ACK, on the link or recorded, comes from a peer that recorded the FIN.

`HeartbeatsKeepItUp` assumes what the name of the specification promises (`Timely`): heartbeats more
often than the idle timeout, which states.py demands, and a link that loses and repeats nothing, with
room for three frames, as a heartbeat, a FIN and a FIN_ACK may be under way together.
`NeverGivenUp` is far from inductive.  `Course` lists where a session in time can be, thirteen
places, each with what both peers know of the close, the packet that is armed and the frames under
way, before which a heartbeat may come.  `InTime` ties the ages together: what is under way was sent in this
unit of time, what is armed is answered within it, and with nothing under way a peer has heard no longer
ago than the other has sent.  So no age ever reaches the limit that would end the session.

`DataPlaneProofs` proves `StreamsStayIntact`: `Spec => []StreamsIntact`, for any bounds, any noise
of the channels, any number of sends and of ends of sessions, every opening that a stream id has room for,
and independently of the handshake.  `StreamsInv`
says that a DATA packet on a link carries what its sender queued on that stream under that number,
that an endpoint has received what the peer queued first, as much as its buffer holds, that an
acknowledgement on a link names what its sender has got, so that no endpoint takes more for
acknowledged than the other holds, across reopenings too, and that ids opened
by the two sides differ in parity, so that neither takes a stream of its own for one
of the peer's.  `Outcomes`, what a send over noisy channels may leave, is a recursive function; that
each of its outcomes adds copies of the packet and of nothing else is shown by taking a
least number of packets for which it fails.

`OpticalLinkProofs` proves, for any number of callers, frames and packets and any setting that
satisfies `OpticalAssumption`:

* `TypesHold`, `SlotsAgree` and `OneReaderOnly`.  `SlotInv` adds which of the two, the thread that stored
  an image or the callback it scheduled, a flag that is up stands for.  `ThreadInv` adds that the start
  lock belongs to a caller about to make the first thread, and what `close` learnt when it looked:
  that the thread is gone, or that there is none yet, and one that comes later finds the flag set before it
  reads.
* `NoFrameTwice`, the invariant `DeliveredOnce`.  `EchoInv` follows an image on its way: images are shown
  and read in the order they were sent but for the echo, the window of recent frames holds the
  last ones accepted, and two images that can be confused are further apart than both.
* `HiddenMeansLosses`, the action property `HiddenOnlyAfterLosses`: a frame is taken for a repetition
  only after so many losses in a row that its nonce came round.

`CodecProofs` proves `DecodesWhatItCan` (`DecodeComplete`) and `FramesComeOutWhole` (`FramesWhole`).
The former holds of every platform without both alternate detectors (`OneAlternate`), and fails with
both, as `qr_stale` shows; its invariant says, thread by thread, which attempts a decode still has
before it and what the globals it has read allow.  The latter holds of frames of any length
cut into chunks in any way.  Its invariant `FrInv` sees the bytes on their way as a chain: each is followed by the
next byte of its frame or by the first of the next, from the reader's buffer through
the link to what the sender has still to send; a buffer that raised keeps its head for ever, and between two
feeds no whole frame is left in it.

Only model-checked: liveness (`EventuallySettled`, `EventuallyDelivered`, `AttemptsEnd`, `SendsArrive`,
`NewestArrives`, `CloseReleases`, `RunEnds`, `TransferDecided`), which is out of reach of the prover.
What the three violated properties say is refuted, not proved.

## 5. Not modelled, and the plan

* `RtoEstimator`: smoothing of real-valued samples.  Which timers run out is arbitrary
  in `ArqEndpoint`, so no property depends on it; the arithmetic itself is better tested.
* `close` of the loopback and image channels and their locks; pacing by `hold`; the QR
  encoder; layout and checksum of packets; progress reports, settings and status lines.
* Left out for good: pixels, OpenCV, Kivy and JSON (libraries or formats whose
  failures are lost or unusable frames here), the build and the example scripts.

Every safety property of a passing run is a theorem.  Next are proofs, in this order:

1. `SessionStateMachine`: what a second session on the same objects still keeps of the order of
   the handshake and of the close; it needs an invariant that tells the frames of the sessions apart.
2. `PeerDrive`: what the verdicts other than PASS say of the messages the other side received.
