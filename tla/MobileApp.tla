----------------------------- MODULE MobileApp -----------------------------
(***************************************************************************)
(* The phone application (src/photontcp/mobile/app.py) around one of the   *)
(* two drives of PeerDrive: the UI thread, which runs presses of buttons   *)
(* and the callbacks scheduled for it, the worker thread that drives the   *)
(* peer, and Android's answer to a permission request, on a thread of its  *)
(* own.  Another press of Start finds a peer that starts anew.  What the   *)
(* status line says is left out.                                           *)
(***************************************************************************)
EXTENDS PeerDrive, Sequences, FiniteSets

CONSTANT MaxRequests  \* bound: permission requests open or granted and not yet run

ASSUME RequestAssumption == MaxRequests \in Nat

VARIABLES
  phone,    \* the role the worker drives
  running,  \* _running
  held,     \* _channel, _preview, _display, _camera and _worker are set
  granted,  \* _permission_granted
  requests, \* permission requests Android has not answered
  ui,       \* the callbacks scheduled, first come first served
  workers   \* threads in _run_session

appVars == <<phone, running, held, granted, requests, ui, workers>>
vars == <<drive, appVars>>

Callbacks == {"launch", "teardown"}
Queued(c) == Cardinality({i \in DOMAIN ui : ui[i] = c})

AppInit ==
  /\ Init
  /\ phone \in Peers
  /\ running = FALSE /\ held = FALSE
  /\ granted \in BOOLEAN  \* not is_android()
  /\ requests = 0 /\ ui = <<>> /\ workers = 0

----------------------------------------------------------------------------

\* Devices, channel and worker are made, or there is no camera and no session.
Assemble(role) ==
  /\ phone' = role /\ running' = TRUE /\ held' = TRUE /\ workers' = workers + 1
  /\ drive' = [p \in Peers |-> NewDrive]

NoCamera == UNCHANGED <<phone, running, held, workers, drive>>

\* slip: launches again although a session runs
LaunchSessionAgain == (\E role \in Peers : Assemble(role)) \/ NoCamera

LaunchSession ==
  \/ ~running /\ \E role \in Peers : Assemble(role)
  \/ NoCamera

\* With the permission the session is launched at once; without it, Android is
\* asked, unless its answer is known or the interface is missing.
EnsurePermission ==
  \/ /\ granted
     /\ LaunchSession
     /\ UNCHANGED <<granted, requests>>
  \/ /\ ~granted /\ granted' = TRUE
     /\ LaunchSession
     /\ UNCHANGED requests
  \/ /\ ~granted /\ requests + Queued("launch") < MaxRequests
     /\ requests' = requests + 1
     /\ UNCHANGED <<granted, phone, running, held, workers, drive>>

OnStartPressed == ~running /\ EnsurePermission /\ UNCHANGED ui

PermissionAnswered ==
  /\ requests > 0 /\ requests' = requests - 1
  /\ \/ granted' = TRUE /\ ui' = Append(ui, "launch")
     \/ UNCHANGED <<granted, ui>>
  /\ UNCHANGED <<drive, phone, running, held, workers>>

OnStop ==
  /\ held
  /\ Become(phone, [drive[phone] EXCEPT !.cancelled = TRUE])
  /\ UNCHANGED appVars

UiLaunches ==
  /\ ui # <<>> /\ Head(ui) = "launch" /\ ui' = Tail(ui)
  /\ LaunchSession
  /\ UNCHANGED <<granted, requests>>

Teardown ==
  /\ ui # <<>> /\ Head(ui) = "teardown" /\ ui' = Tail(ui)
  /\ held' = FALSE /\ running' = FALSE
  /\ UNCHANGED <<drive, phone, granted, requests, workers>>

\* The drive of the phone runs on the worker; the other peer runs wherever it is,
\* from the time the phone first launches.
Drives(p) == (p = phone => workers > 0) /\ Step(p) /\ UNCHANGED appVars

WorkerEnds == workers > 0 /\ drive[phone].stage = "over" /\ workers' = workers - 1

\* slip: the teardown is scheduled by a drive that returns, not by one that raises
RunSessionEndsReturned ==
  /\ WorkerEnds
  /\ ui' = IF drive[phone].outcome = "returned" THEN Append(ui, "teardown") ELSE ui
  /\ UNCHANGED <<drive, phone, running, held, granted, requests>>

RunSessionEnds ==
  /\ WorkerEnds
  /\ ui' = Append(ui, "teardown")
  /\ UNCHANGED <<drive, phone, running, held, granted, requests>>

Next ==
  \/ OnStartPressed \/ PermissionAnswered \/ OnStop \/ UiLaunches \/ Teardown \/ RunSessionEnds
  \/ \E p \in Peers : Drives(p)

Spec == AppInit /\ [][Next]_vars

\* The threads of the application go on; its caps end the loops of the drive.
DriveGoesOn == \E p \in Peers : p = phone /\ workers > 0 /\ (ConnectAndWait(p) \/ PumpReturns(p)) /\ UNCHANGED appVars
DriveGivesUp == \E p \in Peers : p = phone /\ workers > 0 /\ GiveUp(p) /\ UNCHANGED appVars
FairSpec ==
  /\ Spec
  /\ WF_vars(UiLaunches \/ Teardown) /\ WF_vars(RunSessionEnds)
  /\ WF_vars(DriveGoesOn) /\ SF_vars(DriveGivesUp)

----------------------------------------------------------------------------

\* Types, and those of the drives.
TypeOK ==
  /\ DrivesTyped
  /\ phone \in Peers /\ running \in BOOLEAN /\ held \in BOOLEAN /\ granted \in BOOLEAN
  /\ requests \in 0..MaxRequests /\ ui \in Seq(Callbacks) /\ workers \in Nat

\* One session at a time, and devices only for it: while the controls are locked there
\* is one worker or its teardown is still to run, and when they are not there is neither,
\* however often Start was pressed before the permission came (app.py:455, 483, 565, 640-658).
OneDrive ==
  /\ workers + Queued("teardown") = IF running THEN 1 ELSE 0
  /\ held = running

\* However a drive ends, by the caps, by Stop or by a refused message, the controls are
\* unlocked again (_run_session: "a failed run never leaves the app stuck in running").
RunEnds == running ~> ~running
=============================================================================
