------------------------------ MODULE QrDecode ------------------------------
(***************************************************************************)
(* The decoder of QR frames (src/photontcp/qr/decode.py): threads that     *)
(* call decode_frame, one call at a time each, while the application       *)
(* configures the registry and resets the probes, and the platform changes *)
(* what it offers.  A step ends where another thread can see or change a   *)
(* global of the module: _cv2_missing, _alt_kind, _SELECTED_BACKEND.       *)
(***************************************************************************)
EXTENDS Naturals, Sequences

CONSTANTS
  Threads,
  Platforms,   \* what a platform offers: subsets of {"cv2", "wechat", "aruco"}
  MaxChanges,  \* bound: changes of the platform
  MaxConfigs   \* bound: calls of the functions that reset the probes

ASSUME QrDecodeAssumption ==
  /\ Platforms \subseteq SUBSET {"cv2", "wechat", "aruco"}
  /\ MaxChanges \in Nat /\ MaxConfigs \in Nat

\* Read as it is, or only once it is preprocessed, or only by an alternate detector, or
\* by none, because preprocessing it raises cv2.error.
Images == {"plain", "hard", "blind", "odd"}
NoKind == "none"
Unresolved == "unresolved"
Automatic == "automatic"

VARIABLES
  platform,
  probes,    \* _cv2_missing, _alt_kind, and whether _alt_kind_lock is held
  registry,  \* the names in _BACKEND_FACTORIES, in order, and _SELECTED_BACKEND
  config,    \* what the configuring thread does next, and the calls it made
  decoder,   \* of each thread: its decode_frame, and its thread-local detectors
  settled,   \* "yes": a reset went by with no decode under way, and nothing changed since;
             \* "resetting": it goes by
  changes

vars == <<platform, probes, registry, config, decoder, settled, changes>>

Init ==
  /\ platform \in Platforms
  /\ probes = [cv2_missing |-> FALSE, alt_kind |-> Unresolved, locked |-> FALSE]
  /\ registry = [names |-> <<"cv2">>, selected |-> Automatic]
  /\ config = [pc |-> "idle", calls |-> 0]
  /\ decoder = [t \in Threads |->
       [pc |-> "idle", failed_import |-> FALSE, image |-> "plain", left |-> <<>>, kind |-> NoKind,
        detector |-> FALSE, alt_detector |-> NoKind, result |-> "none", calm |-> FALSE]]
  /\ settled = "yes"
  /\ changes = 0

----------------------------------------------------------------------------
(* decode_frame.  d is a decoder; these are what it becomes.               *)

Returns(d, result) == [d EXCEPT !.pc = "idle", !.left = <<>>, !.kind = NoKind, !.result = result]
Goes(d, pc) == [d EXCEPT !.pc = pc]

\* The backends left to probe.  One that is not cv2 is always there, and reads plain images.
Resolve(d, left) ==
  CASE left = <<>> -> Returns(d, "none")
    [] left # <<>> /\ left[1] = "cv2" -> Goes([d EXCEPT !.left = left], "factory")
    [] OTHER -> Returns(d, IF d.image = "plain" THEN "payload" ELSE "none")

\* The primary detector on the image as it is.
ReadFirst(d) == IF d.image = "plain" THEN Returns(d, "payload") ELSE Goes(d, "variants")

\* This thread's detectors are made when it first needs them.
NewDetector(d) == ReadFirst([d EXCEPT !.detector = TRUE])

ClassOf(kind) == IF kind = "wechat" THEN "wechat" ELSE "aruco"

NewAltDetector(d) ==
  IF ClassOf(d.kind) \in platform
  THEN Goes([d EXCEPT !.alt_detector = ClassOf(d.kind)], "alt_decode")
  ELSE Returns(d, "none")

\* The alternate detector on the image as it is: an answer of the other class's shape raises.
AltReadFirst(d) ==
  CASE ClassOf(d.kind) # d.alt_detector -> Returns(d, "none")
    [] ClassOf(d.kind) = d.alt_detector /\ d.image = "blind" -> Returns(d, "payload")
    [] OTHER -> Goes(d, "alt_variants")

ReadVariants(d) == Returns(d, IF d.image = "hard" THEN "payload" ELSE "none")

\* The call sites of _require_cv2, and what follows where it returns the module...
With(d) ==
  CASE d.pc = "factory" -> Goes(d, "decode")
    [] d.pc = "decode" -> IF d.detector THEN ReadFirst(d) ELSE Goes(d, "detector")
    [] d.pc = "detector" -> NewDetector(d)
    [] d.pc = "variants" /\ d.image # "blind" -> ReadVariants(d)
    [] d.pc = "variants" /\ d.image = "blind" -> Goes(d, "kind")
    [] d.pc = "probe" -> Goes(d, "kind_known")
    [] d.pc = "alt_detector" -> NewAltDetector(d)
    [] d.pc = "alt_decode" -> AltReadFirst(d)
    [] d.pc = "alt_variants" -> ReadVariants(d)

\* ... and where it returns None.
Without(d) ==
  CASE d.pc = "factory" -> Resolve(d, Tail(d.left))
    [] d.pc = "variants" -> Goes(d, "kind")
    [] d.pc = "probe" -> Goes(d, "kind_known")
    [] OTHER -> Returns(d, "none")

Sites == {"factory", "decode", "detector", "variants", "probe", "alt_detector", "alt_decode", "alt_variants"}

\* _resolve_alt_kind, where cv2 is there.
AltKind == CASE "wechat" \in platform -> "wechat"
             [] "wechat" \notin platform /\ "aruco" \in platform -> "aruco"
             [] OTHER -> NoKind

----------------------------------------------------------------------------

Sets(t, d) == decoder' = [decoder EXCEPT ![t] = d] /\ UNCHANGED <<platform, registry, config, changes>>
Becomes(t, d) == Sets(t, d) /\ UNCHANGED settled

DecodeFrame(t, image) ==
  /\ decoder[t].pc = "idle"
  /\ Sets(t, Resolve([decoder[t] EXCEPT !.image = image, !.calm = settled = "yes"],
                     IF registry.selected = Automatic THEN registry.names ELSE <<registry.selected>>))
  /\ settled' = IF settled = "yes" THEN "yes" ELSE "no"
  /\ UNCHANGED probes

\* At a site: the import succeeds, or has failed before, or fails.
RequireCv2(t) ==
  LET d == decoder[t]  site == d.pc \in Sites /\ ~d.failed_import
  IN  \/ /\ site /\ ~probes.cv2_missing /\ "cv2" \in platform
         /\ Becomes(t, With(d))
         /\ probes' = IF d.pc = "probe" THEN [probes EXCEPT !.alt_kind = AltKind, !.locked = FALSE] ELSE probes
      \/ /\ site /\ probes.cv2_missing
         /\ Becomes(t, Without(d))
         /\ probes' = IF d.pc = "probe" THEN [probes EXCEPT !.alt_kind = NoKind, !.locked = FALSE] ELSE probes
      \/ /\ site /\ ~probes.cv2_missing /\ "cv2" \notin platform
         /\ Becomes(t, [d EXCEPT !.failed_import = TRUE])
         /\ UNCHANGED probes

\* The import failed; that is remembered.
MarkMissing(t) ==
  LET d == [decoder[t] EXCEPT !.failed_import = FALSE]
  IN  /\ decoder[t].failed_import
      /\ Becomes(t, Without(d))
      /\ probes' = IF d.pc = "probe" THEN [cv2_missing |-> TRUE, alt_kind |-> NoKind, locked |-> FALSE]
                   ELSE [probes EXCEPT !.cv2_missing = TRUE]

\* _alt_kind_cached: looked at, looked at again under the lock, and read to return it.
LookAtKind(t) ==
  /\ decoder[t].pc = "kind"
  /\ Becomes(t, Goes(decoder[t], IF probes.alt_kind = Unresolved THEN "kind_lock" ELSE "kind_known"))
  /\ UNCHANGED probes

LockKind(t) ==
  /\ decoder[t].pc = "kind_lock" /\ ~probes.locked
  /\ Becomes(t, Goes(decoder[t], IF probes.alt_kind = Unresolved THEN "probe" ELSE "kind_known"))
  /\ probes' = [probes EXCEPT !.locked = probes.alt_kind = Unresolved]

ReturnKind(t) ==
  /\ decoder[t].pc = "kind_known"
  /\ Becomes(t, LET d == [decoder[t] EXCEPT !.kind = probes.alt_kind]
                IN  CASE d.kind = NoKind -> Returns(d, "none")
                      [] d.kind # NoKind /\ d.alt_detector = NoKind -> Goes(d, "alt_detector")
                      [] OTHER -> Goes(d, "alt_decode"))
  /\ UNCHANGED probes

----------------------------------------------------------------------------
(* The application and the platform.                                       *)

\* What decodes find is no longer sure.
Disturb == settled' = "no" /\ decoder' = [t \in Threads |-> [decoder[t] EXCEPT !.calm = FALSE]]

Configure(new) ==
  /\ config.pc = "idle" /\ config.calls < MaxConfigs
  /\ registry' = new
  /\ config' = [pc |-> "cv2_missing", calls |-> config.calls + 1]
  /\ Disturb
  /\ UNCHANGED <<platform, probes, changes>>

RegisterBackend(name) ==
  Configure([registry EXCEPT !.names = IF \E i \in DOMAIN @ : @[i] = name THEN @ ELSE Append(@, name)])

SetBackend(name) ==
  /\ name = Automatic \/ \E i \in DOMAIN registry.names : registry.names[i] = name
  /\ Configure([registry EXCEPT !.selected = name])

ResetMissing ==
  /\ config.pc = "cv2_missing"
  /\ probes' = [probes EXCEPT !.cv2_missing = FALSE]
  /\ config' = [config EXCEPT !.pc = "alt_kind"]
  /\ settled' = IF \A t \in Threads : decoder[t].pc = "idle" THEN "resetting" ELSE "no"
  /\ UNCHANGED <<platform, registry, decoder, changes>>

\* slip: the kind is a property of the build, and kept
ResetKindKept ==
  /\ config.pc = "alt_kind" /\ ~probes.locked
  /\ config' = [config EXCEPT !.pc = "idle"]
  /\ settled' = IF settled = "resetting" THEN "yes" ELSE "no"
  /\ UNCHANGED <<platform, probes, registry, decoder, changes>>

ResetKind ==
  /\ config.pc = "alt_kind" /\ ~probes.locked
  /\ probes' = [probes EXCEPT !.alt_kind = Unresolved]
  /\ config' = [config EXCEPT !.pc = "idle"]
  /\ settled' = IF settled = "resetting" THEN "yes" ELSE "no"
  /\ UNCHANGED <<platform, registry, decoder, changes>>

PlatformChanges(new) ==
  /\ new # platform /\ changes < MaxChanges
  /\ platform' = new /\ changes' = changes + 1
  /\ Disturb
  /\ UNCHANGED <<probes, registry, config>>

Next ==
  \/ \E t \in Threads :
       \/ \E image \in Images : DecodeFrame(t, image)
       \/ RequireCv2(t) \/ MarkMissing(t)
       \/ LookAtKind(t) \/ LockKind(t) \/ ReturnKind(t)
  \/ \E name \in {"cv2", "other"} : RegisterBackend(name)
  \/ \E name \in {Automatic, "cv2", "other"} : SetBackend(name)
  \/ Configure(registry)
  \/ ResetMissing \/ ResetKind
  \/ \E new \in Platforms : PlatformChanges(new)

Spec == Init /\ [][Next]_vars

----------------------------------------------------------------------------

\* What decode_frame makes of an image, by its documentation.
Decodable(image) ==
  LET cv2 == registry.selected # "other" /\ "cv2" \in platform
      other == registry.selected # "cv2" /\ \E i \in DOMAIN registry.names : registry.names[i] = "other"
  IN  CASE cv2 -> image \in {"plain", "hard"} \/ (image = "blind" /\ platform \cap {"wechat", "aruco"} # {})
        [] OTHER -> other /\ image = "plain"

\* Once the probes have been reset with no decode under way, a decode returns the payload
\* exactly when the backend chosen by the selection rule can read the image: no probe of
\* an earlier platform, no import that failed meanwhile, no other thread's probe gets in
\* the way (decode.py:34-42, 177-187, 199-221, 278-285, 578-591).
DecodeComplete ==
  \A t \in Threads :
    (decoder[t].pc = "idle" /\ decoder[t].calm) => (decoder[t].result = "payload" <=> Decodable(decoder[t].image))

\* "Return (kind, detector) for this thread's alternate detector" (decode.py:289): the kind
\* tells the shape of the detector's answers, once resets are past.
AltDetectorFits ==
  \A t \in Threads :
    (decoder[t].pc = "alt_decode" /\ decoder[t].calm) => decoder[t].alt_detector = ClassOf(decoder[t].kind)
=============================================================================
