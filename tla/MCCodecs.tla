------------------------------ MODULE MCCodecs ------------------------------
(* What images and what byte streams are decoded to: one or the other in each behaviour. *)
EXTENDS QrDecode, Framing, TLC

VARIABLE part

\* Without OpenCV, with its core, and with one alternate detector or both.
MCCorePlatforms == {{}, {"cv2"}, {"cv2", "aruco"}}
MCContribPlatforms == {{"cv2", "wechat", "aruco"}}
MCSymmetry == Permutations(Threads)

MCInit ==
  /\ part \in {"images", "frames"}
  /\ Init /\ FramingInit
  /\ part = "images" => max_payload = LengthSize + MaxLength
  /\ part = "frames" => "aruco" \in platform

MCNext ==
  \/ part = "images" /\ Next /\ UNCHANGED <<part, framingVars>>
  \/ part = "frames" /\ FramingNext /\ UNCHANGED <<part, vars>>

MCSpec == MCInit /\ [][MCNext]_<<part, vars, framingVars>>
=============================================================================
