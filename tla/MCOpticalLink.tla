--------------------------- MODULE MCOpticalLink ---------------------------
(* A lens with an echo, and a nonce so short that it comes round.          *)
EXTENDS OpticalLink

MCSettings ==
  {[device |-> "kivy", nonce_mod |-> 5, depth |-> 3, echo |-> 2, sends |-> 3],
   [device |-> "kivy", nonce_mod |-> 2, depth |-> 1, echo |-> 1, sends |-> 3],
   [device |-> "cv2", nonce_mod |-> 5, depth |-> 3, echo |-> 2, sends |-> 6],
   [device |-> "memory", nonce_mod |-> 2, depth |-> 1, echo |-> 1, sends |-> 3]}
=============================================================================
