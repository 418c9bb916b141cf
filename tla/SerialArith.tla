----------------------------- MODULE SerialArith -----------------------------
(***************************************************************************)
(* Serial-number arithmetic of src/photontcp/reliability/serial.py: a      *)
(* sequence number is an element of 0 .. SeqMod-1, addition wraps, and     *)
(* two numbers are compared by their circular distance, forward when it    *)
(* is below half of the space.                                             *)
(*                                                                         *)
(* The program fixes SeqMod = 2^32 (SEQ_MOD, serial.py:34).  The modulus   *)
(* is a constant here so that TLC can walk across the wrap in a space of a *)
(* few numbers and the proofs can speak about every modulus, 2^32 included.*)
(***************************************************************************)
EXTENDS Integers

CONSTANT SeqMod     \* SEQ_MOD

(* Half of the space is the threshold of every comparison, so the modulus  *)
(* has one; both 2 ^ 32 and TLC's small moduli satisfy this.               *)
ASSUME SeqModAssumption ==
    /\ SeqMod \in Nat
    /\ SeqMod >= 2
    /\ SeqMod % 2 = 0

Seqs == 0 .. SeqMod - 1

SeqHalf == SeqMod \div 2

seq_add_unbounded(a, n) == a + n    \* slip: no wrap

seq_add(a, n) == (a + n) % SeqMod

seq_lt_plain(a, b) == a < b    \* slip: compared as integers

seq_lt(a, b) == LET d == (b - a) % SeqMod IN 0 < d /\ d < SeqHalf

seq_gt(a, b) == seq_lt(b, a)

seq_leq(a, b) == a = b \/ seq_lt(a, b)

seq_geq(a, b) == a = b \/ seq_gt(a, b)

seq_diff(a, b) ==
    LET d == (a - b) % SeqMod IN IF d >= SeqHalf THEN d - SeqMod ELSE d

(***************************************************************************)
(* Sequence number of the i-th packet of a stream that starts at isn.      *)
(***************************************************************************)
SeqOf(isn, i) == seq_add(isn, i)
=============================================================================
