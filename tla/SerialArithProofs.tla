-------------------------- MODULE SerialArithProofs --------------------------
(***************************************************************************)
(* For every modulus: within less than half of the space, serial-number    *)
(* arithmetic agrees with ordinary arithmetic on positions.  These are the *)
(* facts the proofs about ArqEndpoint rest on.                             *)
(***************************************************************************)
EXTENDS SerialArith, TLAPS

(* Euclidean division by a positive modulus, as facts SMT can use.         *)
LEMMA DivisionFacts ==
    ASSUME NEW x \in Int, NEW m \in Nat, m > 0
    PROVE  /\ x % m \in 0 .. m - 1
           /\ x \div m \in Int
           /\ x = (m * (x \div m)) + (x % m)
  BY SMT

(* A multiple of m strictly between -m and m is zero.                      *)
LEMMA SmallMultiple ==
    ASSUME NEW k \in Int, NEW m \in Nat, m > 0, -m < m * k, m * k < m
    PROVE  k = 0
<1>1. CASE k >= 1
  <2>1. m * k >= m  BY <1>1, SMT
  <2> QED  BY <2>1, SMT
<1>2. CASE k <= -1
  <2>1. m * k <= -m  BY <1>2, SMT
  <2> QED  BY <2>1, SMT
<1> QED  BY <1>1, <1>2, SMT

(* Numbers that differ by a multiple of m have the same residue.           *)
LEMMA SameResidue ==
    ASSUME NEW x \in Int, NEW y \in Int, NEW k \in Int,
           NEW m \in Nat, m > 0, x - y = m * k
    PROVE  x % m = y % m
<1> DEFINE a == x % m
           b == y % m
           q == k - (x \div m) + (y \div m)
<1>1. a \in 0 .. m - 1 /\ x \div m \in Int /\ x = (m * (x \div m)) + a
  BY DivisionFacts
<1>2. b \in 0 .. m - 1 /\ y \div m \in Int /\ y = (m * (y \div m)) + b
  BY DivisionFacts
<1>3. q \in Int /\ m * q = a - b
  BY <1>1, <1>2, SMT
<1>4. -m < m * q /\ m * q < m
  BY <1>1, <1>2, <1>3, SMT
<1>5. q = 0
  BY <1>3, <1>4, SmallMultiple
<1>6. a = b
  BY <1>1, <1>2, <1>3, <1>5, SMT
<1> QED  BY <1>6

(* Reducing both operands of a difference does not change its residue.     *)
LEMMA ModDifference ==
    ASSUME NEW x \in Int, NEW y \in Int, NEW m \in Nat, m > 0
    PROVE  ((x % m) - (y % m)) % m = (x - y) % m
<1> DEFINE k == (y \div m) - (x \div m)
<1>1. x % m \in Int /\ x \div m \in Int /\ x = (m * (x \div m)) + (x % m)
  BY DivisionFacts
<1>2. y % m \in Int /\ y \div m \in Int /\ y = (m * (y \div m)) + (y % m)
  BY DivisionFacts
<1>3. /\ k \in Int
      /\ (x % m) - (y % m) \in Int
      /\ x - y \in Int
      /\ ((x % m) - (y % m)) - (x - y) = m * k
  BY <1>1, <1>2, SMT
<1> DEFINE d == (x % m) - (y % m)
           e == x - y
<1>4. k \in Int /\ d \in Int /\ e \in Int /\ d - e = m * k
  BY <1>3
<1> HIDE DEF k, d, e
<1>5. d % m = e % m
  BY <1>4, SameResidue
<1> QED  BY <1>5 DEF d, e

(* Reducing an operand of a sum does not change its residue.               *)
LEMMA ModSum ==
    ASSUME NEW x \in Int, NEW n \in Int, NEW m \in Nat, m > 0
    PROVE  ((x % m) + n) % m = (x + n) % m
<1> DEFINE k == -(x \div m)
<1>1. x % m \in Int /\ x \div m \in Int /\ x = (m * (x \div m)) + (x % m)
  BY DivisionFacts
<1>2. /\ k \in Int
      /\ (x % m) + n \in Int
      /\ x + n \in Int
      /\ ((x % m) + n) - (x + n) = m * k
  BY <1>1, SMT
<1> QED  BY <1>2, SameResidue

LEMMA HalfFacts ==
    /\ SeqMod \in Nat /\ SeqMod > 0
    /\ SeqHalf \in Nat
    /\ SeqHalf >= 1
    /\ SeqMod = 2 * SeqHalf
  BY SeqModAssumption, SMT DEF SeqHalf

-----------------------------------------------------------------------------

LEMMA SeqOfType ==
    ASSUME NEW isn \in Seqs, NEW i \in Int
    PROVE  SeqOf(isn, i) \in Seqs
  BY SeqModAssumption, DivisionFacts DEF SeqOf, seq_add, Seqs

(* Position 0 carries the initial sequence number itself.                  *)
LEMMA SeqOfZero ==
    ASSUME NEW isn \in Seqs
    PROVE  SeqOf(isn, 0) = isn
  BY HalfFacts, SMT DEF SeqOf, seq_add, Seqs

(* The distance of two sequence numbers is the residue of the distance of  *)
(* their positions.                                                        *)
LEMMA SeqDistance ==
    ASSUME NEW isn \in Seqs, NEW i \in Int, NEW j \in Int
    PROVE  (SeqOf(isn, j) - SeqOf(isn, i)) % SeqMod = (j - i) % SeqMod
<1>1. isn + i \in Int /\ isn + j \in Int /\ (isn + j) - (isn + i) = j - i
  BY DEF Seqs
<1> QED  BY <1>1, ModDifference, HalfFacts DEF SeqOf, seq_add

(* Adding to a sequence number moves the position (serial.py:41).          *)
LEMMA SeqOfAdd ==
    ASSUME NEW isn \in Seqs, NEW i \in Int, NEW n \in Int
    PROVE  seq_add(SeqOf(isn, i), n) = SeqOf(isn, i + n)
<1>1. isn + i \in Int /\ (isn + i) + n = isn + (i + n)
  BY DEF Seqs
<1> QED  BY <1>1, ModSum, HalfFacts DEF SeqOf, seq_add

(* The residue of a distance below half of the space.                      *)
LEMMA DistanceResidue ==
    ASSUME NEW d \in Int, -SeqHalf < d, d < SeqHalf
    PROVE  /\ d >= 0 => d % SeqMod = d
           /\ d < 0  => d % SeqMod = d + SeqMod
<1>1. CASE d >= 0
  BY <1>1, HalfFacts, SMT
<1>2. CASE d < 0
  <2>1. d + SeqMod \in 0 .. SeqMod - 1
    BY <1>2, HalfFacts, SMT
  <2>2. d - (d + SeqMod) = SeqMod * (-1)
    BY HalfFacts, SMT
  <2>3. d % SeqMod = (d + SeqMod) % SeqMod
    BY <2>1, <2>2, HalfFacts, SameResidue
  <2> QED  BY <1>2, <2>1, <2>3, HalfFacts, SMT
<1> QED  BY <1>1, <1>2

(* Comparison of sequence numbers is comparison of positions as long as    *)
(* the positions are less than half of the space apart (serial.py:50).     *)
LEMMA SeqLtOrder ==
    ASSUME NEW isn \in Seqs, NEW i \in Int, NEW j \in Int,
           -SeqHalf < j - i, j - i < SeqHalf
    PROVE  seq_lt(SeqOf(isn, i), SeqOf(isn, j)) <=> i < j
<1> DEFINE d == (j - i) % SeqMod
<1>1. seq_lt(SeqOf(isn, i), SeqOf(isn, j)) <=> 0 < d /\ d < SeqHalf
  BY SeqDistance DEF seq_lt
<1>2. j - i \in Int  OBVIOUS
<1>3. /\ j - i >= 0 => d = j - i
      /\ j - i < 0  => d = (j - i) + SeqMod
  BY <1>2, DistanceResidue
<1> QED  BY <1>1, <1>3, HalfFacts, SMT

(* Signed distance is the difference of positions, under the same          *)
(* condition (serial.py:87).                                               *)
LEMMA SeqDiffOrder ==
    ASSUME NEW isn \in Seqs, NEW i \in Int, NEW j \in Int,
           -SeqHalf < i - j, i - j < SeqHalf
    PROVE  seq_diff(SeqOf(isn, i), SeqOf(isn, j)) = i - j
<1> DEFINE d == (i - j) % SeqMod
<1>1. seq_diff(SeqOf(isn, i), SeqOf(isn, j))
        = IF d >= SeqHalf THEN d - SeqMod ELSE d
  BY SeqDistance DEF seq_diff
<1>2. i - j \in Int  OBVIOUS
<1>3. /\ i - j >= 0 => d = i - j
      /\ i - j < 0  => d = (i - j) + SeqMod
  BY <1>2, DistanceResidue
<1> QED  BY <1>1, <1>3, HalfFacts, SMT

(* Positions less than half of the space apart have distinct numbers.      *)
LEMMA SeqOfInjective ==
    ASSUME NEW isn \in Seqs, NEW i \in Int, NEW j \in Int,
           -SeqHalf < i - j, i - j < SeqHalf,
           SeqOf(isn, i) = SeqOf(isn, j)
    PROVE  i = j
<1>1. seq_diff(SeqOf(isn, i), SeqOf(isn, j)) = i - j
  BY SeqDiffOrder
<1>2. j - j \in Int /\ -SeqHalf < j - j /\ j - j < SeqHalf
  BY HalfFacts, SMT
<1>3. seq_diff(SeqOf(isn, j), SeqOf(isn, j)) = j - j
  BY <1>2, SeqDiffOrder
<1> QED  BY <1>1, <1>3, SMT
=============================================================================
