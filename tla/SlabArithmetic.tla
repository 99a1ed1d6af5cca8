--------------------------- MODULE SlabArithmetic ---------------------------
(***************************************************************************)
(* Offsets into the arrays of the schedules: the cell <<d, l>> of a matrix *)
(* of D rows of L slabs lies at d * L + l. Arrays of more dimensions are   *)
(* matrices of the offsets into the dimensions before.                     *)
(***************************************************************************)
EXTENDS Integers, TLAPS

\* A product grows with its factor.
LEMMA ProductGrows ==
  ASSUME NEW a \in Int, NEW b \in Int, NEW c \in Nat, a <= b
  PROVE  a * c <= b * c /\ a * c \in Int /\ b * c \in Int
<1>1. (b - a) * c >= 0
  OBVIOUS
<1>2. (b - a) * c = b * c - a * c
  OBVIOUS
<1> QED
  BY <1>1, <1>2

\* A cell of the first D rows is one of the first D * L slabs.
LEMMA SlabInRange ==
  ASSUME NEW D \in Nat, NEW L \in Nat, NEW d \in 0..D - 1, NEW l \in 0..L - 1
  PROVE  d * L + l \in 0..D * L - 1
<1>1. d * L <= (D - 1) * L /\ d * L \in Int /\ 0 * L <= d * L
  BY ProductGrows
<1>2. (D - 1) * L = D * L - L /\ 0 * L = 0 /\ D * L \in Int
  OBVIOUS
<1> QED
  BY <1>1, <1>2

\* Different cells have different slabs.
LEMMA SlabInjective ==
  ASSUME NEW L \in Nat, NEW d \in Nat, NEW e \in Nat,
         NEW l \in 0..L - 1, NEW k \in 0..L - 1,
         d * L + l = e * L + k
  PROVE  d = e /\ l = k
<1>1. ASSUME NEW x \in Nat, NEW y \in Nat, x < y
      PROVE  x * L + L <= y * L /\ x * L \in Int /\ y * L \in Int
  <2>1. (x + 1) * L <= y * L /\ y * L \in Int
    BY <1>1, ProductGrows
  <2>2. (x + 1) * L = x * L + L /\ x * L \in Int
    OBVIOUS
  <2> QED
    BY <2>1, <2>2
<1>2. ~(d < e)
  BY <1>1
<1>3. ~(e < d)
  BY <1>1
<1>4. d = e
  BY <1>2, <1>3
<1> QED
  BY <1>4
=============================================================================
