-------------------------- MODULE DilatedLstmProofs --------------------------
(***************************************************************************)
(* For every depth and all lengths: a chunk of the dilated LSTM stores to  *)
(* its own layer only, the program stops early only for an odd length in   *)
(* two layers, and every cell gets its state from one link before. As in   *)
(* StackedLstmProofs this is about the driver without the fused activation.*)
(***************************************************************************)
EXTENDS DilatedLstm, SlabArithmetic, FiniteSetTheorems, FunctionTheorems, TLAPS

\* A call of the driver with any depth and length.
Init == \E d, l \in Nat \ {0} : InitFor(d, l)

Spec == Init /\ [][Next]_vars

(***************************************************************************)
(* Powers of two, as the numbers of subsets.                               *)
(***************************************************************************)

LEMMA PowerIsCount ==
  ASSUME NEW n \in Nat
  PROVE  /\ IsFiniteSet(SUBSET (1..n))
         /\ Cardinality(SUBSET (1..n)) = 2^n
         /\ 2^n \in Nat \ {0}
<1>1. IsFiniteSet(1..n) /\ Cardinality(1..n) = n
  BY FS_Interval
<1>2. IsFiniteSet(SUBSET (1..n)) /\ Cardinality(SUBSET (1..n)) = 2^n
  BY <1>1, FS_SUBSET
<1>3. SUBSET (1..n) # {}
  OBVIOUS
<1>4. Cardinality(SUBSET (1..n)) \in Nat /\ Cardinality(SUBSET (1..n)) # 0
  BY <1>2, <1>3, FS_CardinalityType, FS_EmptySet
<1> QED
  BY <1>2, <1>4

LEMMA PowersArePositive == \A n \in Nat : 2^n \in Nat \ {0}
  BY PowerIsCount

LEMMA PowerDoubles ==
  ASSUME NEW n \in Nat
  PROVE  2^(n + 1) = 2 * 2^n
<1> DEFINE S == SUBSET (1..n)
           f == [s \in S |-> s \cup {n + 1}]
           T == {f[s] : s \in S}
<1>1. n + 1 \notin 1..n /\ 1..n + 1 = (1..n) \cup {n + 1}
  OBVIOUS
<1>2. SUBSET (1..n + 1) = S \cup T
  <2>1. ASSUME NEW u \in SUBSET (1..n + 1) PROVE u \in S \cup T
    <3>1. CASE n + 1 \in u
      <4>1. u \ {n + 1} \in S /\ u = (u \ {n + 1}) \cup {n + 1}
        BY <1>1, <3>1
      <4>2. u = f[u \ {n + 1}]
        BY <4>1
      <4> QED
        BY <4>1, <4>2
    <3>2. CASE n + 1 \notin u
      BY <1>1, <3>2
    <3> QED
      BY <3>1, <3>2
  <2>2. ASSUME NEW u \in S \cup T PROVE u \in SUBSET (1..n + 1)
    BY <1>1
  <2> QED
    BY <2>1, <2>2
<1>3. S \cap T = {}
  BY <1>1
<1>4. f \in Bijection(S, T)
  <2>1. \A s, u \in S : f[s] = f[u] => s = u
    BY <1>1
  <2>2. f \in [S -> T] /\ \A t \in T : \E s \in S : f[s] = t
    OBVIOUS
  <2> HIDE DEF f, S, T
  <2> QED
    BY <2>1, <2>2, Fun_IsBij
<1>5. IsFiniteSet(S) /\ Cardinality(S) = 2^n /\ 2^n \in Nat
  BY PowerIsCount
<1>6. Cardinality(SUBSET (1..n + 1)) = 2^(n + 1)
  BY PowerIsCount
<1> HIDE DEF S, f, T
<1>7. IsFiniteSet(T) /\ Cardinality(T) = Cardinality(S)
  BY <1>4, <1>5, FS_Bijection DEF ExistsBijection
<1>8. Cardinality(S \cap T) = 0
  BY <1>3, FS_EmptySet
<1>9. Cardinality(S \cup T) = Cardinality(S) + Cardinality(T) - 0
  BY <1>5, <1>7, <1>8, FS_Union
<1> DEFINE p == 2^n
           q == 2^(n + 1)
<1>10. p \in Nat /\ q = p + p - 0
  BY <1>2, <1>5, <1>6, <1>7, <1>9
<1> HIDE DEF p, q
<1>11. q = 2 * p
  BY <1>10
<1> QED
  BY <1>11 DEF p, q

(***************************************************************************)
(* Multiples.                                                              *)
(***************************************************************************)

LEMMA Division ==
  ASSUME NEW a \in Nat, NEW b \in Nat \ {0}
  PROVE  /\ a \div b \in Nat /\ a % b \in 0..b - 1
         /\ a = (a \div b) * b + (a % b)
  OBVIOUS

LEMMA Multiple ==
  ASSUME NEW a \in Nat, NEW b \in Nat \ {0}, a % b = 0
  PROVE  \E k \in Nat : a = k * b
<1> DEFINE k == a \div b
<1>1. k \in Nat /\ a = k * b + 0
  BY Division
<1> HIDE DEF k
<1>2. k \in Nat /\ a = k * b
  BY <1>1
<1> QED
  BY <1>2

LEMMA MultipleHasNoRest ==
  ASSUME NEW k \in Nat, NEW b \in Nat \ {0}
  PROVE  k * b \in Nat /\ (k * b) % b = 0
<1> DEFINE a == k * b
           q == a \div b
           r == a % b
<1>1. a \in Nat
  OBVIOUS
<1>2. q \in Nat /\ r \in 0..b - 1 /\ a = q * b + r
  BY <1>1, Division
<1>3. k * b + 0 = q * b + r
  BY <1>2
<1> HIDE DEF a, q, r
<1>4. r = 0
  BY <1>2, <1>3, SlabInjective
<1> QED
  BY <1>1, <1>4 DEF a, r

LEMMA NextMultiple ==
  ASSUME NEW a \in Nat, NEW b \in Nat \ {0}, a % b = 0
  PROVE  (a + b) % b = 0
<1>1. PICK q \in Nat : a = q * b
  BY Multiple
<1>2. a + b = (q + 1) * b
  BY <1>1
<1> QED
  BY <1>1, <1>2, MultipleHasNoRest

\* Between two multiples of a number there is room for that number.
LEMMA RoomForOne ==
  ASSUME NEW k \in Nat, NEW n \in Nat, NEW b \in Nat, k * b < n * b
  PROVE  k * b + b <= n * b
<1>1. k * b \in Int /\ n * b \in Int /\ (k + 1) * b = k * b + b
  OBVIOUS
<1>2. k + 1 <= n
  <2>1. CASE n <= k
    BY <1>1, <2>1, ProductGrows
  <2> QED
    BY <2>1
<1> QED
  BY <1>1, <1>2, ProductGrows

(***************************************************************************)
(* Cells and their slabs.                                                  *)
(***************************************************************************)

LEMMA CellOfCells ==
  ASSUME NEW c \in Cells
  PROVE  c[1] \in 0..depth - 1 /\ c[2] \in 0..len - 1 /\ c = <<c[1], c[2]>>
  BY DEF Cells

LEMMA SlabOfCell ==
  ASSUME depth \in Nat, len \in Nat, NEW i \in 0..depth - 1, NEW j \in 0..len - 1
  PROVE  Offset(i, j) \in Slabs /\ Offset(i, j) \in Nat /\ <<i, j>> \in Cells
  BY SlabInRange DEF Offset, Slabs, Cells

LEMMA SlabsAreDistinct ==
  ASSUME depth \in Nat, len \in Nat, NEW i \in Nat, NEW m \in Nat,
         NEW j \in 0..len - 1, NEW n \in 0..len - 1, Offset(i, j) = Offset(m, n)
  PROVE  i = m /\ j = n
  BY SlabInjective DEF Offset

(***************************************************************************)
(* Chunks fit in their layers.                                             *)
(***************************************************************************)

Chunking == status = "ok" /\ region = 2 /\ layer < depth /\ step < len

LEMMA ChunkRanges ==
  ASSUME LoopInv, Chunking
  PROVE  /\ depth \in Nat /\ len \in Nat /\ depth >= 2
         /\ layer \in 1..depth - 1 /\ step \in 0..len - 1
         /\ link_len \in Nat \ {0} /\ link_len = 2^layer
         /\ step % link_len = 0
         /\ step = 0 \/ link_len <= step
<1>1. /\ depth \in Nat /\ len \in Nat /\ depth >= 2
      /\ layer \in 1..depth - 1 /\ step \in 0..len - 1
      /\ link_len = 2^layer /\ step % link_len = 0
  BY DEF LoopInv, LinkInv, Chunking
<1>2. link_len \in Nat \ {0}
  <2>1. layer \in Nat
    BY <1>1
  <2>2. 2^layer \in Nat \ {0}
    BY <2>1, PowersArePositive, Zenon
  <2> QED
    BY <1>1, <2>2, Zenon
<1>3. step = 0 \/ link_len <= step
  <2>0. step \in Nat /\ step % link_len = 0
    BY <1>1
  <2>1. PICK q \in Nat : step = q * link_len
    BY <1>2, <2>0, Multiple
  <2>2. CASE q = 0
    BY <1>2, <2>1, <2>2
  <2>3. CASE q >= 1
    <3>1. 1 * link_len <= q * link_len
      BY <1>2, <2>1, <2>3, ProductGrows
    <3> QED
      BY <1>2, <2>1, <3>1
  <2> QED
    BY <2>1, <2>2, <2>3
<1> QED
  BY <1>1, <1>2, <1>3

LEMMA ChunkEnds ==
  ASSUME LoopInv, Chunking, ~OddWithTwoLayers \/ ViewsFit
  PROVE  step + link_len <= len
<1>1. /\ depth \in Nat /\ len \in Nat /\ depth >= 2
      /\ layer \in 1..depth - 1 /\ step \in 0..len - 1
      /\ link_len \in Nat \ {0} /\ link_len = 2^layer
      /\ step % link_len = 0
  BY ChunkRanges
<1>2. CASE ~OddWithTwoLayers
  <2> DEFINE longest == 2^(depth - 1)
             rest    == 2^(depth - 1 - layer)
  <2>1. longest \in Nat \ {0} /\ rest \in Nat \ {0}
    <3>1. depth - 1 \in Nat /\ depth - 1 - layer \in Nat
      BY <1>1
    <3> QED
      BY <3>1, PowersArePositive, Zenon
  <2>2. link_len * rest = longest /\ len % longest = 0
    BY <1>1, <1>2 DEF LoopInv, LinkInv, LengthRounded, Chunking
  <2> HIDE DEF longest, rest
  <2>0. /\ len \in Nat /\ step \in Nat /\ step < len
        /\ link_len \in Nat \ {0} /\ step % link_len = 0
    BY <1>1
  <2>3. PICK n \in Nat : len = n * longest
    BY <2>0, <2>1, <2>2, Multiple
  <2>4. PICK k \in Nat : step = k * link_len
    BY <2>0, Multiple
  <2> DEFINE m == n * rest
  <2>5. len = m * link_len /\ m \in Nat
    BY <2>0, <2>1, <2>2, <2>3
  <2> HIDE DEF m
  <2>6. k * link_len < m * link_len
    BY <2>0, <2>4, <2>5
  <2>7. k * link_len + link_len <= m * link_len
    BY <2>0, <2>5, <2>6, RoomForOne
  <2> QED
    BY <2>0, <2>4, <2>5, <2>7
<1>3. CASE OddWithTwoLayers /\ ViewsFit
  <2>1. depth = 2 /\ layer = 1
    BY <1>1, <1>3 DEF OddWithTwoLayers
  <2>2. len + step + link_len <= 2 * len
    BY <1>1, <1>3, <2>1 DEF ViewsFit, Fits, Offset
  <2> QED
    BY <1>1, <2>2
<1> QED
  BY <1>2, <1>3

LEMMA ViewsDoFit ==
  ASSUME LoopInv, Chunking, ~OddWithTwoLayers
  PROVE  ViewsFit
<1>1. /\ depth \in Nat /\ len \in Nat /\ layer \in 1..depth - 1
      /\ step \in 0..len - 1 /\ link_len \in Nat
  BY ChunkRanges
<1>2. step + link_len <= len
  BY ChunkEnds
<1>3. (layer + 1) * len <= depth * len /\ depth * len \in Int
  BY <1>1, ProductGrows
<1>4. layer * len \in Int /\ (layer - 1) * len = layer * len - len
      /\ (layer + 1) * len = layer * len + len
  BY <1>1
<1> QED
  BY <1>1, <1>2, <1>3, <1>4 DEF ViewsFit, Fits, Offset, PreviousChunk

(***************************************************************************)
(* A call keeps the inductive invariant.                                   *)
(***************************************************************************)

\* The rounding of the driver.
LEMMA RoundedLength ==
  ASSUME NEW d \in Nat \ {0}, NEW l \in Nat \ {0}
  PROVE  /\ Rounded(d, l) \in Nat \ {0}
         /\ d > 2 => Rounded(d, l) % 2^(d - 1) = 0
<1>1. CASE d <= 2
  BY <1>1 DEF Rounded
<1>2. CASE d > 2
  <2> DEFINE half == 2^(d - 2)
             link == 2 * half
             q    == (l - 1) \div link
             n    == q + 1
  <2>1. d - 2 \in Nat /\ d - 2 + 1 = d - 1
    BY <1>2
  <2>2. half \in Nat \ {0}
    BY <2>1, PowersArePositive, Zenon
  <2>3. 2^(d - 2 + 1) = 2 * 2^(d - 2)
    BY <2>1, PowerDoubles
  <2>4. link = 2^(d - 1)
    BY <2>1, <2>3
  <2>5. Rounded(d, l) = n * link
    BY <1>2 DEF Rounded, RoundUp
  <2> HIDE DEF half
  <2>6. link \in Nat \ {0}
    BY <2>2
  <2> HIDE DEF link
  <2>7. l - 1 \in Nat
    OBVIOUS
  <2>8. q \in Nat
    BY <2>6, <2>7, Division
  <2> HIDE DEF q
  <2>9. n \in Nat \ {0}
    BY <2>8
  <2> HIDE DEF n
  <2>10. n * link \in Nat /\ (n * link) % link = 0
    BY <2>6, <2>9, MultipleHasNoRest
  <2>11. 1 * link <= n * link
    BY <2>6, <2>9, ProductGrows
  <2>12. n * link # 0
    BY <2>6, <2>10, <2>11
  <2> QED
    BY <2>4, <2>5, <2>10, <2>12
<1> QED
  BY <1>1, <1>2

LEMMA CallInv == ASSUME NEW d \in Nat \ {0}, NEW l \in Nat \ {0}, InitFor(d, l)  PROVE IInv
<1>1. /\ depth = d /\ len = Rounded(d, l) /\ len \in Nat \ {0}
      /\ region = 1 /\ layer = 0 /\ step = 0 /\ link_len = 0
      /\ hsss = [a \in Slabs |-> <<>>] /\ csss = [a \in Slabs |-> <<>>]
      /\ operands = {} /\ status = "ok"
  BY RoundedLength DEF InitFor
<1>2. LengthRounded
  <2>1. CASE d > 2
    BY <1>1, <2>1, RoundedLength DEF LengthRounded
  <2>2. CASE d <= 2
    <3> SUFFICES ASSUME depth >= 2, ~OddWithTwoLayers
                 PROVE  len % 2^(depth - 1) = 0
      BY DEF LengthRounded
    <3>1. depth = 2
      BY <1>1, <2>2
    <3>2. 2^(depth - 1) = 2
      BY <3>1
    <3>3. len % 2 = 0
      BY <1>1, <3>1 DEF OddWithTwoLayers
    <3> QED
      BY <3>2, <3>3
  <2> QED
    BY <2>1, <2>2
<1>3. LoopInv
  BY <1>1, <1>2 DEF LoopInv, LinkInv
<1>4. HeldInv
  <2> SUFFICES ASSUME NEW c \in Cells
               PROVE  /\ hsss[Offset(c[1], c[2])] = <<>> /\ csss[Offset(c[1], c[2])] = <<>>
                      /\ ~Walked(c)
    BY <1>1 DEF HeldInv
  <2>1. c[1] \in 0..depth - 1 /\ c[2] \in 0..len - 1
    BY CellOfCells
  <2>2. Offset(c[1], c[2]) \in Slabs
    BY <1>1, <2>1, SlabOfCell
  <2> QED
    BY <1>1, <2>1, <2>2 DEF Walked
<1> QED
  BY <1>1, <1>3, <1>4 DEF IInv, OperandsInv

LEMMA StutterInv == IInv /\ UNCHANGED vars => IInv'
<1> SUFFICES ASSUME IInv, UNCHANGED vars  PROVE IInv'
  OBVIOUS
<1>1. LoopInv'
  BY DEF IInv, LoopInv, LinkInv, LengthRounded, OddWithTwoLayers, vars
<1>2. HeldInv'
  BY DEF IInv, HeldInv, Walked, Cells, Slabs, Offset, vars
<1>3. OperandsInv'
  BY DEF IInv, OperandsInv, Linked, Slabs, Offset, vars
<1> QED
  BY <1>1, <1>2, <1>3 DEF IInv

LEMMA Region1LoopInv == ASSUME LoopInv, Region1  PROVE LoopInv'
<1>1. /\ depth' = depth /\ len' = len /\ region' = region /\ region = 1 /\ layer' = layer
      /\ link_len' = link_len /\ status' = status /\ status = "ok"
      /\ step' = step + 1 /\ step < len
  BY DEF Region1, shape
<1>2. LengthRounded'
  BY <1>1 DEF LoopInv, LengthRounded, OddWithTwoLayers
<1> QED
  BY <1>1, <1>2 DEF LoopInv, LinkInv

LEMMA EnterLoopInv == ASSUME LoopInv, EnterRegion2  PROVE LoopInv'
<1>1. /\ depth' = depth /\ len' = len /\ status = "ok" /\ region = 1
      /\ depth \in Nat \ {0} /\ len \in Nat \ {0} /\ layer \in Nat /\ link_len \in Nat
      /\ step = len /\ LengthRounded
  BY DEF LoopInv, EnterRegion2, shape
<1>2. LengthRounded'
  BY <1>1 DEF LengthRounded, OddWithTwoLayers
<1>3. CASE depth = 1
  BY <1>1, <1>2, <1>3 DEF EnterRegion2, LoopInv, LinkInv
<1>4. CASE depth # 1
  <2>1. region' = 2 /\ layer' = 1 /\ step' = 0 /\ link_len' = 2 /\ status' = "ok"
    BY <1>1, <1>4 DEF EnterRegion2
  <2>2. depth >= 2 /\ depth - 2 \in Nat /\ depth - 2 + 1 = depth - 1 /\ depth - 1 - 1 = depth - 2
    BY <1>1, <1>4
  <2>3. 2^(depth - 2 + 1) = 2 * 2^(depth - 2)
    BY <2>2, PowerDoubles
  <2>4. 2 * 2^(depth - 1 - 1) = 2^(depth - 1)
    BY <2>2, <2>3
  <2>5. 2^1 = 2 /\ 0 % 2 = 0
    OBVIOUS
  <2>6. LinkInv'
    BY <1>1, <2>1, <2>2, <2>4, <2>5 DEF LinkInv
  <2> QED
    BY <1>1, <1>2, <2>1, <2>6 DEF LoopInv
<1> QED
  BY <1>3, <1>4

LEMMA ChunkLoopInv == ASSUME LoopInv, Chunk  PROVE LoopInv'
<1>1. /\ depth' = depth /\ len' = len /\ region' = region /\ region = 2
      /\ layer' = layer /\ link_len' = link_len /\ status = "ok" /\ Chunking
  BY DEF Chunk, shape, Chunking
<1>2. LengthRounded'
  BY <1>1 DEF LoopInv, LengthRounded, OddWithTwoLayers
<1>3. CASE ViewsFit
  <2>1. step' = step + link_len /\ status' = "ok"
    BY <1>1, <1>3 DEF Chunk
  <2>2. step + link_len <= len /\ step \in Nat /\ link_len \in Nat \ {0} /\ step % link_len = 0
    BY <1>1, <1>3, ChunkEnds, ChunkRanges
  <2>3. (step + link_len) % link_len = 0
    BY <2>2, NextMultiple
  <2>4. LinkInv'
    BY <1>1, <2>1, <2>3 DEF LoopInv, LinkInv
  <2> QED
    BY <1>1, <1>2, <2>1, <2>2, <2>4 DEF LoopInv
<1>4. CASE ~ViewsFit
  <2>1. step' = step /\ status' = "abort"
    BY <1>1, <1>4 DEF Chunk
  <2>2. OddWithTwoLayers'
    BY <1>1, <1>4, ViewsDoFit DEF OddWithTwoLayers
  <2>3. LinkInv'
    BY <1>1, <2>1 DEF LoopInv, LinkInv
  <2> QED
    BY <1>1, <1>2, <2>1, <2>2, <2>3 DEF LoopInv
<1> QED
  BY <1>3, <1>4

LEMMA NextLayerLoopInv == ASSUME LoopInv, NextLayer  PROVE LoopInv'
<1>1. /\ depth' = depth /\ len' = len /\ region' = region /\ region = 2
      /\ layer' = layer + 1 /\ link_len' = 2 * link_len /\ step' = 0
      /\ status' = "ok" /\ status = "ok"
      /\ depth \in Nat /\ len \in Nat /\ layer \in 1..depth - 1 /\ link_len \in Nat
      /\ link_len = 2^layer /\ link_len * 2^(depth - 1 - layer) = 2^(depth - 1)
      /\ depth >= 2
  BY DEF NextLayer, shape, LoopInv, LinkInv
<1>2. LengthRounded'
  BY <1>1 DEF LoopInv, LengthRounded, OddWithTwoLayers
<1>3. link_len' = 2^layer'
  BY <1>1, PowerDoubles
<1>4. ASSUME layer + 1 < depth
      PROVE  (2 * link_len) * 2^(depth - 1 - (layer + 1)) = 2^(depth - 1)
  <2> DEFINE e == depth - 1 - (layer + 1)
             p == 2^e
             q == 2^(depth - 1 - layer)
             r == 2^(depth - 1)
  <2>1. e \in Nat /\ e + 1 = depth - 1 - layer
    BY <1>1, <1>4
  <2> HIDE DEF e
  <2>2. 2^(e + 1) = 2 * 2^e
    BY <2>1, PowerDoubles
  <2>3. q = 2 * p
    BY <2>1, <2>2
  <2>4. p \in Nat \ {0}
    BY <2>1, PowersArePositive, Zenon
  <2>5. link_len * q = r
    BY <1>1
  <2> HIDE DEF p, q, r
  <2>6. (2 * link_len) * p = r
    BY <1>1, <2>3, <2>4, <2>5
  <2> QED
    BY <2>6 DEF e, p, r
<1>5. (2 * link_len) \in Nat \ {0}
  <2>1. layer + 1 \in Nat
    BY <1>1
  <2>2. 2^(layer + 1) \in Nat \ {0}
    BY <2>1, PowersArePositive, Zenon
  <2> QED
    BY <1>1, <1>3, <2>2
<1>6. 0 % (2 * link_len) = 0
  BY <1>5
<1>7. LinkInv'
  BY <1>1, <1>3, <1>4, <1>6 DEF LinkInv
<1> QED
  BY <1>1, <1>2, <1>7 DEF LoopInv

LEMMA ReturnLoopInv == ASSUME LoopInv, Return  PROVE LoopInv'
<1>1. /\ depth' = depth /\ len' = len /\ region' = region /\ region = 2 /\ layer' = layer
      /\ link_len' = link_len /\ step' = step /\ status' = "done" /\ layer = depth
  BY DEF Return, shape
<1>2. LengthRounded'
  BY <1>1 DEF LoopInv, LengthRounded, OddWithTwoLayers
<1> QED
  BY <1>1, <1>2 DEF LoopInv, LinkInv

(***************************************************************************)
(* What the slabs hold.                                                    *)
(***************************************************************************)

LEMMA Region1HeldInv == ASSUME ~Fused, LoopInv, HeldInv, Region1  PROVE HeldInv'
<1>1. /\ depth' = depth /\ len' = len /\ region' = region /\ region = 1
      /\ layer' = layer /\ step' = step + 1 /\ step \in 0..len - 1
      /\ depth \in Nat \ {0} /\ len \in Nat
      /\ Cells' = Cells /\ Slabs' = Slabs
      /\ \A i, j : Offset(i, j)' = Offset(i, j)
      /\ DOMAIN hsss = Slabs /\ DOMAIN csss = Slabs
  BY DEF Region1, shape, LoopInv, Cells, Slabs, Offset, HeldInv
<1>2. Offset(0, step) = step
  BY <1>1 DEF Offset
<1>3. /\ hsss' = [hsss EXCEPT ![Offset(0, step)] = <<Output("h", 0, step)>>]
      /\ csss' = [csss EXCEPT ![Offset(0, step)] = <<Output("c", 0, step)>>]
  BY <1>2 DEF Region1, Target
<1>4. DOMAIN hsss' = Slabs /\ DOMAIN csss' = Slabs
  BY <1>1, <1>3
<1>5. ASSUME NEW c \in Cells
      PROVE  /\ hsss'[Offset(c[1], c[2])] =
                  IF Walked(c)' THEN <<Output("h", c[1], c[2])>> ELSE <<>>
             /\ csss'[Offset(c[1], c[2])] =
                  IF Walked(c)' THEN <<Output("c", c[1], c[2])>> ELSE <<>>
  <2>1. c[1] \in 0..depth - 1 /\ c[2] \in 0..len - 1 /\ Offset(c[1], c[2]) \in Slabs
    BY <1>1, CellOfCells, SlabOfCell
  <2>2. /\ hsss[Offset(c[1], c[2])] =
             IF Walked(c) THEN <<Output("h", c[1], c[2])>> ELSE <<>>
        /\ csss[Offset(c[1], c[2])] =
             IF Walked(c) THEN <<Output("c", c[1], c[2])>> ELSE <<>>
    BY DEF HeldInv
  <2>3. CASE c[1] = 0 /\ c[2] = step
    <3>1. Walked(c)'
      BY <1>1, <2>3 DEF Walked
    <3> QED
      BY <1>1, <1>3, <2>1, <2>3, <3>1
  <2>4. CASE ~(c[1] = 0 /\ c[2] = step)
    <3>1. Walked(c)' <=> Walked(c)
      BY <1>1, <2>1, <2>4 DEF Walked
    <3>2. Offset(c[1], c[2]) # Offset(0, step)
      BY <1>1, <2>1, <2>4, SlabsAreDistinct
    <3>3. /\ hsss'[Offset(c[1], c[2])] = hsss[Offset(c[1], c[2])]
          /\ csss'[Offset(c[1], c[2])] = csss[Offset(c[1], c[2])]
      BY <1>1, <1>3, <2>1, <3>2
    <3> QED
      BY <2>2, <3>1, <3>3
  <2> QED
    BY <2>3, <2>4
<1> QED
  BY <1>1, <1>4, <1>5 DEF HeldInv

\* A chunk stores the outputs of its own cells and changes no other slab.
LEMMA ChunkStores ==
  ASSUME LoopInv, Chunking, step + link_len <= len,
         NEW array, NEW kind, NEW c \in Cells
  PROVE  /\ DOMAIN StoreChunk(array, kind) = Slabs
         /\ StoreChunk(array, kind)[Offset(c[1], c[2])] =
              IF c[1] = layer /\ c[2] \in step..step + link_len - 1
              THEN <<Output(kind, c[1], c[2])>> ELSE array[Offset(c[1], c[2])]
<1>1. /\ depth \in Nat /\ len \in Nat /\ layer \in 1..depth - 1
      /\ step \in 0..len - 1 /\ link_len \in Nat \ {0}
  BY ChunkRanges
<1>2. c[1] \in 0..depth - 1 /\ c[2] \in 0..len - 1 /\ Offset(c[1], c[2]) \in Slabs
      /\ Offset(c[1], c[2]) \in Nat
  BY <1>1, CellOfCells, SlabOfCell
<1> DEFINE k == Offset(c[1], c[2]) - Offset(layer, step)
<1>3. Offset(layer, step) \in Nat /\ k \in Int
  <2>1. layer \in 0..depth - 1 /\ step \in 0..len - 1
    BY <1>1
  <2>2. Offset(layer, step) \in Nat
    BY <1>1, <2>1, SlabOfCell
  <2> QED
    BY <1>2, <2>2
<1>4. StoreChunk(array, kind)[Offset(c[1], c[2])] =
        IF k \in 0..link_len - 1 THEN <<Output(kind, layer, step + k)>>
                                 ELSE array[Offset(c[1], c[2])]
  BY <1>2 DEF StoreChunk
<1>5. ASSUME c[1] = layer
      PROVE  k = c[2] - step
  BY <1>1, <1>2, <1>5 DEF Offset
<1>6. ASSUME k \in 0..link_len - 1
      PROVE  c[1] = layer /\ c[2] = step + k
  <2> HIDE DEF k
  <2>1. step + k \in 0..len - 1
    BY <1>1, <1>6
  <2>2. Offset(c[1], c[2]) = Offset(layer, step + k)
    <3>1. Offset(layer, step + k) = Offset(layer, step) + k
      BY <1>1, <1>6 DEF Offset
    <3>2. k = Offset(c[1], c[2]) - Offset(layer, step)
      BY DEF k
    <3> QED
      BY <1>2, <1>3, <3>1, <3>2
  <2> QED
    BY <1>1, <1>2, <2>1, <2>2, SlabsAreDistinct
<1>7. DOMAIN StoreChunk(array, kind) = Slabs
  BY DEF StoreChunk
<1> HIDE DEF k
<1>8. k \in 0..link_len - 1 <=> c[1] = layer /\ c[2] \in step..step + link_len - 1
  BY <1>1, <1>2, <1>3, <1>5, <1>6
<1> QED
  BY <1>4, <1>6, <1>7, <1>8

LEMMA ChunkHeldInv == ASSUME LoopInv, HeldInv, Chunk  PROVE HeldInv'
<1>1. /\ depth' = depth /\ len' = len /\ region' = region /\ region = 2
      /\ layer' = layer /\ Chunking
      /\ Cells' = Cells /\ Slabs' = Slabs
      /\ \A i, j : Offset(i, j)' = Offset(i, j)
  BY DEF Chunk, shape, Chunking, Cells, Slabs, Offset
<1>2. CASE ~ViewsFit
  <2>1. hsss' = hsss /\ csss' = csss /\ step' = step
    BY <1>2 DEF Chunk, arrays
  <2> QED
    BY <1>1, <2>1 DEF HeldInv, Walked
<1>3. CASE ViewsFit
  <2>1. /\ hsss' = StoreChunk(hsss, "h") /\ csss' = StoreChunk(csss, "c")
        /\ step' = step + link_len
    BY <1>3 DEF Chunk
  <2>2. /\ step + link_len <= len
        /\ depth \in Nat /\ len \in Nat /\ layer \in Nat /\ step \in Nat
        /\ link_len \in Nat \ {0}
    BY <1>1, <1>3, ChunkEnds, ChunkRanges
  <2>3. ASSUME NEW c \in Cells
        PROVE  /\ hsss'[Offset(c[1], c[2])] =
                    IF Walked(c)' THEN <<Output("h", c[1], c[2])>> ELSE <<>>
               /\ csss'[Offset(c[1], c[2])] =
                    IF Walked(c)' THEN <<Output("c", c[1], c[2])>> ELSE <<>>
    <3>1. /\ hsss[Offset(c[1], c[2])] =
               IF Walked(c) THEN <<Output("h", c[1], c[2])>> ELSE <<>>
          /\ csss[Offset(c[1], c[2])] =
               IF Walked(c) THEN <<Output("c", c[1], c[2])>> ELSE <<>>
      BY DEF HeldInv
    <3>2. c[1] \in Nat /\ c[2] \in Nat
      BY <2>2, CellOfCells
    <3>3. Walked(c)' <=> Walked(c) \/ (c[1] = layer /\ c[2] \in step..step + link_len - 1)
      BY <1>1, <2>1, <2>2, <3>2 DEF Walked
    <3>4. /\ hsss'[Offset(c[1], c[2])] =
               IF c[1] = layer /\ c[2] \in step..step + link_len - 1
               THEN <<Output("h", c[1], c[2])>> ELSE hsss[Offset(c[1], c[2])]
          /\ csss'[Offset(c[1], c[2])] =
               IF c[1] = layer /\ c[2] \in step..step + link_len - 1
               THEN <<Output("c", c[1], c[2])>> ELSE csss[Offset(c[1], c[2])]
      BY <1>1, <2>1, <2>2, ChunkStores
    <3> QED
      BY <3>1, <3>3, <3>4
  <2>4. DOMAIN hsss' = Slabs /\ DOMAIN csss' = Slabs
    BY <2>1 DEF StoreChunk
  <2> QED
    BY <1>1, <2>3, <2>4 DEF HeldInv
<1> QED
  BY <1>2, <1>3

\* The steps between layers leave what is walked and what is held alone.
LEMMA BetweenHeldInv ==
  ASSUME LoopInv, HeldInv, EnterRegion2 \/ NextLayer \/ Return
  PROVE  HeldInv'
<1>1. /\ depth' = depth /\ len' = len /\ hsss' = hsss /\ csss' = csss
      /\ Cells' = Cells /\ Slabs' = Slabs
      /\ \A i, j : Offset(i, j)' = Offset(i, j)
      /\ depth \in Nat \ {0} /\ len \in Nat /\ layer \in Nat /\ step \in 0..len
  BY DEF EnterRegion2, NextLayer, Return, shape, arrays, Cells, Slabs, Offset, LoopInv
<1>2. \A c \in Cells : Walked(c)' <=> Walked(c)
  <2> SUFFICES ASSUME NEW c \in Cells
               PROVE  Walked(c)' <=> Walked(c)
    OBVIOUS
  <2>1. c[1] \in 0..depth - 1 /\ c[2] \in 0..len - 1
    BY CellOfCells
  <2>2. CASE EnterRegion2
    <3>1. region = 1 /\ step = len
      BY <1>1, <2>2 DEF EnterRegion2
    <3>2. CASE depth = 1
      BY <2>2, <3>2 DEF EnterRegion2, Walked
    <3>3. CASE depth # 1
      <4>1. region' = 2 /\ layer' = 1 /\ step' = 0
        BY <2>2, <3>3 DEF EnterRegion2
      <4> QED
        BY <1>1, <2>1, <3>1, <4>1 DEF Walked
    <3> QED
      BY <3>2, <3>3
  <2>3. CASE NextLayer
    <3>1. /\ region = 2 /\ region' = 2 /\ step = len /\ layer' = layer + 1 /\ step' = 0
      BY <1>1, <2>3 DEF NextLayer
    <3> QED
      BY <1>1, <2>1, <3>1 DEF Walked
  <2>4. CASE Return
    BY <2>4 DEF Return, Walked
  <2> QED
    BY <2>2, <2>3, <2>4
<1> QED
  BY <1>1, <1>2 DEF HeldInv

(***************************************************************************)
(* What a chunk is given.                                                  *)
(***************************************************************************)

\* Before the step that stores it, a slab of a walked cell is not empty.
LEMMA WalkedIsHeld ==
  ASSUME LoopInv, HeldInv, NEW i \in 0..depth - 1, NEW j \in 0..len - 1, Walked(<<i, j>>)
  PROVE  /\ hsss[Offset(i, j)] # <<>> /\ csss[Offset(i, j)] # <<>>
         /\ Offset(i, j) \in Slabs
<1>1. depth \in Nat /\ len \in Nat
  BY DEF LoopInv
<1>2. <<i, j>> \in Cells /\ Offset(i, j) \in Slabs
  BY <1>1, SlabOfCell
<1> DEFINE c == <<i, j>>
<1>3. c \in Cells /\ Walked(c) /\ c[1] = i /\ c[2] = j
  BY <1>2
<1> HIDE DEF c
<1>4. /\ hsss[Offset(i, j)] = <<Output("h", i, j)>>
      /\ csss[Offset(i, j)] = <<Output("c", i, j)>>
  BY <1>3 DEF HeldInv
<1>5. \A o : <<o>> # <<>>
  OBVIOUS
<1> QED
  BY <1>2, <1>4, <1>5

XOperand(k) == Operand("x", layer, step + k, "hsss", Offset(layer - 1, step) + k)
HOperand(k) == Operand("h", layer, step + k, "hsss", PreviousChunk(layer, step) + k)
COperand(k) == Operand("c", layer, step + k, "csss", PreviousChunk(layer, step) + k)

LEMMA OperandFields ==
  ASSUME NEW k
  PROVE  /\ XOperand(k).role = "x" /\ XOperand(k).layer = layer
         /\ XOperand(k).time = step + k
         /\ XOperand(k).slab = Offset(layer - 1, step) + k
         /\ HOperand(k).role = "h" /\ HOperand(k).layer = layer
         /\ HOperand(k).time = step + k
         /\ HOperand(k).slab = PreviousChunk(layer, step) + k
         /\ COperand(k).role = "c" /\ COperand(k).layer = layer
         /\ COperand(k).time = step + k
         /\ COperand(k).slab = PreviousChunk(layer, step) + k
  BY DEF XOperand, HOperand, COperand, Operand

LEMMA OperandsOfChunk ==
  /\ \A o \in ChunkOperands : \E k \in 0..link_len - 1 :
       \/ o = XOperand(k)
       \/ step # 0 /\ o = HOperand(k)
       \/ step # 0 /\ o = COperand(k)
  /\ \A k \in 0..link_len - 1 : step # 0 =>
       HOperand(k) \in ChunkOperands /\ COperand(k) \in ChunkOperands
<1> DEFINE G(k) == {XOperand(k)} \cup (IF step = 0 THEN {} ELSE {HOperand(k), COperand(k)})
<1>1. ChunkOperands = UNION {G(k) : k \in 0..link_len - 1}
  BY DEF ChunkOperands, XOperand, HOperand, COperand
<1>2. ASSUME NEW o \in ChunkOperands
      PROVE  \E k \in 0..link_len - 1 : o \in G(k)
  BY <1>1
<1>3. ASSUME NEW k \in 0..link_len - 1
      PROVE  G(k) \subseteq ChunkOperands
  BY <1>1
<1>4. \A k, o : o \in G(k) => \/ o = XOperand(k)
                              \/ step # 0 /\ o = HOperand(k)
                              \/ step # 0 /\ o = COperand(k)
  OBVIOUS
<1>5. \A k : step # 0 => HOperand(k) \in G(k) /\ COperand(k) \in G(k)
  OBVIOUS
<1> HIDE DEF G
<1> QED
  BY <1>2, <1>3, <1>4, <1>5

\* The cells a chunk reads have been walked.
LEMMA ChunkReads ==
  ASSUME LoopInv, HeldInv, Chunking, step + link_len <= len, NEW k \in 0..link_len - 1
  PROVE  /\ Offset(layer - 1, step) + k = Offset(layer - 1, step + k)
         /\ Offset(layer - 1, step + k) \in Slabs
         /\ hsss[Offset(layer - 1, step + k)] # <<>>
         /\ step # 0 => LET a == Offset(layer, (step + k) - link_len) IN
              /\ step + k >= link_len
              /\ PreviousChunk(layer, step) + k = a
              /\ a \in Slabs /\ hsss[a] # <<>> /\ csss[a] # <<>>
         /\ step + k >= link_len => step # 0
<1>1. /\ depth \in Nat /\ len \in Nat /\ layer \in 1..depth - 1
      /\ step \in 0..len - 1 /\ link_len \in Nat \ {0}
      /\ step = 0 \/ link_len <= step
      /\ region = 2
  BY ChunkRanges DEF Chunking
<1>2. /\ layer - 1 \in 0..depth - 1 /\ layer \in 0..depth - 1
      /\ step + k \in 0..len - 1
      /\ step # 0 => (step + k) - link_len \in 0..len - 1
      /\ step # 0 => (step + k) - link_len < step
  BY <1>1
<1>3. Offset(layer - 1, step) + k = Offset(layer - 1, step + k)
  BY <1>1 DEF Offset
<1>4. Walked(<<layer - 1, step + k>>)
  BY <1>1 DEF Walked
<1>5. ASSUME step # 0
      PROVE  LET a == Offset(layer, (step + k) - link_len) IN
             /\ step + k >= link_len
             /\ PreviousChunk(layer, step) + k = a
             /\ a \in Slabs /\ hsss[a] # <<>> /\ csss[a] # <<>>
  <2>1. Walked(<<layer, (step + k) - link_len>>)
    BY <1>1, <1>2, <1>5 DEF Walked
  <2>2. PreviousChunk(layer, step) + k = Offset(layer, (step + k) - link_len)
    BY <1>1 DEF PreviousChunk, Offset
  <2>3. step + k >= link_len
    BY <1>1, <1>5
  <2> QED
    BY <1>2, <1>5, <2>1, <2>2, <2>3, WalkedIsHeld
<1> QED
  BY <1>1, <1>2, <1>3, <1>4, <1>5, WalkedIsHeld

LEMMA ChunkIsLinked ==
  ASSUME LoopInv, HeldInv, Chunking, step + link_len <= len
  PROVE  /\ Linked(ChunkOperands)
         /\ \A o \in ChunkOperands : o.role \in {"x", "h", "c"} /\ o.slab \in Slabs
<1>1. /\ link_len = 2^layer /\ link_len \in Nat \ {0} /\ step \in Nat
  BY ChunkRanges
<1> SUFFICES ASSUME NEW o \in ChunkOperands
             PROVE  /\ o.role = "x" => /\ o.slab = Offset(o.layer - 1, o.time)
                                       /\ hsss[o.slab] # <<>>
                    /\ o.role \in {"h", "c"} =>
                         /\ o.time >= 2^o.layer
                         /\ o.slab = Offset(o.layer, o.time - 2^o.layer)
                         /\ hsss[o.slab] # <<>> /\ csss[o.slab] # <<>>
                    /\ o.time >= 2^o.layer =>
                         \A r \in {"h", "c"} : \E e \in ChunkOperands :
                           e.role = r /\ e.time = o.time
                    /\ o.role \in {"x", "h", "c"} /\ o.slab \in Slabs
  BY DEF Linked
<1>2. PICK k \in 0..link_len - 1 : \/ o = XOperand(k)
                                   \/ step # 0 /\ o = HOperand(k)
                                   \/ step # 0 /\ o = COperand(k)
  BY OperandsOfChunk
<1>3. o.layer = layer /\ o.time = step + k /\ 2^o.layer = link_len
  BY <1>1, <1>2, OperandFields
<1>4. ASSUME o.time >= link_len, NEW r \in {"h", "c"}
      PROVE  \E e \in ChunkOperands : e.role = r /\ e.time = o.time
  <2>1. step # 0
    BY <1>3, <1>4, ChunkReads
  <2>2. /\ HOperand(k) \in ChunkOperands /\ COperand(k) \in ChunkOperands
        /\ HOperand(k).role = "h" /\ HOperand(k).time = step + k
        /\ COperand(k).role = "c" /\ COperand(k).time = step + k
    BY <2>1, OperandsOfChunk, OperandFields
  <2> QED
    BY <1>3, <2>2
<1>5. CASE o = XOperand(k)
  <2>1. o.role = "x" /\ o.slab = Offset(layer - 1, step + k)
    BY <1>5, ChunkReads, OperandFields
  <2> QED
    BY <1>3, <1>4, <2>1, ChunkReads
<1>6. CASE step # 0 /\ (o = HOperand(k) \/ o = COperand(k))
  <2>1. o.role \in {"h", "c"} /\ o.slab = Offset(layer, (step + k) - link_len)
    BY <1>6, ChunkReads, OperandFields
  <2>2. o.role # "x" /\ o.role \in {"x", "h", "c"}
    BY <2>1
  <2>3. /\ step + k >= link_len
        /\ o.slab \in Slabs /\ hsss[o.slab] # <<>> /\ csss[o.slab] # <<>>
    BY <1>6, <2>1, ChunkReads
  <2>4. o.time >= 2^o.layer /\ o.slab = Offset(o.layer, o.time - 2^o.layer)
    <3>1. o.time >= link_len /\ o.slab = Offset(o.layer, o.time - link_len)
      <4>1. o.layer = layer /\ o.time = step + k
        BY <1>3
      <4> QED
        BY <2>1, <2>3, <4>1
    <3> QED
      BY <1>3, <3>1
  <2>5. \A r \in {"h", "c"} : \E e \in ChunkOperands : e.role = r /\ e.time = o.time
    <3>1. o.time >= link_len
      BY <1>3, <2>3
    <3> QED
      BY <1>4, <3>1
  <2> QED
    BY <2>2, <2>3, <2>4, <2>5
<1> QED
  BY <1>2, <1>5, <1>6

\* A step of region 2 finds what LinksFound says, and keeps it.
LEMMA StepLinks ==
  ASSUME IInv, Next, region = 2
  PROVE  Linked(operands')
<1>1. CASE Chunk
  <2>1. Chunking
    BY <1>1 DEF Chunk, Chunking
  <2>2. CASE ViewsFit
    <3>1. operands' = ChunkOperands
      BY <1>1, <2>2 DEF Chunk
    <3>2. step + link_len <= len
      BY <2>1, <2>2, ChunkEnds DEF IInv
    <3> QED
      BY <2>1, <3>1, <3>2, ChunkIsLinked DEF IInv
  <2>3. CASE ~ViewsFit
    <3>1. operands' = operands
      BY <1>1, <2>3 DEF Chunk
    <3> QED
      BY <3>1 DEF IInv, OperandsInv
  <2> QED
    BY <2>2, <2>3
<1>2. CASE NextLayer \/ Return
  <2>1. operands' = {}
    BY <1>2 DEF NextLayer, Return
  <2> QED
    BY <2>1 DEF Linked
<1> QED
  BY <1>1, <1>2 DEF Next, Region1, EnterRegion2

LEMMA StepOperandsInv ==
  ASSUME IInv, Next
  PROVE  OperandsInv'
<1>1. CASE EnterRegion2 \/ NextLayer \/ Return
  <2>1. operands' = {}
    BY <1>1 DEF EnterRegion2, NextLayer, Return
  <2> QED
    BY <2>1 DEF OperandsInv, Linked
<1>2. CASE Region1
  BY <1>2 DEF Region1, OperandsInv
<1>3. CASE Chunk /\ ViewsFit
  <2>1. /\ Chunking /\ operands' = ChunkOperands /\ Slabs' = Slabs
        /\ hsss' = StoreChunk(hsss, "h") /\ csss' = StoreChunk(csss, "c")
        /\ \A i, j : Offset(i, j)' = Offset(i, j)
    BY <1>3 DEF Chunk, Chunking, shape, Slabs, Offset
  <2>2. /\ Linked(ChunkOperands)
        /\ \A o \in ChunkOperands : o.role \in {"x", "h", "c"} /\ o.slab \in Slabs
    BY <1>3, <2>1, ChunkEnds, ChunkIsLinked DEF IInv
  <2>3. \A a \in Slabs : /\ hsss[a] # <<>> => hsss'[a] # <<>>
                         /\ csss[a] # <<>> => csss'[a] # <<>>
    <3>1. \A o : <<o>> # <<>>
      OBVIOUS
    <3> QED
      BY <2>1, <3>1 DEF StoreChunk
  <2>4. Linked(operands)'
    <3> DEFINE S == ChunkOperands
    <3>1. operands' = S
      BY <2>1
    <3> HIDE DEF S
    <3>2. Linked(S) /\ \A o \in S : o.slab \in Slabs
      BY <2>2 DEF S
    <3> QED
      BY <2>1, <2>3, <3>1, <3>2 DEF Linked
  <2> QED
    BY <2>1, <2>2, <2>4 DEF OperandsInv
<1>4. CASE Chunk /\ ~ViewsFit
  <2>1. /\ operands' = operands /\ region' = region /\ region = 2 /\ Slabs' = Slabs
        /\ hsss' = hsss /\ csss' = csss
        /\ \A i, j : Offset(i, j)' = Offset(i, j)
    BY <1>4 DEF Chunk, arrays, shape, Slabs, Offset
  <2>2. Linked(operands) /\ \A o \in operands : o.role \in {"x", "h", "c"} /\ o.slab \in Slabs
    BY <2>1 DEF IInv, OperandsInv
  <2>3. Linked(operands)'
    BY <2>1, <2>2 DEF Linked
  <2> QED
    BY <2>1, <2>2, <2>3 DEF OperandsInv
<1> QED
  BY <1>1, <1>2, <1>3, <1>4 DEF Next

LEMMA StepInv == ASSUME ~Fused, IInv, Next  PROVE IInv'
<1>1. LoopInv /\ HeldInv
  BY DEF IInv
<1>2. LoopInv'
  BY <1>1, Region1LoopInv, EnterLoopInv, ChunkLoopInv, NextLayerLoopInv, ReturnLoopInv DEF Next
<1>3. HeldInv'
  BY <1>1, Region1HeldInv, ChunkHeldInv, BetweenHeldInv DEF Next
<1>4. OperandsInv'
  BY StepOperandsInv
<1> QED
  BY <1>2, <1>3, <1>4 DEF IInv

\* The part of IInv that ChunksStayInLayer states.
LEMMA ChunksFollow == IInv => ChunksStayInLayer
<1> SUFFICES ASSUME IInv PROVE ChunksStayInLayer
  OBVIOUS
<1>1. /\ depth \in Nat \ {0} /\ len \in Nat \ {0} /\ step \in 0..len
      /\ region \in {1, 2}
      /\ status = "done" => IF region = 1 THEN depth = 1 /\ step = len ELSE layer = depth
      /\ status = "abort" => OddWithTwoLayers
  BY DEF IInv, LoopInv
<1>2. ASSUME NEW c \in Cells
      PROVE  LET a == Offset(c[1], c[2]) IN
             /\ hsss[a] \in {<<>>, <<Output("h", c[1], c[2])>>}
             /\ csss[a] \in {<<>>, <<Output("c", c[1], c[2])>>}
             /\ status = "done" => hsss[a] # <<>> /\ csss[a] # <<>>
  <2> DEFINE a == Offset(c[1], c[2])
  <2>1. /\ hsss[a] = IF Walked(c) THEN <<Output("h", c[1], c[2])>> ELSE <<>>
        /\ csss[a] = IF Walked(c) THEN <<Output("c", c[1], c[2])>> ELSE <<>>
    BY DEF IInv, HeldInv
  <2>2. c[1] \in 0..depth - 1 /\ c[2] \in 0..len - 1
    BY CellOfCells
  <2>3. status = "done" => Walked(c)
    BY <1>1, <2>2 DEF Walked
  <2>4. \A o : <<o>> # <<>>
    OBVIOUS
  <2> HIDE DEF a
  <2>5. /\ hsss[a] \in {<<>>, <<Output("h", c[1], c[2])>>}
        /\ csss[a] \in {<<>>, <<Output("c", c[1], c[2])>>}
        /\ status = "done" => hsss[a] # <<>> /\ csss[a] # <<>>
    BY <2>1, <2>3, <2>4
  <2> QED
    BY <2>5 DEF a
<1> QED
  BY <1>1, <1>2 DEF ChunksStayInLayer

\* Loop ranges, links, slabs and operands, for every depth and all lengths.
THEOREM Invariance == ASSUME ~Fused  PROVE Spec => []IInv
<1>1. Init => IInv
  BY CallInv DEF Init
<1>2. IInv /\ [Next]_vars => IInv'
  BY StepInv, StutterInv
<1> QED
  BY <1>1, <1>2, PTL DEF Spec

\* A chunk stores to its own layer, and a call ends with all cells stored, or
\* early if the length is odd and there are two layers.
THEOREM AlwaysChunksStay == ASSUME ~Fused  PROVE Spec => []ChunksStayInLayer
<1>1. Spec => []IInv
  BY Invariance
<1> QED
  BY <1>1, ChunksFollow, PTL

\* Every cell of region 2 gets its state from one link before, and its input
\* from the layer below, when these have been stored.
THEOREM AlwaysLinked == ASSUME ~Fused  PROVE Spec => LinksFound
<1>1. Spec => []IInv
  BY Invariance
<1>2. IInv /\ [Next]_vars => [region = 2 => Linked(operands')]_vars
  BY StepLinks
<1> QED
  BY <1>1, <1>2, PTL DEF Spec, LinksFound
=============================================================================
