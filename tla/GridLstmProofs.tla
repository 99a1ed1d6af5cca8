--------------------------- MODULE GridLstmProofs ---------------------------
(***************************************************************************)
(* For every depth and all lengths: the eight regions of the grid LSTM     *)
(* launch every cell once, one whole hyperplane at a time; no window       *)
(* leaves its tensor; every cell is given the outputs of its neighbours;   *)
(* and exactly the cells above layer 0 that are not alone in their         *)
(* hyperplane have their outputs computed.                                 *)
(***************************************************************************)
EXTENDS GridLstm, SlabArithmetic, FiniteSetTheorems, FunctionTheorems, TLAPS

\* A call of the driver with any depth and lengths.
Init == \E d, s, t \in Nat \ {0} : InitFor(d, s, t)

Spec == Init /\ [][Next]_vars

Shape == depth \in Nat \ {0} /\ src \in Nat \ {0} /\ trg \in Nat \ {0}

(***************************************************************************)
(* Cells and their slabs.                                                  *)
(***************************************************************************)

LEMMA CellOfCells ==
  ASSUME NEW c \in Cells
  PROVE  /\ c[1] \in 0..depth - 1 /\ c[2] \in 0..src - 1 /\ c[3] \in 0..trg - 1
         /\ c = <<c[1], c[2], c[3]>>
  BY DEF Cells

LEMMA NeighbourOfCells ==
  ASSUME NEW d \in 0..depth - 1, NEW i \in 0..src - 1, NEW j \in 0..trg - 1
  PROVE  <<d, i, j>> \in Cells
  BY DEF Cells

\* The slabs of a cell are slabs of hsss.
LEMMA SlabOfCell ==
  ASSUME Shape, NEW c \in Cells, NEW k \in {0, 1}
  PROVE  Slab(c, k) \in Slabs
<1> DEFINE row  == depth * src
           rows == row * trg
           x    == c[1] * src + c[2]
           y    == x * trg + c[3]
<1>1. /\ depth \in Nat /\ src \in Nat /\ trg \in Nat
      /\ c[1] \in 0..depth - 1 /\ c[2] \in 0..src - 1 /\ c[3] \in 0..trg - 1
  BY CellOfCells DEF Shape
<1>2. x \in 0..row - 1 /\ row \in Nat
  BY <1>1, SlabInRange
<1> HIDE DEF row, x
<1>3. y \in 0..rows - 1 /\ rows \in Nat
  BY <1>1, <1>2, SlabInRange
<1> HIDE DEF rows, y
<1>4. y * 2 + k \in 0..rows * 2 - 1
  BY <1>3
<1> QED
  BY <1>4 DEF Slab, Slabs, rows, row, y, x

\* No two outputs share a slab.
LEMMA SlabsAreDistinct ==
  ASSUME Shape, NEW c \in Cells, NEW e \in Cells, NEW k \in {0, 1}, NEW l \in {0, 1},
         Slab(c, k) = Slab(e, l)
  PROVE  c = e /\ k = l
<1> DEFINE x == c[1] * src + c[2]
           y == x * trg + c[3]
           u == e[1] * src + e[2]
           v == u * trg + e[3]
<1>1. /\ depth \in Nat /\ src \in Nat /\ trg \in Nat
      /\ c[1] \in 0..depth - 1 /\ c[2] \in 0..src - 1 /\ c[3] \in 0..trg - 1
      /\ e[1] \in 0..depth - 1 /\ e[2] \in 0..src - 1 /\ e[3] \in 0..trg - 1
  BY CellOfCells DEF Shape
<1>2. x \in Nat /\ u \in Nat
  BY <1>1, SlabInRange
<1>3. x = u => c[1] = e[1] /\ c[2] = e[2]
  <2> DEFINE c1 == c[1]  c2 == c[2]  e1 == e[1]  e2 == e[2]
  <2>1. c1 \in Nat /\ e1 \in Nat /\ c2 \in 0..src - 1 /\ e2 \in 0..src - 1
    BY <1>1
  <2> HIDE DEF c1, c2, e1, e2
  <2>2. c1 * src + c2 = e1 * src + e2 => c1 = e1 /\ c2 = e2
    BY <1>1, <2>1, SlabInjective
  <2> QED
    BY <2>2 DEF c1, c2, e1, e2
<1> HIDE DEF x, u
<1>4. y \in Nat /\ v \in Nat
  <2>1. x * trg \in Nat /\ u * trg \in Nat
    BY <1>1, <1>2
  <2> QED
    BY <1>1, <2>1
<1>5. y = v => x = u /\ c[3] = e[3]
  <2> DEFINE c3 == c[3]  e3 == e[3]
  <2>1. c3 \in 0..trg - 1 /\ e3 \in 0..trg - 1
    BY <1>1
  <2> HIDE DEF c3, e3
  <2>2. x * trg + c3 = u * trg + e3 => x = u /\ c3 = e3
    BY <1>1, <1>2, <2>1, SlabInjective
  <2> QED
    BY <2>2 DEF c3, e3
<1> HIDE DEF y, v
<1>6. y * 2 + k = v * 2 + l
  BY DEF Slab, x, y, u, v
<1>7. y = v /\ k = l
  BY <1>4, <1>6
<1> QED
  BY <1>3, <1>5, <1>7, CellOfCells

\* There are finitely many cells: each has its slab.
LEMMA CellsAreFinite ==
  ASSUME Shape
  PROVE  IsFiniteSet(Cells)
<1> DEFINE f == [c \in Cells |-> Slab(c, 0)]
<1>1. f \in Injection(Cells, Slabs)
  BY SlabOfCell, SlabsAreDistinct DEF Injection, IsInjective
<1>2. IsFiniteSet(Slabs)
  <2>1. depth * src * trg * 2 - 1 \in Int
    BY DEF Shape
  <2> QED
    BY <2>1, FS_Interval DEF Slabs
<1> QED
  BY <1>1, <1>2, FS_Injection

-----------------------------------------------------------------------------
(***************************************************************************)
(* Hyperplanes.                                                            *)
(***************************************************************************)

\* An iteration the loop of region r makes.
Visited(r, m) ==
  /\ r \in 1..8 /\ m \in Int
  /\ ~ReturnsAtOnce(r) /\ LoopStart[r] <= m /\ m < LoopEnd[r]

\* The loops, region by region.
LEMMA LoopRanges ==
  /\ LoopStart[1] = 0 /\ LoopStart[2] = 1 /\ LoopStart[3] = 1 /\ LoopStart[4] = 2
  /\ LoopStart[5] = 1 /\ LoopStart[6] = 2 /\ LoopStart[7] = 2 /\ LoopStart[8] = 3
  /\ LoopEnd[1] = 1 /\ LoopEnd[2] = src /\ LoopEnd[3] = trg
  /\ LoopEnd[4] = src + trg - 1 /\ LoopEnd[5] = depth /\ LoopEnd[6] = depth + src - 1
  /\ LoopEnd[7] = depth + trg - 1 /\ LoopEnd[8] = depth + src + trg - 2
  BY DEF LoopStart, LoopEnd

\* The region of a cell tells which of its coordinates are zero, and no more.
LEMMA RegionTellsZeros ==
  ASSUME NEW c \in Cells
  PROVE  /\ RegionOf(c) \in 1..8 /\ Plane(c) \in Nat
         /\ c[1] > 0 <=> RegionOf(c) \in 5..8
         /\ c[2] > 0 <=> RegionOf(c) \in {2, 4, 6, 8}
         /\ c[3] > 0 <=> RegionOf(c) \in {3, 4, 7, 8}
<1>1. c[1] \in Nat /\ c[2] \in Nat /\ c[3] \in Nat
  BY CellOfCells
<1> QED
  BY <1>1 DEF RegionOf, Plane, Positive

\* A launch is one hyperplane of its region, all of it.
LEMMA HyperplaneIsPlane ==
  ASSUME Shape, NEW r, NEW m, Visited(r, m)
  PROVE  HyperplaneOf(r, m) = {c \in Cells : RegionOf(c) = r /\ Plane(c) = m}
<1> DEFINE plane == {c \in Cells : RegionOf(c) = r /\ Plane(c) = m}
<1>0. /\ depth \in Nat \ {0} /\ src \in Nat \ {0} /\ trg \in Nat \ {0}
      /\ m \in Int /\ r \in 1..8
  BY DEF Shape, Visited
<1>1. ASSUME NEW c \in plane
      PROVE  /\ c[1] \in 0..depth - 1 /\ c[2] \in 0..src - 1 /\ c[3] \in 0..trg - 1
             /\ c = <<c[1], c[2], c[3]>> /\ c[1] + c[2] + c[3] = m
             /\ c[1] > 0 <=> r \in 5..8
             /\ c[2] > 0 <=> r \in {2, 4, 6, 8}
             /\ c[3] > 0 <=> r \in {3, 4, 7, 8}
  BY CellOfCells, RegionTellsZeros DEF Plane
<1>2. ASSUME NEW d \in 0..depth - 1, NEW i \in 0..src - 1, NEW j \in 0..trg - 1,
             d + i + j = m,
             r = 1 + 4 * Positive(d) + Positive(i) + 2 * Positive(j)
      PROVE  <<d, i, j>> \in plane
  BY <1>2 DEF Cells, RegionOf, Plane
<1> HIDE DEF plane
<1>3. CASE r = 1
  <2>1. m = 0
    BY <1>3, LoopRanges DEF Visited
  <2>2. HyperplaneOf(r, m) = {<<0, 0, 0>>}
    BY <1>3 DEF HyperplaneOf
  <2>3. <<0, 0, 0>> \in plane
    BY <1>0, <1>2, <1>3, <2>1 DEF Positive
  <2>4. ASSUME NEW c \in plane PROVE c = <<0, 0, 0>>
    BY <1>1, <1>3, <2>1
  <2> QED
    BY <2>2, <2>3, <2>4 DEF plane
<1>4. CASE r = 2
  <2>1. m \in 1..src - 1
    BY <1>0, <1>4, LoopRanges DEF Visited
  <2>2. HyperplaneOf(r, m) = {<<0, m, 0>>}
    BY <1>4 DEF HyperplaneOf
  <2>3. <<0, m, 0>> \in plane
    BY <1>0, <1>2, <1>4, <2>1 DEF Positive
  <2>4. ASSUME NEW c \in plane PROVE c = <<0, m, 0>>
    BY <1>1, <1>4, <2>1
  <2> QED
    BY <2>2, <2>3, <2>4 DEF plane
<1>5. CASE r = 3
  <2>1. m \in 1..trg - 1
    BY <1>0, <1>5, LoopRanges DEF Visited
  <2>2. HyperplaneOf(r, m) = {<<0, 0, m>>}
    BY <1>5 DEF HyperplaneOf
  <2>3. <<0, 0, m>> \in plane
    BY <1>0, <1>2, <1>5, <2>1 DEF Positive
  <2>4. ASSUME NEW c \in plane PROVE c = <<0, 0, m>>
    BY <1>1, <1>5, <2>1
  <2> QED
    BY <2>2, <2>3, <2>4 DEF plane
<1>6. CASE r = 4
  <2>1. m \in 2..src + trg - 2
    BY <1>0, <1>6, LoopRanges DEF Visited
  <2>2. HyperplaneOf(r, m) = {<<0, p, m - p>> : p \in First(m, trg)..Last(m, src)}
    BY <1>6 DEF HyperplaneOf
  <2>3. ASSUME NEW p \in First(m, trg)..Last(m, src) PROVE <<0, p, m - p>> \in plane
    BY <1>0, <1>2, <1>6, <2>1 DEF First, Last, Larger, Smaller, Positive
  <2>4. ASSUME NEW c \in plane
        PROVE  c[2] \in First(m, trg)..Last(m, src) /\ c = <<0, c[2], m - c[2]>>
    BY <1>0, <1>1, <1>6, <2>1 DEF First, Last, Larger, Smaller
  <2> QED
    BY <2>2, <2>3, <2>4 DEF plane
<1>7. CASE r = 5
  <2>1. m \in 1..depth - 1
    BY <1>0, <1>7, LoopRanges DEF Visited
  <2>2. HyperplaneOf(r, m) = {<<m, 0, 0>>}
    BY <1>7 DEF HyperplaneOf
  <2>3. <<m, 0, 0>> \in plane
    BY <1>0, <1>2, <1>7, <2>1 DEF Positive
  <2>4. ASSUME NEW c \in plane PROVE c = <<m, 0, 0>>
    BY <1>1, <1>7, <2>1
  <2> QED
    BY <2>2, <2>3, <2>4 DEF plane
<1>8. CASE r = 6
  <2>1. m \in 2..depth + src - 2
    BY <1>0, <1>8, LoopRanges DEF Visited
  <2>2. HyperplaneOf(r, m) = {<<n, m - n, 0>> : n \in First(m, src)..Last(m, depth)}
    BY <1>8 DEF HyperplaneOf
  <2>3. ASSUME NEW n \in First(m, src)..Last(m, depth) PROVE <<n, m - n, 0>> \in plane
    BY <1>0, <1>2, <1>8, <2>1 DEF First, Last, Larger, Smaller, Positive
  <2>4. ASSUME NEW c \in plane
        PROVE  c[1] \in First(m, src)..Last(m, depth) /\ c = <<c[1], m - c[1], 0>>
    BY <1>0, <1>1, <1>8, <2>1 DEF First, Last, Larger, Smaller
  <2> QED
    BY <2>2, <2>3, <2>4 DEF plane
<1>9. CASE r = 7
  <2>1. m \in 2..depth + trg - 2
    BY <1>0, <1>9, LoopRanges DEF Visited
  <2>2. HyperplaneOf(r, m) = {<<p, 0, m - p>> : p \in First(m, trg)..Last(m, depth)}
    BY <1>9 DEF HyperplaneOf
  <2>3. ASSUME NEW p \in First(m, trg)..Last(m, depth) PROVE <<p, 0, m - p>> \in plane
    BY <1>0, <1>2, <1>9, <2>1 DEF First, Last, Larger, Smaller, Positive
  <2>4. ASSUME NEW c \in plane
        PROVE  c[1] \in First(m, trg)..Last(m, depth) /\ c = <<c[1], 0, m - c[1]>>
    BY <1>0, <1>1, <1>9, <2>1 DEF First, Last, Larger, Smaller
  <2> QED
    BY <2>2, <2>3, <2>4 DEF plane
<1>10. CASE r = 8
  <2> DEFINE row(n) == {<<n, p, m - n - p>> : p \in First(m - n, trg)..Last(m - n, src)}
  <2>1. m \in 3..depth + src + trg - 3
    BY <1>0, <1>10, LoopRanges DEF Visited
  <2>2. HyperplaneOf(r, m) = UNION {row(n) : n \in LayersOf8(m)}
    BY <1>10 DEF HyperplaneOf
  <2>3. ASSUME NEW n \in LayersOf8(m), NEW p \in First(m - n, trg)..Last(m - n, src)
        PROVE  <<n, p, m - n - p>> \in plane
    <3>1. /\ n \in 1..depth - 1 /\ p \in 1..src - 1 /\ m - n - p \in 1..trg - 1
      BY <1>0, <2>1, <2>3 DEF LayersOf8, First, Last, Larger, Smaller
    <3> QED
      BY <1>0, <1>2, <1>10, <3>1 DEF Positive
  <2>4. ASSUME NEW c \in plane
        PROVE  /\ c[1] \in LayersOf8(m)
               /\ c[2] \in First(m - c[1], trg)..Last(m - c[1], src)
               /\ c = <<c[1], c[2], m - c[1] - c[2]>>
    <3>1. /\ c[1] \in 1..depth - 1 /\ c[2] \in 1..src - 1 /\ c[3] \in 1..trg - 1
          /\ c[3] = m - c[1] - c[2] /\ c = <<c[1], c[2], c[3]>>
      BY <1>0, <1>1, <1>10, <2>1
    <3> QED
      BY <1>0, <2>1, <3>1 DEF LayersOf8, First, Last, Larger, Smaller
  <2>5. ASSUME NEW c \in plane
        PROVE  c \in HyperplaneOf(r, m)
    <3>1. c[1] \in LayersOf8(m) /\ c \in row(c[1])
      BY <2>4
    <3> QED
      BY <2>2, <3>1
  <2>6. ASSUME NEW c \in HyperplaneOf(r, m)
        PROVE  c \in plane
    <3>1. PICK n \in LayersOf8(m) : c \in row(n)
      BY <2>2, <2>6
    <3> QED
      BY <2>3, <3>1
  <2> QED
    BY <2>5, <2>6 DEF plane
<1> QED
  BY <1>0, <1>3, <1>4, <1>5, <1>6, <1>7, <1>8, <1>9, <1>10

\* The companions of a cell are the cells of its region in its hyperplane.
LEMMA CompanionsShare ==
  ASSUME NEW c \in Cells
  PROVE  Companions(c) = {e \in Cells : RegionOf(e) = RegionOf(c) /\ Plane(e) = Plane(c)}
<1>1. ASSUME NEW e \in Cells
      PROVE  (\A n \in 1..3 : e[n] = 0 <=> c[n] = 0) <=> RegionOf(e) = RegionOf(c)
  <2>1. /\ e[1] \in Nat /\ e[2] \in Nat /\ e[3] \in Nat
        /\ c[1] \in Nat /\ c[2] \in Nat /\ c[3] \in Nat
    BY CellOfCells
  <2>2. (\A n \in 1..3 : e[n] = 0 <=> c[n] = 0)
          <=> /\ e[1] = 0 <=> c[1] = 0
              /\ e[2] = 0 <=> c[2] = 0
              /\ e[3] = 0 <=> c[3] = 0
    <3>1. \A n \in 1..3 : n = 1 \/ n = 2 \/ n = 3
      OBVIOUS
    <3> QED
      BY <3>1
  <2> QED
    BY <2>1, <2>2 DEF RegionOf, Positive
<1> QED
  BY <1>1 DEF Companions, Plane

\* A launch has as many cells as there are indices in its range.
LEMMA SizeOfImage ==
  ASSUME NEW a \in Int, NEW b \in Int, a <= b, NEW T, NEW f \in Bijection(a..b, T)
  PROVE  Cardinality(T) = b - a + 1
<1>1. IsFiniteSet(a..b) /\ Cardinality(a..b) = b - a + 1
  BY FS_Interval
<1>2. ExistsBijection(a..b, T)
  BY DEF ExistsBijection
<1> QED
  BY <1>1, <1>2, FS_Bijection

\* No CHECK_LE of CreateFrom can fail: the windows into xss, yss, ws, us and bs
\* lie inside their tensors.
LEMMA WindowsAreInside ==
  ASSUME Shape, NEW r, NEW m, Visited(r, m)
  PROVE  WindowsFit(r, m, HyperplaneOf(r, m))
<1>0. /\ depth \in Nat \ {0} /\ src \in Nat \ {0} /\ trg \in Nat \ {0}
      /\ m \in Int /\ r \in 1..8
  BY DEF Shape, Visited
<1>1. CASE r = 4
  <2> DEFINE a == First(m, trg)
             b == Last(m, src)
             f == [p \in a..b |-> <<0, p, m - p>>]
  <2>1. m \in 2..src + trg - 2 /\ src > 1 /\ trg > 1
    BY <1>0, <1>1, LoopRanges DEF Visited, ReturnsAtOnce
  <2>2. /\ a \in Int /\ b \in Int /\ a <= b
        /\ b + 1 <= src /\ m - a <= trg
    BY <1>0, <2>1 DEF First, Last, Larger, Smaller
  <2>3. HyperplaneOf(r, m) = {<<0, p, m - p>> : p \in a..b}
    BY <1>1 DEF HyperplaneOf
  <2> HIDE DEF a, b
  <2>4. f \in Bijection(a..b, HyperplaneOf(r, m))
    BY <2>3 DEF Bijection, Injection, Surjection, IsInjective
  <2>5. Cardinality(HyperplaneOf(r, m)) = b - a + 1
    BY <2>2, <2>4, SizeOfImage
  <2>6. a + (b - a + 1) <= src /\ m - (b + 1) + (b - a + 1) <= trg
    BY <1>0, <2>2
  <2> QED
    BY <1>1, <2>5, <2>6 DEF WindowsFit, a, b
<1>2. CASE r = 6
  <2> DEFINE a == First(m, src)
             b == Last(m, depth)
             f == [n \in a..b |-> <<n, m - n, 0>>]
  <2>1. m \in 2..depth + src - 2 /\ depth > 1 /\ src > 1
    BY <1>0, <1>2, LoopRanges DEF Visited, ReturnsAtOnce
  <2>2. a \in Int /\ b \in Int /\ a <= b /\ b + 1 <= depth
    BY <1>0, <2>1 DEF First, Last, Larger, Smaller
  <2>3. HyperplaneOf(r, m) = {<<n, m - n, 0>> : n \in a..b}
    BY <1>2 DEF HyperplaneOf
  <2> HIDE DEF a, b
  <2>4. f \in Bijection(a..b, HyperplaneOf(r, m))
    BY <2>3 DEF Bijection, Injection, Surjection, IsInjective
  <2>5. Cardinality(HyperplaneOf(r, m)) = b - a + 1
    BY <2>2, <2>4, SizeOfImage
  <2>6. a + (b - a + 1) <= depth
    BY <1>0, <2>2
  <2> QED
    BY <1>2, <2>5, <2>6 DEF WindowsFit, a
<1>3. CASE r = 7
  <2> DEFINE a == First(m, trg)
             b == Last(m, depth)
             f == [p \in a..b |-> <<p, 0, m - p>>]
  <2>1. m \in 2..depth + trg - 2 /\ depth > 1 /\ trg > 1
    BY <1>0, <1>3, LoopRanges DEF Visited, ReturnsAtOnce
  <2>2. a \in Int /\ b \in Int /\ a <= b /\ b + 1 <= depth
    BY <1>0, <2>1 DEF First, Last, Larger, Smaller
  <2>3. HyperplaneOf(r, m) = {<<p, 0, m - p>> : p \in a..b}
    BY <1>3 DEF HyperplaneOf
  <2> HIDE DEF a, b
  <2>4. f \in Bijection(a..b, HyperplaneOf(r, m))
    BY <2>3 DEF Bijection, Injection, Surjection, IsInjective
  <2>5. Cardinality(HyperplaneOf(r, m)) = b - a + 1
    BY <2>2, <2>4, SizeOfImage
  <2>6. a + (b - a + 1) <= depth
    BY <1>0, <2>2
  <2> QED
    BY <1>3, <2>5, <2>6 DEF WindowsFit, a
<1> QED
  BY <1>1, <1>2, <1>3 DEF WindowsFit

\* The kernel of a launch computes exactly the outputs that Computed names.
LEMMA ComputesComputed ==
  ASSUME Shape, NEW r, NEW m, Visited(r, m), NEW c \in HyperplaneOf(r, m)
  PROVE  Computes(BatchCount(r, HyperplaneOf(r, m))) <=> Computed(c)
<1> DEFINE cells == HyperplaneOf(r, m)
<1>0. cells = {e \in Cells : RegionOf(e) = r /\ Plane(e) = m}
  BY HyperplaneIsPlane
<1>1. c \in Cells /\ RegionOf(c) = r /\ cells = Companions(c) /\ r \in 1..8
  BY <1>0, CompanionsShare DEF Visited
<1>2. c[1] > 0 <=> r \in 5..8
  BY <1>1, RegionTellsZeros
<1>3. Cardinality(cells) \in Nat \ {0}
  <2>1. cells \subseteq Cells
    BY <1>1 DEF Companions
  <2>2. IsFiniteSet(cells)
    BY <2>1, CellsAreFinite, FS_Subset
  <2> QED
    BY <1>1, <2>2, FS_CardinalityType, FS_EmptySet
<1>4. CASE r \in 1..4
  BY <1>1, <1>2, <1>4 DEF Computed, Computes, BatchCount
<1>5. CASE r = 5
  <2>1. cells = {<<m, 0, 0>>}
    BY <1>5 DEF HyperplaneOf
  <2>2. Cardinality(cells) = 1
    BY <2>1, FS_Singleton
  <2> QED
    BY <1>1, <1>5, <2>2 DEF Computed, Computes, BatchCount
<1>6. CASE r \in 6..8
  <2>1. BatchCount(r, cells) = Cardinality(cells)
    BY <1>6 DEF BatchCount
  <2> QED
    BY <1>1, <1>2, <1>3, <1>6, <2>1 DEF Computed, Computes
<1> QED
  BY <1>1, <1>4, <1>5, <1>6

-----------------------------------------------------------------------------
(***************************************************************************)
(* The steps.                                                              *)
(***************************************************************************)

\* A call does not change its shape, and what only depends on it stays.
LEMMA ShapeStays ==
  ASSUME UNCHANGED shape
  PROVE  /\ Shape <=> Shape'
         /\ Cells' = Cells
         /\ \A c, k : Slab(c, k)' = Slab(c, k)
         /\ \A c : Companions(c)' = Companions(c)
         /\ \A c : Computed(c)' <=> Computed(c)
         /\ LoopEnd' = LoopEnd
         /\ \A r : ReturnsAtOnce(r)' <=> ReturnsAtOnce(r)
<1>1. UNCHANGED <<depth, src, trg>>
  BY DEF shape
<1>2. Cells' = Cells
  BY <1>1 DEF Cells
<1>3. \A c : Companions(c)' = Companions(c)
  BY <1>2 DEF Companions
<1>4. \A c : Computed(c)' <=> Computed(c)
  BY <1>3 DEF Computed
<1>5. /\ \A c, k : Slab(c, k)' = Slab(c, k)
      /\ LoopEnd' = LoopEnd /\ (Shape <=> Shape')
      /\ \A r : ReturnsAtOnce(r)' <=> ReturnsAtOnce(r)
  BY <1>1 DEF Slab, LoopEnd, Shape, ReturnsAtOnce
<1> QED
  BY <1>2, <1>3, <1>4, <1>5

\* What a launch is: it never aborts, and walks one hyperplane.
LEMMA LaunchEffect ==
  ASSUME LoopInv, NEW r \in 1..8, NEW stored, Launch(r, stored)
  PROVE  LET cells == HyperplaneOf(r, step) IN
         /\ Shape /\ Visited(r, step) /\ region = r /\ status = "ok"
         /\ cells = {c \in Cells : RegionOf(c) = r /\ Plane(c) = step}
         /\ hsss' = stored
         /\ launched' = [c \in Cells |-> launched[c] + IF c \in cells THEN 1 ELSE 0]
         /\ operands' = UNION {OperandsOf(r, step, c, BatchCount(r, cells)) : c \in cells}
         /\ step' = step + 1 /\ UNCHANGED <<shape, region, status>>
         /\ \A c \in Cells : Walked(c)' <=> Walked(c) \/ c \in cells
         /\ \A c \in cells : ~Walked(c)
<1>1. Shape /\ Visited(r, step) /\ region = r /\ status = "ok"
  BY DEF Launch, Running, LoopInv, Shape, Visited
<1>2. HyperplaneOf(r, step) = {c \in Cells : RegionOf(c) = r /\ Plane(c) = step}
  BY <1>1, HyperplaneIsPlane
<1>3. WindowsFit(r, step, HyperplaneOf(r, step))
  BY <1>1, WindowsAreInside
<1>4. step' = step + 1 /\ UNCHANGED <<shape, region, status>>
  BY <1>3 DEF Launch
<1>5. ASSUME NEW c \in Cells
      PROVE  Walked(c)' <=> Walked(c) \/ (RegionOf(c) = r /\ Plane(c) = step)
  <2>1. RegionOf(c) \in 1..8 /\ Plane(c) \in Nat /\ step \in Nat
    BY RegionTellsZeros DEF LoopInv
  <2> QED
    BY <1>1, <1>4, <2>1 DEF Walked
<1>6. ASSUME NEW c \in Cells, RegionOf(c) = r, Plane(c) = step
      PROVE  ~Walked(c)
  <2>1. step \in Nat
    BY DEF LoopInv
  <2> QED
    BY <1>1, <1>6, <2>1 DEF Walked
<1> QED
  BY <1>1, <1>2, <1>3, <1>4, <1>5, <1>6 DEF Launch

\* The loop and the count of launches, in any region.
LEMMA LaunchStep ==
  ASSUME LoopInv, LaunchedInv, NEW r \in 1..8, NEW stored, Launch(r, stored)
  PROVE  LoopInv' /\ LaunchedInv'
<1> DEFINE cells == HyperplaneOf(r, step)
<1>1. /\ Visited(r, step) /\ region = r /\ status = "ok"
      /\ launched' = [c \in Cells |-> launched[c] + IF c \in cells THEN 1 ELSE 0]
      /\ step' = step + 1 /\ UNCHANGED <<shape, region, status>>
      /\ \A c \in Cells : Walked(c)' <=> Walked(c) \/ c \in cells
      /\ \A c \in cells : ~Walked(c)
  BY LaunchEffect
<1>2. LoopInv'
  <2>1. LoopStart[r] \in Nat
    BY LoopRanges
  <2> QED
    BY <1>1, <2>1, ShapeStays DEF LoopInv, shape, LoopStart
<1>3. LaunchedInv'
  <2> HIDE DEF cells
  <2>1. ASSUME NEW c \in Cells
        PROVE  launched'[c] = IF Walked(c)' THEN 1 ELSE 0
    <3>1. launched[c] = IF Walked(c) THEN 1 ELSE 0
      BY DEF LaunchedInv
    <3> QED
      BY <1>1, <3>1
  <2>2. launched' = [c \in Cells |-> IF Walked(c)' THEN 1 ELSE 0]
    BY <1>1, <2>1
  <2> QED
    BY <1>1, <2>2, ShapeStays DEF LaunchedInv
<1> QED
  BY <1>2, <1>3

\* Regions of one cell leave hsss as it is: Elementwise_Vanilla returns early.
LEMMA SingleHolds ==
  ASSUME IInv, NEW r \in {1, 2, 3, 5}, Single(r)
  PROVE  HeldInv'
<1> DEFINE cells == HyperplaneOf(r, step)
<1>0. LoopInv /\ HeldInv /\ r \in 1..8
  BY DEF IInv
<1>1. Launch(r, hsss)
  BY DEF Single, StoreViews, Computes
<1>2. /\ Shape /\ Visited(r, step) /\ hsss' = hsss /\ UNCHANGED shape
      /\ \A c \in Cells : Walked(c)' <=> Walked(c) \/ c \in cells
      /\ \A c \in cells : ~Walked(c)
  BY <1>0, <1>1, LaunchEffect
<1>3. \A c \in cells : ~Computed(c)
  <2>1. BatchCount(r, cells) = 1
    BY DEF BatchCount
  <2> QED
    BY <1>2, <2>1, ComputesComputed DEF Computes
<1> HIDE DEF cells
<1>4. ASSUME NEW c \in Cells, NEW k \in {0, 1}
      PROVE  LET held == hsss'[Slab(c, k)] IN
             /\ ~Walked(c)' => held = <<>>
             /\ Walked(c)' /\ Computed(c) => held = <<Output(c, k)>>
             /\ Walked(c)' /\ ~Computed(c) => held \in {<<>>, <<Zero>>}
  BY <1>0, <1>2, <1>3 DEF HeldInv
<1> QED
  BY <1>2, <1>4, ShapeStays DEF HeldInv

\* The others add the outputs of their cells to the slabs of these cells.
LEMMA GatheredHolds ==
  ASSUME IInv, NEW r \in {4, 6, 7, 8}, Gathered(r)
  PROVE  HeldInv'
<1> DEFINE cells == HyperplaneOf(r, step)
           n     == BatchCount(r, cells)
           hit(a) == {e \in cells \X {0, 1} : Slab(e[1], e[2]) = a}
<1>0. LoopInv /\ HeldInv /\ r \in 1..8
  BY DEF IInv
<1>1. Launch(r, ScatterAdd(cells, n))
  BY DEF Gathered
<1>2. /\ Shape /\ Visited(r, step) /\ hsss' = ScatterAdd(cells, n) /\ UNCHANGED shape
      /\ cells = {c \in Cells : RegionOf(c) = r /\ Plane(c) = step}
      /\ \A c \in Cells : Walked(c)' <=> Walked(c) \/ c \in cells
      /\ \A c \in cells : ~Walked(c)
  BY <1>0, <1>1, LaunchEffect
<1>3. \A c \in cells : Computes(n) <=> Computed(c)
  BY <1>2, ComputesComputed
<1> HIDE DEF cells, n
<1>4. ASSUME NEW c \in Cells, NEW k \in {0, 1}
      PROVE  hsss'[Slab(c, k)] =
               IF c \in cells
               THEN Append(hsss[Slab(c, k)], IF Computes(n) THEN Output(c, k) ELSE Zero)
               ELSE hsss[Slab(c, k)]
  <2> DEFINE a == Slab(c, k)
  <2>1. a \in Slabs
    BY <1>2, SlabOfCell
  <2>2. ASSUME NEW e \in hit(a)
        PROVE  e = <<c, k>> /\ c \in cells
    <3>1. PICK d \in cells, l \in {0, 1} : e = <<d, l>> /\ Slab(d, l) = a
      BY <2>2
    <3>2. d \in Cells
      BY <1>2
    <3> QED
      BY <1>2, <3>1, <3>2, SlabsAreDistinct
  <2>3. CASE c \in cells
    <3>1. <<c, k>> \in hit(a)
      BY <2>3
    <3>2. (CHOOSE e \in hit(a) : TRUE) = <<c, k>> /\ hit(a) # {}
      BY <2>2, <3>1
    <3> QED
      BY <1>2, <2>1, <2>3, <3>2 DEF ScatterAdd
  <2>4. CASE c \notin cells
    <3>1. hit(a) = {}
      BY <2>2, <2>4
    <3> QED
      BY <1>2, <2>1, <2>4, <3>1 DEF ScatterAdd
  <2> QED
    BY <2>3, <2>4
<1>5. ASSUME NEW c \in Cells, NEW k \in {0, 1}
      PROVE  LET held == hsss'[Slab(c, k)] IN
             /\ ~Walked(c)' => held = <<>>
             /\ Walked(c)' /\ Computed(c) => held = <<Output(c, k)>>
             /\ Walked(c)' /\ ~Computed(c) => held \in {<<>>, <<Zero>>}
  <2>1. CASE c \in cells
    <3>1. Walked(c)' /\ hsss[Slab(c, k)] = <<>>
      BY <1>0, <1>2, <2>1 DEF HeldInv
    <3>2. \A x : Append(<<>>, x) = <<x>>
      OBVIOUS
    <3>3. hsss'[Slab(c, k)] = <<IF Computes(n) THEN Output(c, k) ELSE Zero>>
      BY <1>4, <2>1, <3>1, <3>2
    <3> QED
      BY <1>3, <2>1, <3>1, <3>3
  <2>2. CASE c \notin cells
    BY <1>0, <1>2, <1>4, <2>2 DEF HeldInv
  <2> QED
    BY <2>1, <2>2
<1> QED
  BY <1>2, <1>5, ShapeStays DEF HeldInv

\* A region that is finished has walked all of its cells, and the next one has
\* walked none.
LEMMA NextRegionWalks ==
  ASSUME LoopInv, NextRegion, NEW c \in Cells
  PROVE  Walked(c)' <=> Walked(c)
<1>1. /\ RegionOf(c) \in 1..8 /\ Plane(c) \in Nat /\ step \in Nat /\ region \in 1..8
      /\ c[1] \in 0..depth - 1 /\ c[2] \in 0..src - 1 /\ c[3] \in 0..trg - 1
  BY RegionTellsZeros, CellOfCells DEF LoopInv
<1>2. /\ c[1] > 0 <=> RegionOf(c) \in 5..8
      /\ c[2] > 0 <=> RegionOf(c) \in {2, 4, 6, 8}
      /\ c[3] > 0 <=> RegionOf(c) \in {3, 4, 7, 8}
  BY RegionTellsZeros
<1>3. depth \in Nat /\ src \in Nat /\ trg \in Nat /\ Plane(c) = c[1] + c[2] + c[3]
  BY DEF LoopInv, Plane
<1>4. ASSUME RegionOf(c) = region
      PROVE  Plane(c) < step
  <2>1. ~ReturnsAtOnce(region)
    BY <1>1, <1>2, <1>3, <1>4 DEF ReturnsAtOnce
  <2>2. step >= LoopEnd[region]
    BY <2>1 DEF NextRegion
  <2>3. Plane(c) < LoopEnd[region]
    BY <1>1, <1>2, <1>3, <1>4, LoopRanges
  <2>4. LoopEnd[region] \in Int
    BY <1>1, <1>3, LoopRanges
  <2> QED
    BY <1>1, <2>2, <2>3, <2>4
<1>5. ASSUME RegionOf(c) = region + 1
      PROVE  ~(Plane(c) < LoopStart[region + 1])
  BY <1>1, <1>2, <1>3, <1>5, LoopRanges
<1>6. CASE region = 8
  BY <1>6 DEF NextRegion, Walked
<1>7. CASE region # 8
  <2>1. region' = region + 1 /\ step' = LoopStart[region + 1]
    BY <1>7 DEF NextRegion
  <2> QED
    BY <1>1, <1>4, <1>5, <2>1 DEF Walked
<1> QED
  BY <1>6, <1>7

LEMMA NextRegionStep ==
  ASSUME IInv, NextRegion
  PROVE  IInv'
<1>0. LoopInv /\ LaunchedInv /\ HeldInv
  BY DEF IInv
<1>1. UNCHANGED <<shape, hsss, launched>> /\ UNCHANGED <<depth, src, trg>>
  BY DEF NextRegion, shape
<1>2. LoopInv'
  <2>1. CASE region = 8
    <3>1. UNCHANGED <<region, step>> /\ status' = "done"
      BY <2>1 DEF NextRegion
    <3>2. ReturnsAtOnce(8) \/ step >= LoopEnd[8]
      BY <2>1 DEF NextRegion
    <3>3. (ReturnsAtOnce(8) \/ step >= LoopEnd[8])'
      BY <1>1, <3>1, <3>2, ShapeStays
    <3> QED
      BY <1>0, <1>1, <2>1, <3>1, <3>3 DEF LoopInv, LoopStart
  <2>2. CASE region # 8
    <3>1. region' = region + 1 /\ step' = LoopStart[region + 1] /\ status' = "ok"
      BY <2>2 DEF NextRegion
    <3>2. region + 1 \in 1..8
      BY <1>0, <2>2 DEF LoopInv
    <3>3. LoopStart[region + 1] \in Nat
      BY <3>2, LoopRanges
    <3> QED
      BY <1>0, <1>1, <3>1, <3>2, <3>3 DEF LoopInv, LoopStart
  <2> QED
    BY <2>1, <2>2
<1>3. \A c \in Cells : Walked(c)' <=> Walked(c)
  BY <1>0, NextRegionWalks
<1>4. LaunchedInv'
  <2>1. launched' = [c \in Cells |-> IF Walked(c)' THEN 1 ELSE 0]
    BY <1>0, <1>1, <1>3 DEF LaunchedInv
  <2> QED
    BY <1>1, <2>1, ShapeStays DEF LaunchedInv
<1>5. HeldInv'
  BY <1>0, <1>1, <1>3, ShapeStays DEF HeldInv
<1> QED
  BY <1>2, <1>4, <1>5 DEF IInv

\* Every step keeps the invariant.
LEMMA StepInv ==
  ASSUME IInv, Next
  PROVE  IInv'
<1>0. LoopInv /\ LaunchedInv
  BY DEF IInv
<1>1. ASSUME NEW r \in {1, 2, 3, 5}, Single(r)
      PROVE  IInv'
  <2>1. LoopInv' /\ LaunchedInv'
    BY <1>0, <1>1, LaunchStep DEF Single
  <2> QED
    BY <1>1, <2>1, SingleHolds DEF IInv
<1>2. ASSUME NEW r \in {4, 6, 7, 8}, Gathered(r)
      PROVE  IInv'
  <2>1. LoopInv' /\ LaunchedInv'
    BY <1>0, <1>2, LaunchStep DEF Gathered
  <2> QED
    BY <1>2, <2>1, GatheredHolds DEF IInv
<1> QED
  BY <1>1, <1>2, NextRegionStep
  DEF Next, Region1, Region2, Region3, Region4, Region5, Region6, Region7, Region8

LEMMA StutterInv ==
  ASSUME IInv, UNCHANGED vars
  PROVE  IInv'
<1>1. UNCHANGED shape /\ UNCHANGED <<region, step, hsss, launched, status>>
  BY DEF vars, shape
<1>2. \A c : Walked(c)' <=> Walked(c)
  BY <1>1 DEF Walked
<1>3. LoopInv'
  BY <1>1, ShapeStays DEF IInv, LoopInv, shape, LoopStart
<1>4. LaunchedInv'
  BY <1>1, <1>2, ShapeStays DEF IInv, LaunchedInv
<1>5. HeldInv'
  BY <1>1, <1>2, ShapeStays DEF IInv, HeldInv
<1> QED
  BY <1>3, <1>4, <1>5 DEF IInv

LEMMA CallInv ==
  ASSUME NEW d \in Nat \ {0}, NEW s \in Nat \ {0}, NEW t \in Nat \ {0}, InitFor(d, s, t)
  PROVE  IInv
<1>1. LoopInv /\ Shape
  BY DEF InitFor, LoopInv, LoopStart, Shape
<1>2. \A c \in Cells : ~Walked(c)
  <2>1. ASSUME NEW c \in Cells PROVE ~Walked(c)
    <3>1. RegionOf(c) \in 1..8 /\ Plane(c) \in Nat
      BY RegionTellsZeros
    <3> QED
      BY <3>1 DEF Walked, InitFor
  <2> QED
    BY <2>1
<1>3. LaunchedInv
  BY <1>2 DEF LaunchedInv, InitFor
<1>4. \A c \in Cells, k \in {0, 1} : hsss[Slab(c, k)] = <<>>
  BY <1>1, SlabOfCell DEF InitFor
<1> QED
  BY <1>1, <1>2, <1>3, <1>4 DEF IInv, HeldInv

-----------------------------------------------------------------------------
(***************************************************************************)
(* What a launch is given.                                                 *)
(***************************************************************************)

\* The neighbours of a cell of the hyperplane that is launched next have been
\* launched.
LEMMA NeighboursWalked ==
  ASSUME LoopInv, LaunchedInv, NEW c \in Cells, RegionOf(c) = region, Plane(c) = step
  PROVE  /\ c[2] > 0 => launched[<<c[1], c[2] - 1, c[3]>>] = 1
         /\ c[3] > 0 => launched[<<c[1], c[2], c[3] - 1>>] = 1
         /\ c[1] > 0 => launched[<<c[1] - 1, c[2], c[3]>>] = 1
<1>1. /\ c[1] \in 0..depth - 1 /\ c[2] \in 0..src - 1 /\ c[3] \in 0..trg - 1
      /\ depth \in Nat /\ src \in Nat /\ trg \in Nat /\ step \in Nat /\ region \in 1..8
  BY CellOfCells DEF LoopInv
<1>2. ASSUME NEW e \in Cells, RegionOf(e) <= RegionOf(c), Plane(e) < Plane(c)
      PROVE  launched[e] = 1
  <2>1. RegionOf(e) \in 1..8 /\ Plane(e) \in Nat
    BY RegionTellsZeros
  <2>2. Walked(e)
    BY <1>1, <1>2, <2>1 DEF Walked
  <2> QED
    BY <2>2 DEF LaunchedInv
<1>3. ASSUME NEW d \in 0..depth - 1, NEW i \in 0..src - 1, NEW j \in 0..trg - 1,
             d <= c[1], i <= c[2], j <= c[3], d + i + j < c[1] + c[2] + c[3]
      PROVE  launched[<<d, i, j>>] = 1
  <2> DEFINE e == <<d, i, j>>
  <2>1. e \in Cells /\ e[1] = d /\ e[2] = i /\ e[3] = j
    BY NeighbourOfCells
  <2> HIDE DEF e
  <2>2. RegionOf(e) <= RegionOf(c) /\ Plane(e) < Plane(c)
    BY <1>1, <1>3, <2>1 DEF RegionOf, Positive, Plane
  <2> QED
    BY <1>2, <2>1, <2>2 DEF e
<1>4. c[2] > 0 => launched[<<c[1], c[2] - 1, c[3]>>] = 1
  BY <1>1, <1>3
<1>5. c[3] > 0 => launched[<<c[1], c[2], c[3] - 1>>] = 1
  BY <1>1, <1>3
<1>6. c[1] > 0 => launched[<<c[1] - 1, c[2], c[3]>>] = 1
  BY <1>1, <1>3
<1> QED
  BY <1>4, <1>5, <1>6

\* What is read in a role by the operands of S.
Reads(S, role) == {<<o.from, o.at>> : o \in {o \in S : o.role = role}}

LEMMA ReadsOfOne ==
  ASSUME NEW o
  PROVE  \A role : Reads({o}, role) = IF o.role = role THEN {<<o.from, o.at>>} ELSE {}
<1> SUFFICES ASSUME NEW role
             PROVE  Reads({o}, role) = IF o.role = role THEN {<<o.from, o.at>>} ELSE {}
  OBVIOUS
<1> DEFINE asks == {q \in {o} : q.role = role}
<1>1. Reads({o}, role) = {<<q.from, q.at>> : q \in asks}
  BY DEF Reads
<1>2. CASE o.role = role
  <2>1. asks = {o}
    BY <1>2
  <2> HIDE DEF asks
  <2>2. {<<q.from, q.at>> : q \in asks} = {<<o.from, o.at>>}
    BY <2>1
  <2> QED
    BY <1>1, <1>2, <2>2
<1>3. CASE o.role # role
  <2>1. asks = {}
    BY <1>3
  <2> HIDE DEF asks
  <2>2. {<<q.from, q.at>> : q \in asks} = {}
    BY <2>1
  <2> QED
    BY <1>1, <1>3, <2>2
<1> QED
  BY <1>2, <1>3

LEMMA ReadsOfUnion ==
  ASSUME NEW S, NEW T, NEW role
  PROVE  Reads(S \cup T, role) = Reads(S, role) \cup Reads(T, role)
  BY DEF Reads

LEMMA ReadsOfNone == \A role : Reads({}, role) = {}
  BY DEF Reads

LEMMA ReadsOfOptional ==
  ASSUME NEW given, NEW o, NEW S, S = IF given THEN {o} ELSE {}
  PROVE  \A role : Reads(S, role)
                     = IF given /\ o.role = role THEN {<<o.from, o.at>>} ELSE {}
<1>1. CASE given
  <2>1. S = {o}
    BY <1>1
  <2> QED
    BY <1>1, <2>1, ReadsOfOne
<1>2. CASE ~given
  <2>1. S = {}
    BY <1>2
  <2> QED
    BY <1>2, <2>1, ReadsOfNone
<1> QED
  BY <1>1, <1>2

\* The pair of inputs of a cell.
LEMMA ReadsOfInputs ==
  ASSUME NEW o, NEW q, o.role = "x", q.role = "y", NEW S, S = {o, q}
  PROVE  /\ Reads(S, "x") = {<<o.from, o.at>>} /\ Reads(S, "y") = {<<q.from, q.at>>}
         /\ \A role \in {"state_x", "state_y", "w", "u", "b"} : Reads(S, role) = {}
<1>1. S = {o} \cup {q}
  OBVIOUS
<1>2. \A role : Reads({o} \cup {q}, role) = Reads({o}, role) \cup Reads({q}, role)
  BY ReadsOfUnion
<1>3. \A role : Reads({o}, role) = IF o.role = role THEN {<<o.from, o.at>>} ELSE {}
  BY ReadsOfOne
<1>4. \A role : Reads({q}, role) = IF q.role = role THEN {<<q.from, q.at>>} ELSE {}
  BY ReadsOfOne
<1>5. \A role : Reads(S, role) = (IF "x" = role THEN {<<o.from, o.at>>} ELSE {})
                                  \cup (IF "y" = role THEN {<<q.from, q.at>>} ELSE {})
  BY <1>1, <1>2, <1>3, <1>4
<1> QED
  BY <1>5

LEMMA ReadsOfWeights ==
  ASSUME NEW r, NEW c, NEW n
  PROVE  /\ Reads(Weights(r, c, n), "w") = {<<"ws", c[1]>>}
         /\ Reads(Weights(r, c, n), "u") = {<<"us", c[1]>>}
         /\ Reads(Weights(r, c, n), "b") \subseteq {<<"bs", BiasRow(r, c)>>}
         /\ \A role \in {"state_x", "state_y", "x", "y"} : Reads(Weights(r, c, n), role) = {}
<1> DEFINE w == Operand("w", c, "ws", c[1])
           u == Operand("u", c, "us", c[1])
           b == Operand("b", c, "bs", BiasRow(r, c))
           C == IF Computes(n) THEN {b} ELSE {}
<1>1. /\ w.role = "w" /\ w.from = "ws" /\ w.at = c[1]
      /\ u.role = "u" /\ u.from = "us" /\ u.at = c[1]
      /\ b.role = "b" /\ b.from = "bs" /\ b.at = BiasRow(r, c)
  BY DEF Operand
<1>2. Weights(r, c, n) = ({w} \cup {u}) \cup C
  BY DEF Weights
<1> HIDE DEF w, u, b
<1>3. \A role : Reads({w}, role) = IF "w" = role THEN {<<"ws", c[1]>>} ELSE {}
  BY <1>1, ReadsOfOne
<1>4. \A role : Reads({u}, role) = IF "u" = role THEN {<<"us", c[1]>>} ELSE {}
  BY <1>1, ReadsOfOne
<1>5. \A role : Reads(C, role)
                  = IF Computes(n) /\ "b" = role THEN {<<"bs", BiasRow(r, c)>>} ELSE {}
  <2> DEFINE given == Computes(n)
  <2>1. C = IF given THEN {b} ELSE {}
    OBVIOUS
  <2> HIDE DEF C, given
  <2>2. \A role : Reads(C, role) = IF given /\ b.role = role THEN {<<b.from, b.at>>} ELSE {}
    BY <2>1, ReadsOfOptional
  <2> QED
    BY <1>1, <2>2 DEF given
<1> HIDE DEF C
<1>6. \A role : Reads(({w} \cup {u}) \cup C, role)
                  = Reads({w}, role) \cup Reads({u}, role) \cup Reads(C, role)
  <2>1. /\ \A role : Reads({w} \cup {u}, role) = Reads({w}, role) \cup Reads({u}, role)
        /\ \A role : Reads(({w} \cup {u}) \cup C, role)
                       = Reads({w} \cup {u}, role) \cup Reads(C, role)
    BY ReadsOfUnion
  <2> QED
    BY <2>1
<1>7. \A role : Reads(Weights(r, c, n), role)
                  = (IF "w" = role THEN {<<"ws", c[1]>>} ELSE {})
                    \cup (IF "u" = role THEN {<<"us", c[1]>>} ELSE {})
                    \cup (IF Computes(n) /\ "b" = role THEN {<<"bs", BiasRow(r, c)>>} ELSE {})
  BY <1>2, <1>3, <1>4, <1>5, <1>6
<1> QED
  BY <1>7

\* The row of yss that the window of region 4 gives cell c in iteration m. It
\* is a row of yss, if not the cell's own.
WindowRow(m, c) == m - (Last(m, src) + 1) + (c[2] - First(m, trg))

LEMMA WindowRowExists ==
  ASSUME Shape, NEW m \in Int, NEW c \in Cells, RegionOf(c) = 4, Plane(c) = m
  PROVE  WindowRow(m, c) \in 0..trg - 1
<1>1. /\ c[1] = 0 /\ c[2] \in 1..src - 1 /\ c[3] \in 1..trg - 1
  BY CellOfCells, RegionTellsZeros DEF Shape, Cells
<1>2. m = c[2] + c[3]
  BY <1>1 DEF Plane
<1>3. src \in Nat /\ trg \in Nat
  BY DEF Shape
<1> QED
  BY <1>1, <1>2, <1>3 DEF WindowRow, First, Last, Larger, Smaller

\* The operands of a cell, role by role.
LEMMA ReadsOfCell ==
  ASSUME NEW r \in 1..8, NEW m, NEW c, NEW n,
         NEW S, S = OperandsOf(r, m, c, n),
         c[2] \in Int, m \in Int, src \in Int, trg \in Int
  PROVE  /\ Reads(S, "state_x") = IF r \in {2, 4, 6, 8}
                                  THEN {<<"hsss", Slab(BeforeSource(c), 0)>>} ELSE {}
         /\ Reads(S, "state_y") = IF r \in {3, 4, 7, 8}
                                  THEN {<<"hsss", Slab(BeforeTarget(c), 1)>>} ELSE {}
         /\ Reads(S, "x") = IF r \in 5..8 THEN {<<"hsss", Slab(Below(c), 0)>>}
                                          ELSE {<<"xss", c[2]>>}
         /\ r \in 5..8 => Reads(S, "y") = {<<"hsss", Slab(Below(c), 1)>>}
         /\ r \in 1..3 => Reads(S, "y") = {<<"yss", c[3]>>}
         /\ r = 4 => Reads(S, "y") = {<<"yss", WindowRow(m, c)>>}
         /\ Reads(S, "w") = {<<"ws", c[1]>>} /\ Reads(S, "u") = {<<"us", c[1]>>}
         /\ Reads(S, "b") \subseteq {<<"bs", BiasRow(r, c)>>}
<1> DEFINE W == Weights(r, c, n)
           X == IF r \in {2, 4, 6, 8} THEN {StateX(c)} ELSE {}
           Y == IF r \in {3, 4, 7, 8} THEN {StateY(c)} ELSE {}
           I == CASE r \in 1..3 -> FromInputs(c)
                  [] r = 4      -> FromWindows(m, c)
                  [] r \in 5..8 -> FromBelow(c)
<1>1. /\ Reads(W, "w") = {<<"ws", c[1]>>} /\ Reads(W, "u") = {<<"us", c[1]>>}
      /\ Reads(W, "b") \subseteq {<<"bs", BiasRow(r, c)>>}
      /\ \A role \in {"state_x", "state_y", "x", "y"} : Reads(W, role) = {}
  BY ReadsOfWeights
<1>2. \A role : Reads(X, role) = IF r \in {2, 4, 6, 8} /\ "state_x" = role
                                 THEN {<<"hsss", Slab(BeforeSource(c), 0)>>} ELSE {}
  <2> DEFINE given == r \in {2, 4, 6, 8}
             o     == StateX(c)
  <2>1. o.role = "state_x" /\ o.from = "hsss" /\ o.at = Slab(BeforeSource(c), 0)
    BY DEF StateX, Operand
  <2>2. X = IF given THEN {o} ELSE {}
    OBVIOUS
  <2> HIDE DEF X, given, o
  <2>3. \A role : Reads(X, role) = IF given /\ o.role = role THEN {<<o.from, o.at>>} ELSE {}
    BY <2>2, ReadsOfOptional
  <2> QED
    BY <2>1, <2>3 DEF given
<1>3. \A role : Reads(Y, role) = IF r \in {3, 4, 7, 8} /\ "state_y" = role
                                 THEN {<<"hsss", Slab(BeforeTarget(c), 1)>>} ELSE {}
  <2> DEFINE given == r \in {3, 4, 7, 8}
             o     == StateY(c)
  <2>1. o.role = "state_y" /\ o.from = "hsss" /\ o.at = Slab(BeforeTarget(c), 1)
    BY DEF StateY, Operand
  <2>2. Y = IF given THEN {o} ELSE {}
    OBVIOUS
  <2> HIDE DEF Y, given, o
  <2>3. \A role : Reads(Y, role) = IF given /\ o.role = role THEN {<<o.from, o.at>>} ELSE {}
    BY <2>2, ReadsOfOptional
  <2> QED
    BY <2>1, <2>3 DEF given
<1>4. /\ \A role \in {"state_x", "state_y", "w", "u", "b"} : Reads(I, role) = {}
      /\ r \in 5..8 => /\ Reads(I, "x") = {<<"hsss", Slab(Below(c), 0)>>}
                       /\ Reads(I, "y") = {<<"hsss", Slab(Below(c), 1)>>}
      /\ r \in 1..3 => /\ Reads(I, "x") = {<<"xss", c[2]>>}
                       /\ Reads(I, "y") = {<<"yss", c[3]>>}
      /\ r = 4 => /\ Reads(I, "x") = {<<"xss", c[2]>>}
                  /\ Reads(I, "y") = {<<"yss", WindowRow(m, c)>>}
  <2>1. CASE r \in 5..8
    <3> DEFINE o == Operand("x", c, "hsss", Slab(Below(c), 0))
               q == Operand("y", c, "hsss", Slab(Below(c), 1))
    <3>1. I = {o, q}
      BY <2>1 DEF FromBelow
    <3>2. /\ o.role = "x" /\ o.from = "hsss" /\ o.at = Slab(Below(c), 0)
          /\ q.role = "y" /\ q.from = "hsss" /\ q.at = Slab(Below(c), 1)
      BY DEF Operand
    <3> HIDE DEF I, o, q
    <3>3. /\ Reads(I, "x") = {<<o.from, o.at>>} /\ Reads(I, "y") = {<<q.from, q.at>>}
          /\ \A role \in {"state_x", "state_y", "w", "u", "b"} : Reads(I, role) = {}
      BY <3>1, <3>2, ReadsOfInputs
    <3> QED
      BY <2>1, <3>2, <3>3
  <2>2. CASE r \in 1..3
    <3> DEFINE o == Operand("x", c, "xss", c[2])
               q == Operand("y", c, "yss", c[3])
    <3>1. I = {o, q}
      BY <2>2 DEF FromInputs
    <3>2. /\ o.role = "x" /\ o.from = "xss" /\ o.at = c[2]
          /\ q.role = "y" /\ q.from = "yss" /\ q.at = c[3]
      BY DEF Operand
    <3> HIDE DEF I, o, q
    <3>3. /\ Reads(I, "x") = {<<o.from, o.at>>} /\ Reads(I, "y") = {<<q.from, q.at>>}
          /\ \A role \in {"state_x", "state_y", "w", "u", "b"} : Reads(I, role) = {}
      BY <3>1, <3>2, ReadsOfInputs
    <3> QED
      BY <2>2, <3>2, <3>3
  <2>3. CASE r = 4
    <3> DEFINE o == Operand("x", c, "xss", c[2])
               q == Operand("y", c, "yss", WindowRow(m, c))
    <3>0. First(m, trg) + (c[2] - First(m, trg)) = c[2]
      BY DEF First, Larger
    <3>1. I = {o, q}
      BY <2>3, <3>0 DEF FromWindows, WindowRow
    <3>2. /\ o.role = "x" /\ o.from = "xss" /\ o.at = c[2]
          /\ q.role = "y" /\ q.from = "yss" /\ q.at = WindowRow(m, c)
      BY DEF Operand
    <3> HIDE DEF I, o, q
    <3>3. /\ Reads(I, "x") = {<<o.from, o.at>>} /\ Reads(I, "y") = {<<q.from, q.at>>}
          /\ \A role \in {"state_x", "state_y", "w", "u", "b"} : Reads(I, role) = {}
      BY <3>1, <3>2, ReadsOfInputs
    <3> QED
      BY <2>3, <3>2, <3>3
  <2> QED
    BY <2>1, <2>2, <2>3
<1>5. S = ((W \cup X) \cup Y) \cup I
  BY DEF OperandsOf
<1> HIDE DEF W, X, Y, I
<1>6. \A role : Reads(S, role)
                  = Reads(W, role) \cup Reads(X, role) \cup Reads(Y, role) \cup Reads(I, role)
  <2>1. /\ \A role : Reads(W \cup X, role) = Reads(W, role) \cup Reads(X, role)
        /\ \A role : Reads((W \cup X) \cup Y, role) = Reads(W \cup X, role) \cup Reads(Y, role)
        /\ \A role : Reads(S, role) = Reads((W \cup X) \cup Y, role) \cup Reads(I, role)
    BY <1>5, ReadsOfUnion
  <2> QED
    BY <2>1
<1> QED
  BY <1>1, <1>2, <1>3, <1>4, <1>6

\* All operands of a cell are its own.
LEMMA OperandsAreOwn ==
  ASSUME NEW r \in 1..8, NEW m, NEW c, NEW n, NEW o \in OperandsOf(r, m, c, n)
  PROVE  o.cell = c
<1>1. \A role, array, a : Operand(role, c, array, a).cell = c
  BY DEF Operand
<1>2. \A p \in Weights(r, c, n) : p.cell = c
  BY <1>1 DEF Weights
<1>3. StateX(c).cell = c /\ StateY(c).cell = c
  BY <1>1 DEF StateX, StateY
<1>4. \A p \in FromInputs(c) \cup FromWindows(m, c) \cup FromBelow(c) : p.cell = c
  BY <1>1 DEF FromInputs, FromWindows, FromBelow
<1> QED
  BY <1>2, <1>3, <1>4 DEF OperandsOf

\* A launch gives every one of its cells what README.md says.
LEMMA LaunchFinds ==
  ASSUME IInv, NEW r \in 1..8, NEW stored, Launch(r, stored)
  PROVE  FindsNeighbours
<1> DEFINE cells == HyperplaneOf(r, step)
           n     == BatchCount(r, cells)
           now   == {c \in Cells : launched'[c] > launched[c]}
<1>0. LoopInv /\ LaunchedInv
  BY DEF IInv
<1>1. /\ Shape /\ Visited(r, step) /\ region = r
      /\ cells = {c \in Cells : RegionOf(c) = r /\ Plane(c) = step}
      /\ launched' = [c \in Cells |-> launched[c] + IF c \in cells THEN 1 ELSE 0]
      /\ operands' = UNION {OperandsOf(r, step, c, n) : c \in cells}
  BY <1>0, LaunchEffect
<1>2. now = cells
  <2> HIDE DEF cells
  <2>1. \A c \in Cells : launched[c] \in {0, 1}
    BY <1>0 DEF LaunchedInv
  <2> QED
    BY <1>1, <2>1
<1> HIDE DEF cells, n
<1>3. ASSUME NEW c \in cells
      PROVE  LET d == c[1]  i == c[2]  j == c[3]
                 read(role) == {<<o.from, o.at>> : o \in {o \in operands' :
                                                          o.cell = c /\ o.role = role}}
                 output(x, y, z, k) == {<<"hsss", Slab(<<x, y, z>>, k)>>}
             IN
             /\ read("state_x") = IF i > 0 THEN output(d, i - 1, j, 0) ELSE {}
             /\ read("state_y") = IF j > 0 THEN output(d, i, j - 1, 1) ELSE {}
             /\ read("x") = IF d > 0 THEN output(d - 1, i, j, 0) ELSE {<<"xss", i>>}
             /\ d > 0 => read("y") = output(d - 1, i, j, 1)
             /\ d = 0 /\ (i = 0 \/ j = 0) => read("y") = {<<"yss", j>>}
             /\ d = 0 => \E row \in 0..trg - 1 : read("y") = {<<"yss", row>>}
             /\ read("w") = {<<"ws", d>>} /\ read("u") = {<<"us", d>>}
             /\ region < 8 => read("b") \subseteq {<<"bs", d * Batch>>}
             /\ region = 8 => read("b") \subseteq {<<"bs", row>> : row \in 1..depth - 1}
  <2> DEFINE S == OperandsOf(r, step, c, n)
             read(role) == {<<o.from, o.at>> : o \in {o \in operands' :
                                                      o.cell = c /\ o.role = role}}
  <2>1. c \in Cells /\ RegionOf(c) = r
    BY <1>1
  <2>2. {o \in operands' : o.cell = c} = S
    <3>1. ASSUME NEW o \in operands', o.cell = c PROVE o \in S
      <4>1. PICK e \in cells : o \in OperandsOf(r, step, e, n)
        BY <1>1
      <4>2. o.cell = e
        BY <4>1, OperandsAreOwn
      <4> QED
        BY <3>1, <4>1, <4>2
    <3>2. ASSUME NEW o \in S PROVE o \in operands' /\ o.cell = c
      BY <1>1, OperandsAreOwn
    <3> QED
      BY <3>1, <3>2
  <2>3. \A role : read(role) = Reads(S, role)
    BY <2>2 DEF Reads
  <2>4. c[2] \in Int /\ step \in Int /\ src \in Int /\ trg \in Int /\ c[1] \in Nat /\ c[3] \in Nat
    BY <1>0, <2>1, CellOfCells DEF LoopInv
  <2>5. S = OperandsOf(r, step, c, n)
    OBVIOUS
  <2> HIDE DEF S, read
  <2>6. /\ Reads(S, "state_x") = IF r \in {2, 4, 6, 8}
                                 THEN {<<"hsss", Slab(BeforeSource(c), 0)>>} ELSE {}
        /\ Reads(S, "state_y") = IF r \in {3, 4, 7, 8}
                                 THEN {<<"hsss", Slab(BeforeTarget(c), 1)>>} ELSE {}
        /\ Reads(S, "x") = IF r \in 5..8 THEN {<<"hsss", Slab(Below(c), 0)>>}
                                         ELSE {<<"xss", c[2]>>}
        /\ r \in 5..8 => Reads(S, "y") = {<<"hsss", Slab(Below(c), 1)>>}
        /\ r \in 1..3 => Reads(S, "y") = {<<"yss", c[3]>>}
        /\ r = 4 => Reads(S, "y") = {<<"yss", WindowRow(step, c)>>}
        /\ Reads(S, "w") = {<<"ws", c[1]>>} /\ Reads(S, "u") = {<<"us", c[1]>>}
        /\ Reads(S, "b") \subseteq {<<"bs", BiasRow(r, c)>>}
    BY <2>4, <2>5, ReadsOfCell
  <2>7. /\ c[1] > 0 <=> r \in 5..8
        /\ c[2] > 0 <=> r \in {2, 4, 6, 8}
        /\ c[3] > 0 <=> r \in {3, 4, 7, 8}
    BY <2>1, RegionTellsZeros
  <2>8. /\ BeforeSource(c) = <<c[1], c[2] - 1, c[3]>>
        /\ BeforeTarget(c) = <<c[1], c[2], c[3] - 1>>
        /\ Below(c) = <<c[1] - 1, c[2], c[3]>>
    BY DEF BeforeSource, BeforeTarget, Below
  <2>9. c[1] = 0 /\ (c[2] = 0 \/ c[3] = 0) => r \in 1..3
    BY <2>4, <2>7
  <2>10. region < 8 => BiasRow(r, c) = c[1] * Batch
    BY <1>1 DEF BiasRow
  <2>11. c[1] = 0 => \E row \in 0..trg - 1 : read("y") = {<<"yss", row>>}
    <3>1. CASE r \in 1..3
      <4>1. c[3] \in 0..trg - 1
        BY <2>1, CellOfCells
      <4> QED
        BY <2>3, <2>6, <3>1, <4>1
    <3>2. CASE r = 4
      <4>1. WindowRow(step, c) \in 0..trg - 1
        BY <1>1, <2>1, <2>4, <3>2, WindowRowExists
      <4> QED
        BY <2>3, <2>6, <3>2, <4>1
    <3> QED
      BY <2>4, <2>7, <3>1, <3>2
  <2>12. region = 8 => read("b") \subseteq {<<"bs", row>> : row \in 1..depth - 1}
    <3> SUFFICES ASSUME region = 8
                 PROVE  c[1] \in 1..depth - 1 /\ BiasRow(r, c) = c[1]
      BY <2>3, <2>6
    <3>1. c[1] \in 0..depth - 1
      BY <2>1, CellOfCells
    <3> QED
      BY <1>1, <2>4, <2>7, <3>1 DEF BiasRow
  <2>13. /\ read("state_x") = IF c[2] > 0
                              THEN {<<"hsss", Slab(<<c[1], c[2] - 1, c[3]>>, 0)>>} ELSE {}
         /\ read("state_y") = IF c[3] > 0
                              THEN {<<"hsss", Slab(<<c[1], c[2], c[3] - 1>>, 1)>>} ELSE {}
         /\ read("x") = IF c[1] > 0 THEN {<<"hsss", Slab(<<c[1] - 1, c[2], c[3]>>, 0)>>}
                                    ELSE {<<"xss", c[2]>>}
         /\ c[1] > 0 => read("y") = {<<"hsss", Slab(<<c[1] - 1, c[2], c[3]>>, 1)>>}
         /\ c[1] = 0 /\ (c[2] = 0 \/ c[3] = 0) => read("y") = {<<"yss", c[3]>>}
         /\ read("w") = {<<"ws", c[1]>>} /\ read("u") = {<<"us", c[1]>>}
         /\ region < 8 => read("b") \subseteq {<<"bs", c[1] * Batch>>}
    BY <2>3, <2>6, <2>7, <2>8, <2>9, <2>10
  <2> QED
    BY <2>11, <2>12, <2>13 DEF read
<1>4. ASSUME NEW c \in cells
      PROVE  /\ c[2] > 0 => launched[<<c[1], c[2] - 1, c[3]>>] = 1
             /\ c[3] > 0 => launched[<<c[1], c[2], c[3] - 1>>] = 1
             /\ c[1] > 0 => launched[<<c[1] - 1, c[2], c[3]>>] = 1
  BY <1>0, <1>1, NeighboursWalked
<1> QED
  BY <1>2, <1>3, <1>4 DEF FindsNeighbours

\* So does every step: one that is not a launch launches no cell.
LEMMA StepFinds ==
  ASSUME IInv, Next
  PROVE  FindsNeighbours
<1>1. CASE NextRegion
  <2>1. launched' = launched
    BY <1>1 DEF NextRegion
  <2>2. \A c \in Cells : launched[c] \in {0, 1}
    BY DEF IInv, LaunchedInv
  <2>3. {c \in Cells : launched'[c] > launched[c]} = {}
    BY <2>1, <2>2
  <2> QED
    BY <2>3 DEF FindsNeighbours
<1>2. ASSUME NEW r \in 1..8, Single(r) \/ Gathered(r)
      PROVE  FindsNeighbours
  BY <1>2, LaunchFinds DEF Single, Gathered
<1> QED
  BY <1>1, <1>2
  DEF Next, Region1, Region2, Region3, Region4, Region5, Region6, Region7, Region8

-----------------------------------------------------------------------------
(***************************************************************************)
(* The theorems.                                                           *)
(***************************************************************************)

\* The part of IInv that LaunchedOnce states.
LEMMA LaunchedOnceFollows ==
  ASSUME IInv
  PROVE  LaunchedOnce
<1>1. LoopInv /\ LaunchedInv /\ status # "abort"
  BY DEF IInv, LoopInv
<1>2. ASSUME NEW c \in Cells
      PROVE  launched[c] <= 1 /\ \A e \in Companions(c) : launched[e] = launched[c]
  <2>1. launched[c] \in {0, 1}
    BY <1>1 DEF LaunchedInv
  <2>2. ASSUME NEW e \in Companions(c)
        PROVE  launched[e] = launched[c]
    <3>1. e \in Cells /\ RegionOf(e) = RegionOf(c) /\ Plane(e) = Plane(c)
      BY CompanionsShare
    <3>2. Walked(e) <=> Walked(c)
      BY <3>1 DEF Walked
    <3> QED
      BY <1>1, <3>1, <3>2 DEF LaunchedInv
  <2> QED
    BY <2>1, <2>2
<1>3. ASSUME NEW c \in Cells, status = "done"
      PROVE  launched[c] = 1
  <2>1. /\ region = 8 /\ (ReturnsAtOnce(8) \/ step >= LoopEnd[8])
        /\ depth \in Nat /\ src \in Nat /\ trg \in Nat /\ step \in Nat
    BY <1>1, <1>3 DEF LoopInv
  <2>2. /\ RegionOf(c) \in 1..8 /\ Plane(c) = c[1] + c[2] + c[3]
        /\ c[1] \in 0..depth - 1 /\ c[2] \in 0..src - 1 /\ c[3] \in 0..trg - 1
        /\ RegionOf(c) = 8 => c[1] > 0 /\ c[2] > 0 /\ c[3] > 0
    BY CellOfCells, RegionTellsZeros DEF Plane
  <2>3. RegionOf(c) = 8 => Plane(c) < step
    BY <2>1, <2>2, LoopRanges DEF ReturnsAtOnce
  <2>4. Walked(c)
    BY <2>1, <2>2, <2>3 DEF Walked
  <2> QED
    BY <1>1, <2>4 DEF LaunchedInv
<1> QED
  BY <1>1, <1>2, <1>3 DEF LaunchedOnce

\* The part of IInv that OutputsOfHyperplanes states.
LEMMA OutputsFollow ==
  ASSUME IInv
  PROVE  OutputsOfHyperplanes
<1>1. ASSUME NEW c \in Cells, NEW k \in {0, 1}
      PROVE  LET held == hsss[Slab(c, k)] IN
             /\ held \in {<<>>, <<Zero>>, <<Output(c, k)>>}
             /\ held = <<Output(c, k)>> <=>
                  launched[c] = 1 /\ c[1] > 0 /\ Cardinality(Companions(c)) > 1
  <2> DEFINE held == hsss[Slab(c, k)]
  <2>1. /\ ~Walked(c) => held = <<>>
        /\ Walked(c) /\ Computed(c) => held = <<Output(c, k)>>
        /\ Walked(c) /\ ~Computed(c) => held \in {<<>>, <<Zero>>}
    BY DEF IInv, HeldInv
  <2>2. launched[c] = 1 <=> Walked(c)
    BY DEF IInv, LaunchedInv
  <2>3. <<Output(c, k)>> # <<>> /\ <<Output(c, k)>> # <<Zero>>
    <3>1. Output(c, k).out = "h" /\ Zero.out = "zero"
      BY DEF Output, Zero
    <3>2. Output(c, k) # Zero
      BY <3>1
    <3> DEFINE o == Output(c, k)
               z == Zero
    <3> HIDE DEF o, z
    <3>3. o # z => <<o>> # <<>> /\ <<o>> # <<z>>
      OBVIOUS
    <3> QED
      BY <3>2, <3>3 DEF o, z
  <2> HIDE DEF held
  <2>4. /\ held \in {<<>>, <<Zero>>, <<Output(c, k)>>}
        /\ held = <<Output(c, k)>> <=> Walked(c) /\ Computed(c)
    BY <2>1, <2>3
  <2> QED
    BY <2>2, <2>4 DEF held, Computed
<1> QED
  BY <1>1 DEF OutputsOfHyperplanes

\* Types, loop ranges, launch counts and slabs, for every shape.
THEOREM Invariance == Spec => []IInv
<1>1. Init => IInv
  BY CallInv DEF Init
<1>2. IInv /\ [Next]_vars => IInv'
  BY StepInv, StutterInv
<1> QED
  BY <1>1, <1>2, PTL DEF Spec

\* The eight regions partition the cells of every grid into hyperplanes.
THEOREM AlwaysLaunchedOnce == Spec => []LaunchedOnce
<1>1. IInv => LaunchedOnce
  BY LaunchedOnceFollows
<1> QED
  BY <1>1, Invariance, PTL

\* What hsss is worth, in every grid: layer 0 and all cells that are alone in
\* their hyperplane stay zero, and no others.
THEOREM AlwaysOutputs == Spec => []OutputsOfHyperplanes
<1>1. IInv => OutputsOfHyperplanes
  BY OutputsFollow
<1> QED
  BY <1>1, Invariance, PTL

\* Every cell of every grid gets the outputs of its own neighbours, from
\* launches before its own.
THEOREM AlwaysFindsNeighbours == Spec => NeighboursFound
<1>1. IInv /\ [Next]_vars => [FindsNeighbours]_vars
  BY StepFinds
<1>2. Spec => [][FindsNeighbours]_vars
  BY <1>1, Invariance, PTL DEF Spec
<1> QED
  BY <1>2 DEF NeighboursFound
=============================================================================
