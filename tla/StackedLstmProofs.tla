------------------------- MODULE StackedLstmProofs -------------------------
(***************************************************************************)
(* For every depth and length: the windows of region 3 lie inside their    *)
(* tensors and lead every cell to its inputs, the regions store to every   *)
(* cell exactly once, and no cell is computed before the cells it reads.   *)
(***************************************************************************)
EXTENDS StackedLstm, SlabArithmetic, TLAPS

\* A layer up and a step back is L - 1 slabs further on, however often.
LEMMA StridedSlab ==
  ASSUME NEW L \in Nat, NEW b \in Int, NEW n \in Int, NEW t \in Int
  PROVE  (b * L + t) + (n - b) * (L - 1) = n * L + (t - (n - b))
<1>1. (n - b) * (L - 1) = (n - b) * L - (n - b)
  OBVIOUS
<1>2. (n - b) * L = n * L - b * L
  OBVIOUS
<1>3. b * L \in Int /\ n * L \in Int
  OBVIOUS
<1> QED
  BY <1>1, <1>2, <1>3

(***************************************************************************)
(* The hyperplanes of region 3.                                            *)
(***************************************************************************)

Shape == depth \in Nat \ {0} /\ len \in Nat \ {0}

\* A hyperplane the loop of region 3 visits.
Visited(m) == depth > 1 /\ m \in 2..len + depth - 2

\* The layers active in a hyperplane are a contiguous part of the network, and
\* all of its cells are in the sequence.
LEMMA ActiveLayers ==
  ASSUME Shape, NEW m \in Int, Visited(m)
  PROVE  /\ LowerLayer(m) \in 1..depth - 1
         /\ UpperLayer(m) \in LowerLayer(m)..depth
         /\ UpperLayer(m) <= m
         /\ m - LowerLayer(m) <= len - 1
         /\ len > 1 => LowerLayer(m) < UpperLayer(m)
         /\ len = 1 => LowerLayer(m) = UpperLayer(m)
  BY DEF Shape, Visited, LowerLayer, UpperLayer, Larger, Smaller

\* A cell of a hyperplane is one of the network, as are its two inputs.
LEMMA ActiveCells ==
  ASSUME Shape, NEW m \in Int, Visited(m), NEW n \in Active(m)
  PROVE  /\ n \in 1..depth - 1 /\ n - 1 \in 0..depth - 1
         /\ m - n \in 1..len - 1 /\ m - n - 1 \in 0..len - 1
         /\ n - LowerLayer(m) \in 0..depth - 1
         /\ len > 1
  BY ActiveLayers DEF Shape, Visited, Active, LowerLayer, UpperLayer, Larger, Smaller

\* The window and the stride of x lead the nth layer to hsss[n - 1][m - n].
LEMMA WindowOfX ==
  ASSUME Shape, NEW m \in Int, Visited(m), NEW n \in Int
  PROVE  StartX(m) + (n - LowerLayer(m)) * Stride = Offset(n - 1, m - n)
<1> DEFINE lb == LowerLayer(m)
<1>1. lb \in Int
  BY ActiveLayers
<1> HIDE DEF lb
<1>2. ((lb - 1) * len + (m - lb)) + ((n - 1) - (lb - 1)) * (len - 1)
        = (n - 1) * len + ((m - lb) - ((n - 1) - (lb - 1)))
  BY <1>1, StridedSlab DEF Shape
<1>3. (n - 1) - (lb - 1) = n - lb /\ (m - lb) - ((n - 1) - (lb - 1)) = m - n
  BY <1>1
<1> QED
  BY <1>2, <1>3 DEF StartX, Offset, Stride, lb

\* The window and the stride of h lead the nth layer to hsss[n][m - n - 1].
LEMMA WindowOfH ==
  ASSUME Shape, NEW m \in Int, Visited(m), NEW n \in Int
  PROVE  StartH(m) + (n - LowerLayer(m)) * Stride = Offset(n, m - n - 1)
<1> DEFINE lb == LowerLayer(m)
<1>1. lb \in Int
  BY ActiveLayers
<1> HIDE DEF lb
<1>2. (lb * len + (m - lb - 1)) + (n - lb) * (len - 1)
        = n * len + ((m - lb - 1) - (n - lb))
  BY <1>1, StridedSlab DEF Shape
<1>3. (m - lb - 1) - (n - lb) = m - n - 1
  BY <1>1
<1> QED
  BY <1>2, <1>3 DEF StartH, Offset, Stride, lb

\* No CHECK_LE fails: every window of a hyperplane ends inside its tensor.
LEMMA WindowsAreInside ==
  ASSUME Shape, NEW m \in Int, Visited(m)
  PROVE  WindowsFit(m)
<1> DEFINE lb == LowerLayer(m)
           ub == UpperLayer(m)
<1>1. /\ lb \in 1..depth - 1 /\ ub \in lb..depth /\ ub <= m
      /\ m - lb <= len - 1
      /\ (len > 1 => lb < ub) /\ (len = 1 => lb = ub)
  BY ActiveLayers
<1>2. StartX(m) \in Int /\ StartH(m) \in Int /\ depth * len \in Int
  BY <1>1 DEF StartX, StartH, Offset, Shape
<1>3. CASE len > 1
  <2>1. ub - 1 \in Active(m)
    BY <1>1, <1>3 DEF Active
  <2>2. /\ StartX(m) + ((ub - 1) - lb) * Stride = Offset(ub - 2, m - (ub - 1))
        /\ StartH(m) + ((ub - 1) - lb) * Stride = Offset(ub - 1, m - (ub - 1) - 1)
    BY <1>1, WindowOfX, WindowOfH
  <2>3. /\ ub - 2 \in 0..depth - 1 /\ m - (ub - 1) \in 0..len - 1
        /\ ub - 1 \in 0..depth - 1 /\ m - (ub - 1) - 1 \in 0..len - 1
    BY <2>1, <1>1, ActiveCells
  <2>4. /\ Offset(ub - 2, m - (ub - 1)) \in 0..depth * len - 1
        /\ Offset(ub - 1, m - (ub - 1) - 1) \in 0..depth * len - 1
    <3>1. depth \in Nat /\ len \in Nat
      BY DEF Shape
    <3> QED
      BY <2>3, <3>1, SlabInRange DEF Offset
  <2>5. Width(m) - 1 = (ub - 1) - lb
    BY <1>1 DEF Width
  <2>6. Span(m) = ((ub - 1) - lb) * Stride + 1 /\ ((ub - 1) - lb) * Stride \in Int
    BY <2>5, <1>1 DEF Span, Stride, Shape
  <2>7. PICK k \in Int : k = ((ub - 1) - lb) * Stride
    BY <2>6
  <2>8. Fits(StartX(m), Span(m), depth * len) /\ Fits(StartH(m), Span(m), depth * len)
    <3>1. /\ Span(m) = k + 1
          /\ StartX(m) + k = Offset(ub - 2, m - (ub - 1))
          /\ StartH(m) + k = Offset(ub - 1, m - (ub - 1) - 1)
      BY <2>2, <2>6, <2>7
    <3>2. StartX(m) + (k + 1) <= depth * len /\ StartH(m) + (k + 1) <= depth * len
      BY <2>4, <3>1, <1>2
    <3> QED
      BY <3>1, <3>2 DEF Fits
  <2>9. Fits(lb, Width(m), depth)
    BY <1>1 DEF Fits, Width
  <2> QED
    BY <2>8, <2>9 DEF WindowsFit
<1>4. CASE len = 1
  <2>1. Stride = 0 /\ Width(m) = 0 /\ m = lb
    BY <1>1, <1>4 DEF Stride, Width
  <2>2. Span(m) = 1
    BY <2>1 DEF Span
  <2>3. StartX(m) = lb - 1 /\ StartH(m) = lb - 1 /\ depth * len = depth
    BY <1>4, <2>1, <1>1 DEF StartX, StartH, Offset, Shape
  <2> QED
    BY <2>1, <2>2, <2>3, <1>1 DEF WindowsFit, Fits
<1> QED
  BY <1>3, <1>4 DEF Shape

\* Every slab a hyperplane reads exists, and x and h are the inputs of the cell.
LEMMA OperandsOfHyperplane ==
  ASSUME Shape, NEW m \in Int, Visited(m), NEW o \in HyperplaneOperands(m)
  PROVE  /\ o.slab \in Slabs
         /\ o.layer \in Active(m) /\ o.time = m - o.layer
         /\ o.from = "hsss" => o.role \in {"x", "h"}
         /\ o.role \in {"x", "h"} =>
              /\ o.from = "hsss"
              /\ o.slab = IF o.role = "x" THEN Offset(o.layer - 1, o.time)
                                          ELSE Offset(o.layer, o.time - 1)
<1> DEFINE lb == LowerLayer(m)
<1>1. PICK n \in Active(m) :
        o \in {Operand("x", n, m - n, "hsss", StartX(m) + (n - lb) * Stride),
               Operand("h", n, m - n, "hsss", StartH(m) + (n - lb) * Stride),
               Operand("c", n, m - n, "csss", StartH(m) + (n - lb))}
  BY DEF HyperplaneOperands
<1>2. /\ n \in 1..depth - 1 /\ n - 1 \in 0..depth - 1 /\ n \in 0..depth - 1
      /\ m - n \in 0..len - 1 /\ m - n - 1 \in 0..len - 1
      /\ n - lb \in 0..depth - 1 /\ len > 1
  BY <1>1, ActiveCells
<1>3. /\ StartX(m) + (n - lb) * Stride = Offset(n - 1, m - n)
      /\ StartH(m) + (n - lb) * Stride = Offset(n, m - n - 1)
  BY <1>2, WindowOfX, WindowOfH
<1>4. Offset(n - 1, m - n) \in Slabs /\ Offset(n, m - n - 1) \in Slabs
  <2>1. depth \in Nat /\ len \in Nat
    BY DEF Shape
  <2> QED
    BY <1>2, <2>1, SlabInRange DEF Offset, Slabs
<1>5. StartH(m) + (n - lb) \in Slabs
  <2>1. lb \in 1..depth - 1 /\ m - lb <= len - 1 /\ lb <= n
    BY <1>1, ActiveLayers DEF Active
  <2>2. m - lb - 1 \in 0..len - 1
    <3>1. len \in Int /\ lb \in Int /\ n \in Int
      BY <1>2, <2>1 DEF Shape
    <3> HIDE DEF lb
    <3> QED
      BY <1>2, <2>1, <3>1
  <2>3. StartH(m) \in Slabs
    <3>1. depth \in Nat /\ len \in Nat /\ lb \in 0..depth - 1
      BY <2>1 DEF Shape
    <3> QED
      BY <2>2, <3>1, SlabInRange DEF StartH, Offset, Slabs
  <2>4. 1 * (n - lb) <= (len - 1) * (n - lb) /\ (len - 1) * (n - lb) \in Int
    <3>1. 1 \in Int /\ len - 1 \in Int /\ n - lb \in Nat /\ 1 <= len - 1
      BY <1>2 DEF Shape
    <3> HIDE DEF lb
    <3> QED
      BY <3>1, ProductGrows
  <2>5. 1 * (n - lb) = n - lb /\ (len - 1) * (n - lb) = (n - lb) * Stride
    BY <1>2 DEF Stride, Shape
  <2>6. depth * len \in Int
    BY DEF Shape
  <2> HIDE DEF lb
  <2> QED
    BY <1>2, <1>3, <1>4, <2>3, <2>4, <2>5, <2>6 DEF Slabs
<1> QED
  BY <1>1, <1>3, <1>4, <1>5 DEF Operand

\* The cells of a hyperplane that regions 1 and 2 leave are all active in it.
LEMMA CellsOfHyperplane ==
  ASSUME Shape, NEW m \in Int, Visited(m), NEW c \in Cells,
         c[1] > 0, c[2] > 0, c[1] + c[2] = m
  PROVE  c[1] \in Active(m) /\ c[2] = m - c[1]
<1>1. c[1] \in 0..depth - 1 /\ c[2] \in 0..len - 1
  BY DEF Cells
<1> QED
  BY <1>1 DEF Shape, Visited, Active, LowerLayer, UpperLayer, Larger, Smaller

\* The slab of a cell.
LEMMA SlabOfCell ==
  ASSUME Shape, NEW c \in Cells
  PROVE  /\ c[1] \in 0..depth - 1 /\ c[2] \in 0..len - 1
         /\ Offset(c[1], c[2]) \in Slabs
<1>1. c[1] \in 0..depth - 1 /\ c[2] \in 0..len - 1
  BY DEF Cells
<1>2. depth \in Nat /\ len \in Nat
  BY DEF Shape
<1> QED
  BY <1>1, <1>2, SlabInRange DEF Offset, Slabs

\* No two cells share a slab.
LEMMA SlabsAreDistinct ==
  ASSUME Shape, NEW c \in Cells, NEW d \in 0..depth - 1, NEW l \in 0..len - 1,
         Offset(c[1], c[2]) = Offset(d, l)
  PROVE  c[1] = d /\ c[2] = l
<1>1. /\ len \in Nat /\ d \in Nat
      /\ c[1] \in Nat /\ c[2] \in 0..len - 1
  BY SlabOfCell DEF Shape
<1> DEFINE e == c[1]
           k == c[2]
<1>2. e * len + k = d * len + l
  BY DEF Offset
<1>3. e \in Nat /\ k \in 0..len - 1
  BY <1>1
<1> HIDE DEF e, k
<1>4. e = d /\ k = l
  BY <1>1, <1>2, <1>3, SlabInjective
<1> QED
  BY <1>4 DEF e, k

Arrays == [Slabs -> Seq(Outputs)]

\* The scatter of a hyperplane keeps the type of its array, adds one output to
\* the slab of each of its cells, and leaves the others alone.
LEMMA ScatterEffect ==
  ASSUME Shape, NEW m \in Int, Visited(m), NEW array \in Arrays,
         NEW kind \in {"c", "h"}
  PROVE  /\ Scatter(array, kind, m) \in Arrays
         /\ \A c \in Cells :
              LET a == Offset(c[1], c[2]) IN
              IF c[1] \in Active(m) /\ c[2] = m - c[1]
              THEN Len(Scatter(array, kind, m)[a]) = Len(array[a]) + 1
              ELSE Scatter(array, kind, m)[a] = array[a]
<1> DEFINE hit(a) == {n \in Active(m) : Offset(n, m - n) = a}
           out(a) == LET n == CHOOSE n \in hit(a) : TRUE IN Output(kind, n, m - n)
<1>1. ASSUME NEW a \in Slabs
      PROVE  Scatter(array, kind, m)[a]
               = IF hit(a) = {} THEN array[a] ELSE Append(array[a], out(a))
  BY DEF Scatter
<1>2. ASSUME NEW a \in Slabs, hit(a) # {}
      PROVE  out(a) \in Outputs
  <2> DEFINE n == CHOOSE n \in hit(a) : TRUE
  <2>1. n \in Active(m)
    BY <1>2
  <2> HIDE DEF n
  <2>2. n \in Nat /\ m - n \in Nat
    BY <2>1, ActiveCells DEF Shape
  <2> QED
    BY <2>2 DEF n, Output, Outputs
<1> HIDE DEF out
<1>3. ASSUME NEW a \in Slabs
      PROVE  Scatter(array, kind, m)[a] \in Seq(Outputs)
  <2>1. array[a] \in Seq(Outputs)
    BY DEF Arrays
  <2>2. CASE hit(a) = {}
    BY <2>1, <2>2, <1>1
  <2>3. CASE hit(a) # {}
    <3>1. Scatter(array, kind, m)[a] = Append(array[a], out(a)) /\ out(a) \in Outputs
      BY <2>3, <1>1, <1>2
    <3> QED
      BY <2>1, <3>1
  <2> QED
    BY <2>2, <2>3
<1>4. Scatter(array, kind, m) \in Arrays
  BY <1>3 DEF Scatter, Arrays
<1>5. ASSUME NEW c \in Cells
      PROVE  LET a == Offset(c[1], c[2]) IN
             IF c[1] \in Active(m) /\ c[2] = m - c[1]
             THEN Len(Scatter(array, kind, m)[a]) = Len(array[a]) + 1
             ELSE Scatter(array, kind, m)[a] = array[a]
  <2> DEFINE a == Offset(c[1], c[2])
  <2>1. a \in Slabs /\ array[a] \in Seq(Outputs)
    BY SlabOfCell DEF Arrays
  <2>2. ASSUME NEW n \in hit(a)
        PROVE  c[1] = n /\ c[2] = m - n
    <3>1. n \in 0..depth - 1 /\ m - n \in 0..len - 1
      BY ActiveCells
    <3> QED
      BY <3>1, SlabsAreDistinct
  <2>3. CASE c[1] \in Active(m) /\ c[2] = m - c[1]
    <3>1. c[1] \in hit(a)
      BY <2>3
    <3>2. Scatter(array, kind, m)[a] = Append(array[a], out(a)) /\ out(a) \in Outputs
      BY <2>1, <3>1, <1>1, <1>2
    <3> QED
      BY <2>1, <2>3, <3>2
  <2>4. CASE ~(c[1] \in Active(m) /\ c[2] = m - c[1])
    <3>1. hit(a) = {}
      BY <2>2, <2>4
    <3> QED
      BY <2>1, <2>4, <3>1, <1>1
  <2> QED
    BY <2>3, <2>4
<1> QED
  BY <1>4, <1>5

-----------------------------------------------------------------------------
(***************************************************************************)
(* The invariants that hold in both builds.                                *)
(***************************************************************************)

LEMMA ShapeOfType ==
  ASSUME TypeOK
  PROVE  Shape /\ depth \in Nat /\ len \in Nat
  BY ShapeAssumption DEF TypeOK, Shape

\* What the guard of region 3 says of its hyperplane.
LEMMA RegionVisits ==
  ASSUME TypeOK, LoopInv, Running(3)
  PROVE  Shape /\ step \in Int /\ Visited(step)
  BY ShapeOfType DEF LoopInv, Running, ReturnsAtOnce, LoopEnd, Visited, Shape

LEMMA StoreType ==
  ASSUME NEW array \in Arrays, NEW a, NEW v \in Outputs
  PROVE  Store(array, a, v) \in Arrays
<1>1. <<v>> \in Seq(Outputs)
  OBVIOUS
<1> HIDE DEF Outputs
<1> DEFINE s == <<v>>
<1>2. s \in Seq(Outputs)
  BY <1>1
<1> HIDE DEF s
<1>3. [array EXCEPT ![a] = s] \in [Slabs -> Seq(Outputs)]
  BY <1>2 DEF Arrays
<1> QED
  BY <1>3 DEF Store, Arrays, s

LEMMA BasicInit == Init => BasicInv
<1> SUFFICES ASSUME Init PROVE BasicInv
  OBVIOUS
<1>1. depth \in Nat \ {0} /\ len \in Nat \ {0}
  BY ShapeAssumption DEF Init
<1>2. TypeOK
  BY <1>1 DEF Init, TypeOK, Larger
<1>3. LoopInv
  BY <1>1 DEF Init, LoopInv
<1>4. OperandsExist /\ StrideFindsInputs /\ (status = "done" => region = 3 /\ Finished)
  BY DEF Init, OperandsExist, StrideFindsInputs
<1> QED
  BY <1>2, <1>3, <1>4 DEF BasicInv

LEMMA BasicRegion1 ==
  ASSUME BasicInv, Region1
  PROVE  BasicInv'
<1>1. Shape /\ depth \in Nat /\ len \in Nat /\ TypeOK /\ LoopInv
  BY ShapeOfType DEF BasicInv
<1>2. /\ step \in 0..len - 1 /\ region = 1 /\ status = "ok"
      /\ step' = step + 1 /\ UNCHANGED <<depth, len, region, status>>
      /\ Slabs' = Slabs
  BY <1>1 DEF Region1, Running, LoopEnd, LoopInv, shape, Slabs
<1>3. TypeOK'
  <2>1. hsss' \in Arrays /\ csss' \in Arrays
    <3>1. Output("c", 0, step) \in Outputs /\ Output("h", 0, step) \in Outputs
      BY <1>2 DEF Output, Outputs
    <3>2. hsss \in Arrays /\ csss \in Arrays
      BY <1>1 DEF TypeOK, Arrays
    <3> QED
      BY <3>1, <3>2, StoreType DEF Region1
  <2>2. step' \in 0..Larger(2, len + depth - 1)
    BY <1>1, <1>2 DEF Larger, Shape
  <2> QED
    BY <1>1, <1>2, <2>1, <2>2 DEF TypeOK, Arrays
<1>4. LoopInv'
  BY <1>1, <1>2 DEF LoopInv
<1>5. OperandsExist'
  <2>1. step > 0 => step - 1 \in Slabs
    <3>1. 0 * len + (step - 1) = step - 1
      BY <1>1, <1>2
    <3>2. step > 0 => 0 \in 0..depth - 1 /\ step - 1 \in 0..len - 1
      BY <1>1, <1>2 DEF Shape
    <3> QED
      BY <1>1, <3>1, <3>2, SlabInRange DEF Slabs
  <2>2. \A o \in operands' : step > 0 /\ o.slab = step - 1
    BY <1>2 DEF Region1, Operand
  <2> QED
    BY <1>2, <2>1, <2>2 DEF OperandsExist
<1> QED
  BY <1>2, <1>3, <1>4, <1>5 DEF BasicInv, StrideFindsInputs

LEMMA BasicRegion2 ==
  ASSUME BasicInv, Region2
  PROVE  BasicInv'
<1>1. Shape /\ depth \in Nat /\ len \in Nat /\ TypeOK /\ LoopInv
  BY ShapeOfType DEF BasicInv
<1>2. /\ step \in 1..depth - 1 /\ region = 2 /\ status = "ok"
      /\ step' = step + 1 /\ UNCHANGED <<depth, len, region, status>>
      /\ Slabs' = Slabs
  BY <1>1 DEF Region2, Running, LoopEnd, LoopInv, shape, Slabs
<1>3. TypeOK'
  <2>1. hsss' \in Arrays /\ csss' \in Arrays
    <3>1. Output("c", step, 0) \in Outputs /\ Output("h", step, 0) \in Outputs
      BY <1>2 DEF Output, Outputs
    <3>2. hsss \in Arrays /\ csss \in Arrays
      BY <1>1 DEF TypeOK, Arrays
    <3> QED
      BY <3>1, <3>2, StoreType DEF Region2
  <2>2. step' \in 0..Larger(2, len + depth - 1)
    BY <1>1, <1>2 DEF Larger, Shape
  <2> QED
    BY <1>1, <1>2, <2>1, <2>2 DEF TypeOK, Arrays
<1>4. LoopInv'
  BY <1>1, <1>2 DEF LoopInv
<1>5. OperandsExist'
  <2>1. Offset(step - 1, 0) \in Slabs
    <3>1. step - 1 \in 0..depth - 1 /\ 0 \in 0..len - 1
      BY <1>1, <1>2 DEF Shape
    <3> QED
      BY <1>1, <3>1, SlabInRange DEF Slabs, Offset
  <2>2. \A o \in operands' : o.slab = Offset(step - 1, 0)
    BY DEF Region2, Operand
  <2> QED
    BY <1>2, <2>1, <2>2 DEF OperandsExist
<1> QED
  BY <1>2, <1>3, <1>4, <1>5 DEF BasicInv, StrideFindsInputs

LEMMA BasicRegion3 ==
  ASSUME BasicInv, Region3
  PROVE  BasicInv'
<1>1. Shape /\ depth \in Nat /\ len \in Nat /\ TypeOK /\ LoopInv
  BY ShapeOfType DEF BasicInv
<1>2. step \in Int /\ Visited(step) /\ region = 3 /\ status = "ok"
  BY <1>1, RegionVisits DEF Region3, Running
<1>3. WindowsFit(step)
  BY <1>1, <1>2, WindowsAreInside
<1>4. /\ csss' = Scatter(csss, "c", step) /\ hsss' = Scatter(hsss, "h", step)
      /\ operands' = HyperplaneOperands(step)
      /\ step' = step + 1 /\ UNCHANGED <<depth, len, region, status>>
      /\ Slabs' = Slabs
  BY <1>3 DEF Region3, shape, Slabs
<1>5. TypeOK'
  <2>1. hsss \in Arrays /\ csss \in Arrays
    BY <1>1 DEF TypeOK, Arrays
  <2>2. hsss' \in Arrays /\ csss' \in Arrays
    BY <1>1, <1>2, <1>4, <2>1, ScatterEffect
  <2>3. step' \in 0..Larger(2, len + depth - 1)
    BY <1>1, <1>2, <1>4 DEF Larger, Visited
  <2> QED
    BY <1>1, <1>4, <2>2, <2>3 DEF TypeOK, Arrays
<1>6. LoopInv'
  BY <1>1, <1>2, <1>4 DEF LoopInv, Visited
<1>7. OperandsExist'
  BY <1>1, <1>2, <1>4, OperandsOfHyperplane DEF OperandsExist
<1>8. StrideFindsInputs'
  <2>1. \A d, l : Offset(d, l)' = Offset(d, l)
    BY <1>4 DEF Offset
  <2> QED
    BY <1>1, <1>2, <1>4, <2>1, OperandsOfHyperplane DEF StrideFindsInputs
<1> QED
  BY <1>2, <1>4, <1>5, <1>6, <1>7, <1>8 DEF BasicInv

LEMMA BasicNextRegion ==
  ASSUME BasicInv, NextRegion
  PROVE  BasicInv'
<1>1. Shape /\ depth \in Nat /\ len \in Nat /\ TypeOK /\ LoopInv
  BY ShapeOfType DEF BasicInv
<1>2. /\ UNCHANGED <<depth, len, hsss, csss>> /\ operands' = {} /\ Slabs' = Slabs
      /\ status = "ok" /\ Finished
  BY DEF NextRegion, shape, Slabs
<1>3. CASE region = 3
  <2>1. status' = "done" /\ UNCHANGED <<region, step>>
    BY <1>3 DEF NextRegion
  <2>2. TypeOK' /\ LoopInv' /\ Finished'
    BY <1>1, <1>2, <2>1 DEF TypeOK, LoopInv, Finished, ReturnsAtOnce, LoopEnd
  <2> QED
    BY <1>2, <1>3, <2>1, <2>2 DEF BasicInv, OperandsExist, StrideFindsInputs
<1>4. CASE region # 3
  <2>1. /\ region \in 1..2 /\ region' = region + 1 /\ status' = "ok"
        /\ step' = IF region = 1 THEN 1 ELSE 2
    BY <1>1, <1>2, <1>4 DEF NextRegion, LoopInv, LoopStart
  <2>2. LoopInv'
    BY <1>1, <1>2, <2>1 DEF LoopInv, Shape
  <2>3. TypeOK'
    BY <1>1, <1>2, <2>1 DEF TypeOK, Larger
  <2> QED
    BY <1>2, <2>1, <2>2, <2>3 DEF BasicInv, OperandsExist, StrideFindsInputs
<1> QED
  BY <1>3, <1>4

LEMMA BasicStutter ==
  ASSUME BasicInv, UNCHANGED vars
  PROVE  BasicInv'
  BY DEF vars, shape, BasicInv, TypeOK, LoopInv, OperandsExist, StrideFindsInputs,
         Finished, ReturnsAtOnce, LoopEnd, Slabs, Offset

\* The loops of the regions stay in bounds, whatever the depth and the length,
\* and what a launch reads is where it should be.
THEOREM BasicInvariance == Spec => []BasicInv
<1>1. BasicInv /\ [Next]_vars => BasicInv'
  BY BasicRegion1, BasicRegion2, BasicRegion3, BasicNextRegion, BasicStutter DEF Next
<1> QED
  BY BasicInit, <1>1, PTL DEF Spec

\* Every variable keeps the type its C++ counterpart has.
THEOREM TypeCorrect == Spec => []TypeOK
<1>1. BasicInv => TypeOK
  BY DEF BasicInv
<1> QED
  BY BasicInvariance, <1>1, PTL

\* No CreateFrom fails its check, and no slab outside hsss or csss is read,
\* for every depth and every length.
THEOREM AlwaysInBounds == Spec => []OperandsExist
<1>1. BasicInv => OperandsExist
  BY DEF BasicInv
<1> QED
  BY BasicInvariance, <1>1, PTL

\* The fixed stride of README.md is right for every depth and length: x and h
\* of each cell of a hyperplane are hsss[i - 1][j] and hsss[i][j - 1].
THEOREM StrideIsRight == Spec => []StrideFindsInputs
<1>1. BasicInv => StrideFindsInputs
  BY DEF BasicInv
<1> QED
  BY BasicInvariance, <1>1, PTL

-----------------------------------------------------------------------------
(***************************************************************************)
(* Progress through the cells, in the build without FUSE_ALL_ELEMENTWISE.  *)
(***************************************************************************)

LEMMA ProgressInit == Init => ProgressInv
<1> SUFFICES ASSUME Init, NEW c \in Cells
             PROVE  /\ ~Walked(c[1], c[2])
                    /\ hsss[Offset(c[1], c[2])] = <<>>
                    /\ csss[Offset(c[1], c[2])] = <<>>
  BY DEF ProgressInv
<1>1. Shape
  BY ShapeAssumption DEF Init, Shape
<1>2. /\ Offset(c[1], c[2]) \in Slabs
      /\ c[1] \in 0..depth - 1 /\ c[2] \in 0..len - 1
  BY <1>1, SlabOfCell
<1> QED
  BY <1>2 DEF Init, Walked

\* A region that stores the outputs of one cell and walks on from it keeps
\* track of the cells.
LEMMA ProgressOfStore ==
  ASSUME Shape, ProgressInv, hsss \in Arrays, csss \in Arrays,
         UNCHANGED <<depth, len>>,
         NEW d \in 0..depth - 1, NEW l \in 0..len - 1,
         NEW v \in Outputs, NEW w \in Outputs,
         hsss' = Store(hsss, Offset(d, l), v),
         csss' = Store(csss, Offset(d, l), w),
         Walked(d, l)',
         \A c \in Cells : (c[1] # d \/ c[2] # l)
                            => (Walked(c[1], c[2])' <=> Walked(c[1], c[2]))
  PROVE  ProgressInv'
<1>1. Cells' = Cells /\ \A x, y : Offset(x, y)' = Offset(x, y)
  BY DEF Cells, Offset
<1>2. ASSUME NEW c \in Cells
      PROVE  LET a == Offset(c[1], c[2]) IN
             /\ Walked(c[1], c[2])' => Len(hsss'[a]) = 1 /\ Len(csss'[a]) = 1
             /\ ~Walked(c[1], c[2])' => hsss'[a] = <<>> /\ csss'[a] = <<>>
  <2> DEFINE a == Offset(c[1], c[2])
  <2>1. a \in Slabs
    BY SlabOfCell
  <2>2. CASE c[1] = d /\ c[2] = l
    <3>1. hsss'[a] = <<v>> /\ csss'[a] = <<w>>
      BY <2>1, <2>2 DEF Store, Arrays
    <3> QED
      BY <2>2, <3>1
  <2>3. CASE c[1] # d \/ c[2] # l
    <3>1. a # Offset(d, l)
      BY <2>3, SlabsAreDistinct
    <3>2. hsss'[a] = hsss[a] /\ csss'[a] = csss[a]
      BY <2>1, <3>1 DEF Store, Arrays
    <3> QED
      BY <2>3, <3>2 DEF ProgressInv
  <2> QED
    BY <2>2, <2>3
<1> QED
  BY <1>1, <1>2 DEF ProgressInv

LEMMA ProgressRegion1 ==
  ASSUME ~Fused, BasicInv, ProgressInv, Region1
  PROVE  ProgressInv'
<1>1. Shape /\ depth \in Nat /\ len \in Nat /\ TypeOK /\ LoopInv
  BY ShapeOfType DEF BasicInv
<1>2. /\ step \in 0..len - 1 /\ region = 1
      /\ step' = step + 1 /\ UNCHANGED <<depth, len, region>>
  BY <1>1 DEF Region1, Running, LoopEnd, LoopInv, shape
<1>3. PICK l \in 0..len - 1 : l = step
  BY <1>2
<1>4. Target(step) = Offset(0, l)
  BY <1>1, <1>3 DEF Target, Offset
<1>5. Output("c", 0, step) \in Outputs /\ Output("h", 0, step) \in Outputs
  BY <1>2 DEF Output, Outputs
<1>6. Walked(0, l)'
  BY <1>2, <1>3 DEF Walked
<1>7. ASSUME NEW c \in Cells, c[1] # 0 \/ c[2] # l
      PROVE  Walked(c[1], c[2])' <=> Walked(c[1], c[2])
  BY <1>1, <1>2, <1>3, <1>7, SlabOfCell DEF Walked
<1>8. hsss \in Arrays /\ csss \in Arrays /\ 0 \in 0..depth - 1
  BY <1>1 DEF TypeOK, Arrays, Shape
<1>9. PICK v \in Outputs, w \in Outputs :
        hsss' = Store(hsss, Offset(0, l), v) /\ csss' = Store(csss, Offset(0, l), w)
  BY <1>4, <1>5 DEF Region1
<1> QED
  BY <1>1, <1>2, <1>3, <1>6, <1>7, <1>8, <1>9, ProgressOfStore

LEMMA ProgressRegion2 ==
  ASSUME BasicInv, ProgressInv, Region2
  PROVE  ProgressInv'
<1>1. Shape /\ depth \in Nat /\ len \in Nat /\ TypeOK /\ LoopInv
  BY ShapeOfType DEF BasicInv
<1>2. /\ step \in 1..depth - 1 /\ region = 2
      /\ step' = step + 1 /\ UNCHANGED <<depth, len, region>>
  BY <1>1 DEF Region2, Running, LoopEnd, LoopInv, shape
<1>3. Output("c", step, 0) \in Outputs /\ Output("h", step, 0) \in Outputs
  BY <1>2 DEF Output, Outputs
<1>4. PICK d \in 0..depth - 1 : d = step
  BY <1>1, <1>2
<1>5. Walked(d, 0)'
  BY <1>2, <1>4 DEF Walked
<1>6. ASSUME NEW c \in Cells, c[1] # d \/ c[2] # 0
      PROVE  Walked(c[1], c[2])' <=> Walked(c[1], c[2])
  BY <1>1, <1>2, <1>4, <1>6, SlabOfCell DEF Walked
<1>7. hsss \in Arrays /\ csss \in Arrays /\ 0 \in 0..len - 1
  BY <1>1 DEF TypeOK, Arrays, Shape
<1>8. PICK v \in Outputs, w \in Outputs :
        hsss' = Store(hsss, Offset(d, 0), v) /\ csss' = Store(csss, Offset(d, 0), w)
  BY <1>3, <1>4 DEF Region2
<1> QED
  BY <1>1, <1>2, <1>4, <1>5, <1>6, <1>7, <1>8, ProgressOfStore

LEMMA ProgressRegion3 ==
  ASSUME BasicInv, ProgressInv, Region3
  PROVE  ProgressInv'
<1>1. Shape /\ depth \in Nat /\ len \in Nat /\ TypeOK /\ LoopInv
  BY ShapeOfType DEF BasicInv
<1>2. step \in Int /\ Visited(step) /\ region = 3
  BY <1>1, RegionVisits DEF Region3, Running
<1>3. /\ csss' = Scatter(csss, "c", step) /\ hsss' = Scatter(hsss, "h", step)
      /\ step' = step + 1 /\ UNCHANGED <<depth, len, region>>
  BY <1>1, <1>2, WindowsAreInside DEF Region3, shape
<1>4. Cells' = Cells /\ \A x, y : Offset(x, y)' = Offset(x, y)
  BY <1>3 DEF Cells, Offset
<1>5. hsss \in Arrays /\ csss \in Arrays
  BY <1>1 DEF TypeOK, Arrays
<1>6. ASSUME NEW c \in Cells
      PROVE  LET a == Offset(c[1], c[2]) IN
             /\ Walked(c[1], c[2])' => Len(hsss'[a]) = 1 /\ Len(csss'[a]) = 1
             /\ ~Walked(c[1], c[2])' => hsss'[a] = <<>> /\ csss'[a] = <<>>
  <2> DEFINE a == Offset(c[1], c[2])
  <2>1. c[1] \in 0..depth - 1 /\ c[2] \in 0..len - 1
    BY <1>1, SlabOfCell
  <2>2. CASE c[1] \in Active(step) /\ c[2] = step - c[1]
    <3>1. c[1] > 0 /\ c[2] > 0
      BY <1>1, <1>2, <2>2, ActiveCells
    <3>2. ~Walked(c[1], c[2]) /\ Walked(c[1], c[2])'
      BY <1>2, <1>3, <2>1, <2>2, <3>1 DEF Walked
    <3>3. hsss[a] = <<>> /\ csss[a] = <<>>
      BY <3>2 DEF ProgressInv
    <3>4. Len(hsss'[a]) = Len(hsss[a]) + 1 /\ Len(csss'[a]) = Len(csss[a]) + 1
      BY <1>1, <1>2, <1>3, <1>5, <2>2, ScatterEffect
    <3>5. Len(hsss[a]) = 0 /\ Len(csss[a]) = 0
      BY <3>3
    <3> QED
      BY <3>2, <3>4, <3>5
  <2>3. CASE ~(c[1] \in Active(step) /\ c[2] = step - c[1])
    <3>1. hsss'[a] = hsss[a] /\ csss'[a] = csss[a]
      BY <1>1, <1>2, <1>3, <1>5, <2>3, ScatterEffect
    <3>2. ~(c[1] > 0 /\ c[2] > 0 /\ c[1] + c[2] = step)
      BY <1>1, <1>2, <2>3, CellsOfHyperplane
    <3>3. Walked(c[1], c[2])' <=> Walked(c[1], c[2])
      BY <1>2, <1>3, <2>1, <3>2 DEF Walked
    <3> QED
      BY <3>1, <3>3 DEF ProgressInv
  <2> QED
    BY <2>2, <2>3
<1> QED
  BY <1>4, <1>6 DEF ProgressInv

\* A region that is finished has walked all that the next one assumes.
LEMMA ProgressNextRegion ==
  ASSUME BasicInv, ProgressInv, NextRegion
  PROVE  ProgressInv'
<1>1. Shape /\ depth \in Nat /\ len \in Nat /\ TypeOK /\ LoopInv
  BY ShapeOfType DEF BasicInv
<1>2. /\ UNCHANGED <<depth, len, hsss, csss>>
      /\ Cells' = Cells /\ \A x, y : Offset(x, y)' = Offset(x, y)
  BY DEF NextRegion, shape, Cells, Offset
<1>3. ASSUME NEW c \in Cells
      PROVE  Walked(c[1], c[2])' <=> Walked(c[1], c[2])
  <2>1. c[1] \in 0..depth - 1 /\ c[2] \in 0..len - 1
    BY <1>1, SlabOfCell
  <2>2. CASE region = 1
    BY <1>1, <2>1, <2>2 DEF NextRegion, LoopStart, Walked, Finished, ReturnsAtOnce,
                            LoopEnd, LoopInv
  <2>3. CASE region = 2
    BY <1>1, <2>1, <2>3 DEF NextRegion, LoopStart, Walked, Finished, ReturnsAtOnce,
                            LoopEnd, LoopInv
  <2>4. CASE region = 3
    BY <2>4 DEF NextRegion, Walked
  <2> QED
    BY <1>1, <2>2, <2>3, <2>4 DEF LoopInv
<1> QED
  BY <1>2, <1>3 DEF ProgressInv

LEMMA ProgressStutter ==
  ASSUME ProgressInv, UNCHANGED vars
  PROVE  ProgressInv'
  BY DEF vars, shape, ProgressInv, Walked, Cells, Offset

\* Both invariants hold in every state.
THEOREM Invariance ==
  ASSUME ~Fused PROVE Spec => [](BasicInv /\ ProgressInv)
<1>1. BasicInv /\ ProgressInv /\ [Next]_vars => BasicInv' /\ ProgressInv'
  BY BasicRegion1, BasicRegion2, BasicRegion3, BasicNextRegion, BasicStutter,
     ProgressRegion1, ProgressRegion2, ProgressRegion3, ProgressNextRegion,
     ProgressStutter DEF Next
<1> QED
  BY BasicInit, ProgressInit, <1>1, PTL DEF Spec

\* The inductive invariant the runs check, for both builds.
THEOREM InductiveInvariant == Spec => []IInv
<1>1. CASE Fused
  <2>1. BasicInv => IInv
    BY <1>1 DEF IInv
  <2> QED
    BY <2>1, BasicInvariance, PTL
<1>2. CASE ~Fused
  <2>1. BasicInv /\ ProgressInv => IInv
    BY DEF IInv
  <2>2. Spec => [](BasicInv /\ ProgressInv)
    BY <1>2, Invariance
  <2> QED
    BY <2>1, <2>2, PTL
<1> QED
  BY <1>1, <1>2

\* No cell is stored to twice: atomicAdd only ever adds to zeros.
THEOREM AlwaysStoredOnce ==
  ASSUME ~Fused PROVE Spec => []StoredOnce
<1>1. ASSUME ProgressInv, NEW c \in Cells
      PROVE  LET a == Offset(c[1], c[2]) IN Len(hsss[a]) <= 1 /\ Len(csss[a]) <= 1
  <2> DEFINE a == Offset(c[1], c[2])
  <2>1. CASE Walked(c[1], c[2])
    <3>1. Len(hsss[a]) = 1 /\ Len(csss[a]) = 1
      BY <1>1, <2>1 DEF ProgressInv
    <3> QED
      BY <3>1
  <2>2. CASE ~Walked(c[1], c[2])
    <3>1. hsss[a] = <<>> /\ csss[a] = <<>>
      BY <1>1, <2>2 DEF ProgressInv
    <3>2. Len(hsss[a]) = 0 /\ Len(csss[a]) = 0
      BY <3>1
    <3> QED
      BY <3>2
  <2> QED
    BY <2>1, <2>2
<1>2. BasicInv /\ ProgressInv => StoredOnce
  BY <1>1 DEF StoredOnce
<1> QED
  BY Invariance, <1>2, PTL

\* When the last region returns, every cell has been stored to.
THEOREM AllCellsStored ==
  ASSUME ~Fused PROVE Spec => []EveryCellStored
<1>1. ASSUME BasicInv, ProgressInv, status = "done", NEW c \in Cells
      PROVE  hsss[Offset(c[1], c[2])] # <<>> /\ csss[Offset(c[1], c[2])] # <<>>
  <2>1. Shape /\ depth \in Nat /\ len \in Nat /\ region = 3 /\ Finished
        /\ step \in Nat
    BY <1>1, ShapeOfType DEF BasicInv, LoopInv
  <2>2. c[1] \in 0..depth - 1 /\ c[2] \in 0..len - 1
    BY <2>1, SlabOfCell
  <2>3. Walked(c[1], c[2])
    BY <2>1, <2>2 DEF Walked, Finished, ReturnsAtOnce, LoopEnd
  <2> QED
    BY <1>1, <2>3 DEF ProgressInv
<1>2. BasicInv /\ ProgressInv => EveryCellStored
  BY <1>1 DEF EveryCellStored
<1> QED
  BY Invariance, <1>2, PTL

-----------------------------------------------------------------------------
(***************************************************************************)
(* Whose outputs a slab holds.                                             *)
(***************************************************************************)

\* The kind of output an array holds for cell (d, l).
KindIn(name, d, l) == IF Swapped(d, l) <=> name = "hsss" THEN "c" ELSE "h"

\* OwnOutputs, of the array of this name.
Own(name, array) ==
  \A c \in Cells :
    HoldsOnly(array[Offset(c[1], c[2])], KindIn(name, c[1], c[2]), c[1], c[2])

\* The outputs a slab of cell (d, l) may hold: those of time step t, which is l
\* or, in the first slab of the fused build, any.
TimeOf(d, l, t) == t = l \/ (Fused /\ d = 0 /\ l = 0)

LEMMA OwnIsBoth ==
  OwnOutputs <=> Own("hsss", hsss) /\ Own("csss", csss)
<1>1. \A d, l : /\ KindIn("hsss", d, l) = IF Swapped(d, l) THEN "c" ELSE "h"
               /\ KindIn("csss", d, l) = IF Swapped(d, l) THEN "h" ELSE "c"
  BY DEF KindIn
<1> QED
  BY <1>1 DEF OwnOutputs, Own

\* A cell is the pair of its coordinates.
LEMMA CellIsPair ==
  ASSUME NEW c \in Cells
  PROVE  c = <<c[1], c[2]>>
  BY DEF Cells

\* Storing the output of a cell to its own slab leaves every slab its own.
LEMMA OwnOfStore ==
  ASSUME Shape, NEW name, NEW array \in Arrays, Own(name, array),
         NEW d \in 0..depth - 1, NEW l \in 0..len - 1, NEW t, TimeOf(d, l, t)
  PROVE  Own(name, Store(array, Offset(d, l), Output(KindIn(name, d, l), d, t)))
<1> DEFINE v      == Output(KindIn(name, d, l), d, t)
           stored == Store(array, Offset(d, l), v)
<1>1. HoldsOnly(<<v>>, KindIn(name, d, l), d, l)
  <2>1. v.out = KindIn(name, d, l) /\ v.layer = d /\ v.time = t
    BY DEF Output
  <2> HIDE DEF v
  <2>2. \A i \in DOMAIN <<v>> : <<v>>[i] = v
    OBVIOUS
  <2> QED
    BY <2>1, <2>2 DEF HoldsOnly, TimeOf
<1> HIDE DEF v
<1>2. ASSUME NEW c \in Cells
      PROVE  HoldsOnly(stored[Offset(c[1], c[2])], KindIn(name, c[1], c[2]), c[1], c[2])
  <2> DEFINE a == Offset(c[1], c[2])
  <2>1. a \in Slabs /\ DOMAIN array = Slabs
    BY SlabOfCell DEF Arrays
  <2>2. CASE c[1] = d /\ c[2] = l
    <3>1. stored[a] = <<v>>
      BY <2>1, <2>2 DEF Store
    <3> QED
      BY <1>1, <2>2, <3>1
  <2>3. CASE c[1] # d \/ c[2] # l
    <3>1. a # Offset(d, l)
      BY <2>3, SlabsAreDistinct
    <3>2. stored[a] = array[a]
      BY <2>1, <3>1 DEF Store
    <3> QED
      BY <3>2 DEF Own
  <2> QED
    BY <2>2, <2>3
<1> QED
  BY <1>2 DEF Own, v

\* The outputs of a hyperplane are added to the slabs of their own cells.
LEMMA OwnOfScatter ==
  ASSUME Shape, NEW m \in Int, Visited(m), NEW name, NEW array \in Arrays,
         Own(name, array), NEW kind \in {"c", "h"},
         kind = IF name = "hsss" THEN "h" ELSE "c"
  PROVE  Own(name, Scatter(array, kind, m))
<1> DEFINE hit(a) == {n \in Active(m) : Offset(n, m - n) = a}
           out(a) == LET n == CHOOSE n \in hit(a) : TRUE IN Output(kind, n, m - n)
           added  == Scatter(array, kind, m)
<1>1. ASSUME NEW a \in Slabs
      PROVE  added[a] = IF hit(a) = {} THEN array[a] ELSE Append(array[a], out(a))
  BY DEF Scatter
<1>2. ASSUME NEW c \in Cells
      PROVE  HoldsOnly(added[Offset(c[1], c[2])], KindIn(name, c[1], c[2]), c[1], c[2])
  <2> DEFINE a == Offset(c[1], c[2])
  <2>1. a \in Slabs /\ array[a] \in Seq(Outputs)
    BY SlabOfCell DEF Arrays
  <2>2. HoldsOnly(array[a], KindIn(name, c[1], c[2]), c[1], c[2])
    BY DEF Own
  <2>3. CASE hit(a) = {}
    BY <1>1, <2>1, <2>2, <2>3
  <2>4. CASE hit(a) # {}
    <3> DEFINE n == CHOOSE n \in hit(a) : TRUE
               v == out(a)
    <3>1. n \in Active(m) /\ Offset(n, m - n) = a
      BY <2>4
    <3>2. v = Output(kind, n, m - n)
      OBVIOUS
    <3> HIDE DEF n, v, out
    <3>3. n \in 0..depth - 1 /\ m - n \in 1..len - 1
      BY <3>1, ActiveCells
    <3>4. c[1] = n /\ c[2] = m - n
      BY <3>1, <3>3, SlabsAreDistinct, CellIsPair
    <3>5. KindIn(name, n, m - n) = kind
      BY <3>3 DEF KindIn, Swapped
    <3>6. v.out = kind /\ v.layer = n /\ v.time = m - n /\ v \in Outputs
      BY <3>2, <3>3 DEF Output, Outputs, Shape
    <3>7. added[a] = Append(array[a], v)
      BY <1>1, <2>1, <2>4 DEF v
    <3> HIDE DEF added, hit
    <3>8. \A i \in DOMAIN added[a] : added[a][i] = v \/
            (i \in DOMAIN array[a] /\ added[a][i] = array[a][i])
      BY <2>1, <3>6, <3>7
    <3> QED
      BY <2>2, <3>4, <3>5, <3>6, <3>8 DEF HoldsOnly
  <2> QED
    BY <2>3, <2>4
<1> QED
  BY <1>2 DEF Own

\* A slab holds only the output of its own cell, of the one kind region 3 will
\* look for or, at step 0 of the layers from 2 on, of the other: in both arrays,
\* for every shape, in both builds.
THEOREM AlwaysOwnOutputs == Spec => []OwnOutputs
<1>1. Init => OwnOutputs
  <2> SUFFICES ASSUME Init, NEW c \in Cells
               PROVE  /\ hsss[Offset(c[1], c[2])] = <<>>
                      /\ csss[Offset(c[1], c[2])] = <<>>
    BY DEF OwnOutputs, HoldsOnly
  <2>1. Shape
    BY ShapeAssumption DEF Init, Shape
  <2> QED
    BY <2>1, SlabOfCell DEF Init
<1>2. ASSUME BasicInv, OwnOutputs, [Next]_vars
      PROVE  OwnOutputs'
  <2>1. Shape /\ depth \in Nat /\ len \in Nat /\ TypeOK /\ LoopInv
    BY <1>2, ShapeOfType DEF BasicInv
  <2>2. /\ hsss \in Arrays /\ Own("hsss", hsss)
        /\ csss \in Arrays /\ Own("csss", csss)
    BY <1>2, <2>1, OwnIsBoth DEF TypeOK, Arrays
  <2>3. UNCHANGED <<depth, len>>
    BY <1>2 DEF Next, Region1, Region2, Region3, NextRegion, shape, vars
  <2>4. ASSUME Own("hsss", hsss'), Own("csss", csss')
        PROVE  OwnOutputs'
    <3>1. Cells' = Cells /\ \A d, l : Offset(d, l)' = Offset(d, l)
      BY <2>3 DEF Cells, Offset
    <3>2. \A d, l : /\ KindIn("hsss", d, l) = IF Swapped(d, l) THEN "c" ELSE "h"
                   /\ KindIn("csss", d, l) = IF Swapped(d, l) THEN "h" ELSE "c"
      BY DEF KindIn
    <3> QED
      BY <2>4, <3>1, <3>2 DEF Own, OwnOutputs, HoldsOnly, Swapped
  <2>5. CASE Region1
    <3> DEFINE l == Target(step)
    <3>1. step \in 0..len - 1 /\ 0 \in 0..depth - 1
      BY <1>2, <2>1, <2>5 DEF Region1, Running, LoopEnd, LoopInv, Shape
    <3>2. /\ l \in 0..len - 1 /\ Offset(0, l) = l /\ TimeOf(0, l, step)
      BY <2>1, <3>1 DEF Target, Offset, TimeOf
    <3>3. KindIn("hsss", 0, l) = "h" /\ KindIn("csss", 0, l) = "c"
      BY DEF KindIn, Swapped
    <3>4. /\ hsss' = Store(hsss, Offset(0, l), Output(KindIn("hsss", 0, l), 0, step))
          /\ csss' = Store(csss, Offset(0, l), Output(KindIn("csss", 0, l), 0, step))
      BY <2>5, <3>2, <3>3 DEF Region1
    <3> HIDE DEF l
    <3> QED
      BY <2>1, <2>2, <2>4, <3>1, <3>2, <3>4, OwnOfStore
  <2>6. CASE Region2
    <3>1. step \in 1..depth - 1 /\ step \in 0..depth - 1 /\ 0 \in 0..len - 1
      BY <2>1, <2>6 DEF Region2, Running, LoopEnd, LoopInv, Shape
    <3>2. /\ KindIn("hsss", step, 0) = IF step = 1 THEN "h" ELSE "c"
          /\ KindIn("csss", step, 0) = IF step = 1 THEN "c" ELSE "h"
      BY <3>1 DEF KindIn, Swapped
    <3>3. /\ hsss' = Store(hsss, Offset(step, 0), Output(KindIn("hsss", step, 0), step, 0))
          /\ csss' = Store(csss, Offset(step, 0), Output(KindIn("csss", step, 0), step, 0))
      BY <2>6, <3>2 DEF Region2
    <3>4. TimeOf(step, 0, 0)
      BY DEF TimeOf
    <3> QED
      BY <2>1, <2>2, <2>4, <3>1, <3>3, <3>4, OwnOfStore
  <2>7. CASE Region3
    <3>1. step \in Int /\ Visited(step)
      BY <2>1, <2>7, RegionVisits DEF Region3
    <3>2. hsss' = Scatter(hsss, "h", step) /\ csss' = Scatter(csss, "c", step)
      BY <2>1, <2>7, <3>1, WindowsAreInside DEF Region3
    <3> QED
      BY <2>1, <2>2, <2>4, <3>1, <3>2, OwnOfScatter
  <2>8. CASE NextRegion \/ UNCHANGED vars
    BY <2>2, <2>4, <2>8 DEF NextRegion, vars
  <2> QED
    BY <1>2, <2>5, <2>6, <2>7, <2>8 DEF Next
<1> QED
  BY <1>1, <1>2, BasicInvariance, PTL DEF Spec

-----------------------------------------------------------------------------
(***************************************************************************)
(* The order of the launches.                                              *)
(***************************************************************************)

\* The two inputs of an active cell of a hyperplane have been walked.
LEMMA InputsWalked ==
  ASSUME Shape, region = 3, step \in Int, Visited(step), NEW n \in Active(step)
  PROVE  /\ <<n - 1, step - n>> \in Cells /\ Walked(n - 1, step - n)
         /\ <<n, step - n - 1>> \in Cells /\ Walked(n, step - n - 1)
<1>1. /\ n \in 1..depth - 1 /\ n - 1 \in 0..depth - 1 /\ n \in 0..depth - 1
      /\ step - n \in 0..len - 1 /\ step - n - 1 \in 0..len - 1
  BY ActiveCells
<1> QED
  BY <1>1 DEF Walked, Cells

LEMMA WalkedIsStored ==
  ASSUME ProgressInv, NEW d, NEW l, <<d, l>> \in Cells, Walked(d, l)
  PROVE  hsss[Offset(d, l)] # <<>>
<1> DEFINE c == <<d, l>>
<1>1. c[1] = d /\ c[2] = l
  OBVIOUS
<1>2. Len(hsss[Offset(d, l)]) = 1
  BY <1>1 DEF ProgressInv
<1> QED
  BY <1>2

\* What a launch reads from hsss was stored by an earlier launch, so its cells
\* may run in parallel.
THEOREM ReadsAreOrdered ==
  ASSUME ~Fused PROVE Spec => StoredBeforeRead
<1> DEFINE Ordered == \A o \in operands' : o.from = "hsss" => hsss[o.slab] # <<>>
<1>1. ASSUME BasicInv, ProgressInv, Next
      PROVE  Ordered
  <2>1. Shape /\ depth \in Nat /\ len \in Nat /\ TypeOK /\ LoopInv
    BY <1>1, ShapeOfType DEF BasicInv
  <2>2. CASE Region1
    <3>1. step \in 0..len - 1 /\ region = 1
      BY <2>1, <2>2 DEF Region1, Running, LoopEnd, LoopInv
    <3>2. \A o \in operands' : step > 0 /\ o.slab = step - 1
      BY <2>2, <3>1 DEF Region1, Operand
    <3>3. step > 0 => <<0, step - 1>> \in Cells /\ Walked(0, step - 1)
      BY <2>1, <3>1 DEF Cells, Walked, Shape
    <3>4. step > 0 => hsss[Offset(0, step - 1)] # <<>>
      BY <1>1, <3>3, WalkedIsStored
    <3>5. step > 0 => Offset(0, step - 1) = step - 1
      BY <2>1, <3>1 DEF Offset
    <3> QED
      BY <3>2, <3>4, <3>5
  <2>3. CASE Region2
    <3>1. step \in 1..depth - 1 /\ region = 2
      BY <2>1, <2>3 DEF Region2, Running, LoopEnd, LoopInv
    <3>2. <<step - 1, 0>> \in Cells /\ Walked(step - 1, 0)
      BY <2>1, <3>1 DEF Cells, Walked, Shape
    <3>3. hsss[Offset(step - 1, 0)] # <<>>
      BY <1>1, <3>2, WalkedIsStored
    <3> QED
      BY <2>3, <3>3 DEF Region2, Operand
  <2>4. CASE Region3
    <3>1. step \in Int /\ Visited(step) /\ region = 3
      BY <2>1, <2>4, RegionVisits DEF Region3, Running
    <3>2. operands' = HyperplaneOperands(step)
      BY <2>1, <2>4, <3>1, WindowsAreInside DEF Region3
    <3>3. ASSUME NEW o \in operands', o.from = "hsss"
          PROVE  hsss[o.slab] # <<>>
      <4> DEFINE n == o.layer
      <4>1. /\ n \in Active(step) /\ o.time = step - n
            /\ o.slab = IF o.role = "x" THEN Offset(n - 1, step - n)
                                        ELSE Offset(n, step - n - 1)
        BY <2>1, <3>1, <3>2, <3>3, OperandsOfHyperplane
      <4> HIDE DEF n
      <4>2. /\ hsss[Offset(n - 1, step - n)] # <<>>
            /\ hsss[Offset(n, step - n - 1)] # <<>>
        BY <1>1, <2>1, <3>1, <4>1, InputsWalked, WalkedIsStored
      <4> QED
        BY <4>1, <4>2
    <3> QED
      BY <3>3
  <2>5. CASE NextRegion
    BY <2>5 DEF NextRegion
  <2> QED
    BY <1>1, <2>2, <2>3, <2>4, <2>5 DEF Next
<1>2. BasicInv /\ ProgressInv /\ [Next]_vars => [Ordered]_vars
  BY <1>1
<1>3. Spec => [][Ordered]_vars
  BY Invariance, <1>2, PTL DEF Spec
<1> QED
  BY <1>3 DEF StoredBeforeRead

-----------------------------------------------------------------------------
(***************************************************************************)
(* The schedule implements the dataflow graph.                             *)
(***************************************************************************)

Done == {c \in Cells : hsss[Offset(c[1], c[2])] # <<>>}

\* What has been stored to is what has been walked.
LEMMA DoneIsWalked ==
  ASSUME ProgressInv
  PROVE  Done = {c \in Cells : Walked(c[1], c[2])}
<1>1. ASSUME NEW c \in Cells
      PROVE  hsss[Offset(c[1], c[2])] # <<>> <=> Walked(c[1], c[2])
  <2>1. Walked(c[1], c[2]) => Len(hsss[Offset(c[1], c[2])]) = 1
    BY DEF ProgressInv
  <2>2. ~Walked(c[1], c[2]) => hsss[Offset(c[1], c[2])] = <<>>
    BY DEF ProgressInv
  <2>3. Len(<<>>) # 1
    OBVIOUS
  <2> QED
    BY <2>1, <2>2, <2>3
<1> QED
  BY <1>1 DEF Done

\* What one step walks depends on nothing it does not find walked.
LEMMA WalkedInOrder ==
  ASSUME BasicInv, Next
  PROVE  /\ UNCHANGED <<depth, len>>
         /\ \A c \in Cells :
              /\ Walked(c[1], c[2]) => Walked(c[1], c[2])'
              /\ Walked(c[1], c[2])' /\ ~Walked(c[1], c[2]) =>
                   \A e \in Cells : Dataflow!DependsOn(c[1], c[2], e) => Walked(e[1], e[2])
<1>1. Shape /\ depth \in Nat /\ len \in Nat /\ TypeOK /\ LoopInv
  BY ShapeOfType DEF BasicInv
<1>2. UNCHANGED <<depth, len>>
  BY DEF Next, Region1, Region2, Region3, NextRegion, shape
<1>3. ASSUME NEW c \in Cells
      PROVE  /\ Walked(c[1], c[2]) => Walked(c[1], c[2])'
             /\ Walked(c[1], c[2])' /\ ~Walked(c[1], c[2]) =>
                  \A e \in Cells : Dataflow!DependsOn(c[1], c[2], e) => Walked(e[1], e[2])
  <2>1. c[1] \in 0..depth - 1 /\ c[2] \in 0..len - 1
    BY <1>1, SlabOfCell
  <2>2. ASSUME NEW e \in Cells, Dataflow!DependsOn(c[1], c[2], e)
        PROVE  /\ e[1] \in 0..depth - 1 /\ e[2] \in 0..len - 1
               /\ e[1] + e[2] = c[1] + c[2] - 1
               /\ e[1] <= c[1] /\ e[2] <= c[2]
    <3>1. e[1] \in 0..depth - 1 /\ e[2] \in 0..len - 1
      BY <1>1, SlabOfCell
    <3>2. \/ e[1] = c[1] - 1 /\ e[2] = c[2]
          \/ e[1] = c[1] /\ e[2] = c[2] - 1
      BY <2>2 DEF Dataflow!DependsOn
    <3> QED
      BY <2>1, <3>1, <3>2
  <2>3. CASE Region1
    <3>1. region = 1 /\ region' = 1 /\ step \in Nat /\ step' = step + 1
      BY <1>1, <2>3 DEF Region1, Running, LoopInv
    <3> QED
      BY <2>1, <2>2, <3>1 DEF Walked
  <2>4. CASE Region2
    <3>1. region = 2 /\ region' = 2 /\ step \in Nat /\ step' = step + 1
      BY <1>1, <2>4 DEF Region2, Running, LoopInv
    <3> QED
      BY <2>1, <2>2, <3>1 DEF Walked
  <2>5. CASE Region3
    <3>1. region = 3 /\ step \in Int /\ Visited(step)
      BY <1>1, <2>5, RegionVisits DEF Region3, Running
    <3>2. region' = 3 /\ step' = step + 1
      BY <1>1, <2>5, <3>1, WindowsAreInside DEF Region3
    <3> QED
      BY <2>1, <2>2, <3>1, <3>2 DEF Walked
  <2>6. CASE NextRegion
    <3>1. Walked(c[1], c[2])' <=> Walked(c[1], c[2])
      <4>1. CASE region = 1
        BY <1>1, <2>1, <2>6, <4>1 DEF NextRegion, LoopStart, Walked, Finished,
                                      ReturnsAtOnce, LoopEnd, LoopInv
      <4>2. CASE region = 2
        BY <1>1, <2>1, <2>6, <4>2 DEF NextRegion, LoopStart, Walked, Finished,
                                      ReturnsAtOnce, LoopEnd, LoopInv
      <4>3. CASE region = 3
        BY <2>6, <4>3 DEF NextRegion, Walked
      <4> QED
        BY <1>1, <4>1, <4>2, <4>3 DEF LoopInv
    <3> QED
      BY <3>1
  <2> QED
    BY <2>3, <2>4, <2>5, <2>6 DEF Next
<1> QED
  BY <1>2, <1>3

LEMMA DataflowStep ==
  ASSUME BasicInv, ProgressInv, ProgressInv', Next
  PROVE  Dataflow!Compute
<1>1. /\ UNCHANGED <<depth, len>> /\ Cells' = Cells
      /\ Dataflow!Cells = Cells
  BY WalkedInOrder DEF Cells, Dataflow!Cells
<1>2. Done = {c \in Cells : Walked(c[1], c[2])}
  BY DoneIsWalked
<1>3. Done' = {c \in Cells : Walked(c[1], c[2])'}
  <2>1. (Done = {c \in Cells : Walked(c[1], c[2])})'
    BY DoneIsWalked, PTL
  <2> QED
    BY <2>1, <1>1
<1>4. Done \subseteq Done' /\ Done' \subseteq Cells
  BY <1>2, <1>3, WalkedInOrder
<1>5. \A c \in Done' \ Done : \A e \in Cells :
        Dataflow!DependsOn(c[1], c[2], e) => e \in Done
  BY <1>2, <1>3, WalkedInOrder
<1> QED
  BY <1>1, <1>4, <1>5 DEF Dataflow!Compute, Done

\* Hyperplane by hyperplane, region 3 and the two borders before it compute
\* the cells in an order the dataflow graph allows.
THEOREM Refinement ==
  ASSUME ~Fused PROVE Spec => ImplementsDataflow
<1>1. Init => Dataflow!Init
  <2> SUFFICES ASSUME Init PROVE Dataflow!Init
    OBVIOUS
  <2>1. Shape
    BY ShapeAssumption DEF Init, Shape
  <2>2. \A c \in Cells : hsss[Offset(c[1], c[2])] = <<>>
    BY <2>1, SlabOfCell DEF Init
  <2> QED
    BY <2>2 DEF Init, Dataflow!Init
<1>2. BasicInv /\ ProgressInv /\ ProgressInv' /\ [Next]_vars
        => [Dataflow!Compute]_(Dataflow!vars)
  <2>1. ASSUME UNCHANGED vars PROVE UNCHANGED Dataflow!vars
    BY <2>1 DEF vars, shape, Dataflow!vars, Cells, Offset
  <2> QED
    BY <2>1, DataflowStep
<1> QED
  BY Invariance, <1>1, <1>2, PTL DEF Spec, ImplementsDataflow, Dataflow!Spec
=============================================================================
