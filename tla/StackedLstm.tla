---------------------------- MODULE StackedLstm ----------------------------
(***************************************************************************)
(* The depth-first schedule of the stacked LSTM:                           *)
(* benchmarks/rnn/fractaltensor/stacked_lstm/lstm.cu calls the three       *)
(* control regions one after the other on the default stream. Region 1     *)
(* walks layer 0, region 2 step 0 of the other layers, and region 3 the    *)
(* rest, one hyperplane d + l = m at a time, all of its cells in parallel. *)
(*                                                                         *)
(* The unit of every offset is a slab: the batch_size * hidden_size        *)
(* numbers of one cell of hsss or csss. Numbers are not modelled; a slab   *)
(* holds the outputs that were stored in it, and atomicAdd appends.        *)
(***************************************************************************)
EXTENDS Integers, Sequences

CONSTANTS
  MaxDepth,   (* bounds on the shape a caller asks for                     *)
  MaxLength,
  Fused       (* FUSE_ALL_ELEMENTWISE is defined                           *)

ASSUME ShapeAssumption == MaxDepth \in Nat /\ MaxLength \in Nat
ASSUME FusedAssumption == Fused \in BOOLEAN

VARIABLES
  depth,      (* ws.dim_size(0)                                            *)
  len,        (* xss.dim_size(0), kDepth2                                  *)
  region,     (* the control region that runs                              *)
  step,       (* its loop variable: time step, layer or hyperplane         *)
  hsss, csss, (* what is stored in each slab                               *)
  operands,   (* the slabs handed to the kernels of the last step          *)
  status      (* "ok", "done", or "abort" after a failed CHECK_LE          *)

shape == <<depth, len>>
vars  == <<depth, len, region, step, hsss, csss, operands, status>>

(***************************************************************************)
(* Addressing.                                                             *)
(***************************************************************************)

Larger(a, b)  == IF a >= b THEN a ELSE b
Smaller(a, b) == IF a <= b THEN a ELSE b

Cells == (0..depth - 1) \X (0..len - 1)
Slabs == 0..depth * len - 1

\* cal_offset of region 3, in slabs; faulty variant: column major.
ColumnMajor(d, l) == l * depth + d
Offset(d, l)      == d * len + l

\* The layers that are active in hyperplane m: lb2 <= n < ub2. (The faulty
\* variants forget the bounds that the sequence and the loop order set.)
LowerUnclipped(m) == 1
LowerLayer(m)     == Larger(1, m - len + 1)
UpperInclusive(m) == Smaller(depth, m + 1)
UpperLayer(m)     == Smaller(depth, m)
Width(m)          == UpperLayer(m) - LowerLayer(m)

\* From one cell of a hyperplane to the next: a layer up, a time step back.
WholeRow == len
Stride   == len - 1

\* Where the windows of x = hsss[i-1][j] and h = hsss[i][j-1] begin.
StartX(m) == Offset(LowerLayer(m) - 1, m - LowerLayer(m))
StartH(m) == Offset(LowerLayer(m), m - LowerLayer(m) - 1)

\* Tensor::CreateFrom: its CHECK_LE, and what that does not check.
Span(m)     == (Width(m) - 1) * Stride + 1
Fits(start, n, total) == start + n <= total

(***************************************************************************)
(* The loops of the regions. A region with depth = 1 returns at once. (The *)
(* faulty variants start and end a loop at the wrong iteration.)           *)
(***************************************************************************)

StartsLate  == <<0, 1, 3>>
LoopStart   == <<0, 1, 2>>
EndsEarly   == <<len, depth - 1, len + depth - 1>>
RunsOver    == <<len, depth, len + depth>>
LoopEnd     == <<len, depth, len + depth - 1>>

(***************************************************************************)
(* What a launch reads and stores.                                         *)
(***************************************************************************)

Output(kind, d, l) == [out |-> kind, layer |-> d, time |-> l]

\* The operand a kernel reads for cell (d, l) from slab a of an array.
Operand(role, d, l, array, a) ==
  [role |-> role, layer |-> d, time |-> l, from |-> array, slab |-> a]

\* A plain store, as opposed to atomicAdd.
Store(array, a, v) == [array EXCEPT ![a] = <<v>>]

ReturnsAtOnce(r) == r > 1 /\ depth = 1

Running(r) ==
  /\ status = "ok" /\ region = r
  /\ ~ReturnsAtOnce(r) /\ step < LoopEnd[r]

Finished == ReturnsAtOnce(region) \/ step >= LoopEnd[region]

\* The fused activation is given the whole of out1 and out2, so it always
\* stores to their first slab.
Target(l) == IF Fused THEN 0 ELSE l

\* The step of LstmLayer for time step l. It is given (csss, hsss) as (out1,
\* out2) and the activation finds its c in out2. Gemm reads nothing of xss,
\* out1 or the weights: it multiplies memory of its own (utils.h:220-246), the
\* call with its parameters is a comment (252-254).
Region1 ==
  /\ Running(1)
  /\ csss' = Store(csss, Target(step), Output("c", 0, step))
  /\ hsss' = Store(hsss, Target(step), Output("h", 0, step))
  /\ operands' = IF step = 0 THEN {} ELSE {Operand("c", 0, step, "hsss", step - 1)}
  /\ step' = step + 1
  /\ UNCHANGED <<shape, region, status>>

\* LstmCell for step 0 of layer d, whose h and c are a zero tensor. Layer 1
\* gives it the outputs as (csss, hsss), the loop over the others as
\* (hsss, csss).
Region2 ==
  LET d     == step
      cell  == Output("c", d, 0)
      state == Output("h", d, 0)
  IN
  /\ Running(2)
  /\ csss' = Store(csss, Offset(d, 0), IF d = 1 THEN cell ELSE state)
  /\ hsss' = Store(hsss, Offset(d, 0), IF d = 1 THEN state ELSE cell)
  /\ operands' = {Operand("x", d, 0, "hsss", Offset(d - 1, 0))}
  /\ step' = step + 1
  /\ UNCHANGED <<shape, region, status>>

\* The layers of the cells of hyperplane m.
Active(m) == LowerLayer(m)..UpperLayer(m) - 1

\* ScatterNdCUDAKernel: atomicAdd of the outputs at (n, m - n).
Scatter(array, kind, m) ==
  [a \in Slabs |->
     LET hit == {n \in Active(m) : Offset(n, m - n) = a} IN
     IF hit = {} THEN array[a]
     ELSE Append(array[a], LET n == CHOOSE n \in hit : TRUE
                           IN  Output(kind, n, m - n))]

\* The strided batched GEMM reads x and h a stride apart, the activation reads
\* c without one.
HyperplaneOperands(m) ==
  LET lb == LowerLayer(m) IN
  UNION {{Operand("x", n, m - n, "hsss", StartX(m) + (n - lb) * Stride),
          Operand("h", n, m - n, "hsss", StartH(m) + (n - lb) * Stride),
          Operand("c", n, m - n, "csss", StartH(m) + (n - lb))} : n \in Active(m)}

\* The CHECK_LE of each CreateFrom: x, h and c in hsss and csss, w and u in
\* their depth matrices.
WindowsFit(m) ==
  /\ Fits(StartX(m), Span(m), depth * len)
  /\ Fits(StartH(m), Span(m), depth * len)
  /\ Fits(LowerLayer(m), Width(m), depth)

Region3 ==
  LET m == step IN
  /\ Running(3)
  /\ IF WindowsFit(m)
     THEN /\ csss' = Scatter(csss, "c", m)
          /\ hsss' = Scatter(hsss, "h", m)
          /\ operands' = HyperplaneOperands(m)
          /\ step' = step + 1
          /\ UNCHANGED <<shape, region, status>>
     ELSE status' = "abort"
          /\ UNCHANGED <<shape, region, step, hsss, csss, operands>>

\* The loop of a region ends, and the next region, if any, begins.
NextRegion ==
  /\ status = "ok" /\ Finished
  /\ IF region = 3
     THEN status' = "done" /\ UNCHANGED <<region, step>>
     ELSE /\ region' = region + 1
          /\ step' = LoopStart[region + 1]
          /\ UNCHANGED status
  /\ operands' = {}
  /\ UNCHANGED <<shape, hsss, csss>>

-----------------------------------------------------------------------------

\* FillZeros(hsss), FillZeros(csss).
Init ==
  /\ depth \in 1..MaxDepth
  /\ len \in 1..MaxLength
  /\ region = 1
  /\ step = 0
  /\ hsss = [a \in Slabs |-> <<>>]
  /\ csss = [a \in Slabs |-> <<>>]
  /\ operands = {}
  /\ status = "ok"

Next == Region1 \/ Region2 \/ Region3 \/ NextRegion

Spec == Init /\ [][Next]_vars

-----------------------------------------------------------------------------
(***************************************************************************)
(* Properties.                                                             *)
(***************************************************************************)

Outputs == [out : {"c", "h"}, layer : Nat, time : Nat]

TypeOK ==
  /\ depth \in 1..MaxDepth
  /\ len \in 1..MaxLength
  /\ region \in 1..3
  /\ step \in 0..Larger(2, len + depth - 1)
  /\ hsss \in [Slabs -> Seq(Outputs)]
  /\ csss \in [Slabs -> Seq(Outputs)]
  /\ status \in {"ok", "done", "abort"}

\* No CHECK_LE fails, and no window begins in front of its tensor, which
\* CreateFrom does not check: every slab a launch reads exists.
OperandsExist ==
  /\ status # "abort"
  /\ \A o \in operands : o.from \in {"hsss", "csss"} => o.slab \in Slabs

\* stacked_lstm/README.md: accesses to ysss, xs and hs follow "a fixed stride";
\* region3.h: "`xs` refers to `hsss`[i - 1][j][k]", "`hs` refers to
\* `hsss`[i][j - 1][k]". The one window and stride of a hyperplane lead each
\* of its cells to its own two inputs.
StrideFindsInputs ==
  region = 3 => \A o \in operands :
    /\ o.role = "x" => o.from = "hsss" /\ o.slab = Offset(o.layer - 1, o.time)
    /\ o.role = "h" /\ o.time > 0 =>
         o.from = "hsss" /\ o.slab = Offset(o.layer, o.time - 1)

\* What is said of the operands of a cell (i, j) of region 3: "`xs` refers to
\* `hsss`[i - 1][j][k]", "`hs` refers to `hsss`[i][j - 1][k]" (region3.h:81-83) and
\* "c_{t-1}" (utils.h:427). In a launch of several cells, each operand holds that
\* output. It does not: run StackedLstmOperands.
ParallelOperandsHold ==
  region = 3 =>
    \A o \in operands : (\E e \in operands : e.layer # o.layer) =>
      LET before == o.time - 1 IN
      /\ o.role = "x" => hsss[o.slab] = <<Output("h", o.layer - 1, o.time)>>
      /\ o.role = "h" => hsss[o.slab] = <<Output("h", o.layer, before)>>
      /\ o.role = "c" => csss[o.slab] = <<Output("c", o.layer, before)>>

\* The scatter of region 3 adds to what is there: no slab is added to twice, or
\* after it was stored to.
StoredOnce ==
  \A c \in Cells : LET a == Offset(c[1], c[2]) IN
    Len(hsss[a]) <= 1 /\ Len(csss[a]) <= 1

\* Step 0 of the layers from 2 on gives the outputs the other way round to
\* LstmCell (region2.h:86-88).
Swapped(d, l) == d >= 2 /\ l = 0

\* A slab holds nothing but the output of one kind of its own cell. (The fused
\* build overwrites the first slab of layer 0 at every time step.)
HoldsOnly(slab, kind, d, l) ==
  \A i \in DOMAIN slab :
    /\ slab[i].out = kind /\ slab[i].layer = d
    /\ slab[i].time = l \/ (Fused /\ d = 0 /\ l = 0)

\* A slab of hsss never holds anything but the hidden state, and one of csss
\* anything but the cell state, of the cell it belongs to: no hyperplane and no
\* loop spills into the slab of another cell. Where region 2 swaps the two, the
\* slabs hold the other one, which region 3 then reads (ParallelOperandsHold).
OwnOutputs ==
  \A c \in Cells :
    LET d == c[1]
        l == c[2]
        a == Offset(d, l)
    IN
    /\ HoldsOnly(hsss[a], IF Swapped(d, l) THEN "c" ELSE "h", d, l)
    /\ HoldsOnly(csss[a], IF Swapped(d, l) THEN "h" ELSE "c", d, l)

\* All cells of a launch run in parallel: what they read from hsss was stored by
\* an earlier launch, never by the same one.
StoredBeforeRead ==
  [][\A o \in operands' : o.from = "hsss" => hsss[o.slab] # <<>>]_vars

\* The regions partition the cells: when all have returned, hsss and csss are
\* stored to in every one. (With Fused, layer 0 is not.)
EveryCellStored ==
  status = "done" =>
    \A c \in Cells : LET a == Offset(c[1], c[2]) IN
      hsss[a] # <<>> /\ csss[a] # <<>>

\* The schedule computes the dataflow graph: no cell before its inputs.
Dataflow == INSTANCE LstmDataflow WITH
  done <- {c \in Cells : hsss[Offset(c[1], c[2])] # <<>>}

ImplementsDataflow == Dataflow!Spec

-----------------------------------------------------------------------------
(***************************************************************************)
(* The inductive invariant.                                                *)
(***************************************************************************)

\* Where the loop of a region is.
LoopInv ==
  /\ region \in 1..3
  /\ step \in Nat
  /\ region = 1 => step <= len
  /\ region = 2 => step \in 1..depth
  /\ region = 3 => step >= 2 /\ (depth = 1 => step = 2)

\* The cells the regions have walked so far.
Walked(d, l) ==
  \/ d = 0 /\ (region = 1 => l < step)
  \/ l = 0 /\ d > 0 /\ (region = 3 \/ (region = 2 /\ d < step))
  \/ region = 3 /\ d + l < step

\* They are stored to once, the others not at all.
ProgressInv ==
  \A c \in Cells : LET a == Offset(c[1], c[2]) IN
    /\ Walked(c[1], c[2]) => Len(hsss[a]) = 1 /\ Len(csss[a]) = 1
    /\ ~Walked(c[1], c[2]) => hsss[a] = <<>> /\ csss[a] = <<>>

BasicInv ==
  /\ TypeOK /\ LoopInv /\ OperandsExist /\ StrideFindsInputs
  /\ status = "done" => region = 3 /\ Finished

IInv == BasicInv /\ (~Fused => ProgressInv)
=============================================================================
