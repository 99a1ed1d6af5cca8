------------------------------ MODULE GridLstm ------------------------------
(***************************************************************************)
(* The wavefront schedule of the grid LSTM:                                *)
(* benchmarks/rnn/fractaltensor/grid_lstm/stacked_grid_rnn.cu. Cell        *)
(* (d, i, j) of layer d, source position i and target position j has two   *)
(* outputs, hsss[d][i][j][0] and hsss[d][i][j][1]. Eight control regions,  *)
(* one for each choice of coordinates that are zero, are called in order;  *)
(* each walks its cells one hyperplane at a time, a launch for all cells   *)
(* of a hyperplane.                                                        *)
(*                                                                         *)
(* The unit of an offset in hsss is the slab of one output, in bs a row.   *)
(* A slab holds the list of what was stored or added to it.                *)
(***************************************************************************)
EXTENDS Integers, Sequences, FiniteSets

CONSTANT Batch  (* batch_size                                              *)

VARIABLES
  depth, src, trg, (* ws.dim_size(0), hsss.dim_size(1), hsss.dim_size(2)   *)
  region,
  step,       (* its loop variable                                         *)
  hsss,
  launched,   (* history: how often each cell was part of a launch         *)
  operands,   (* what the kernels of the last step were given              *)
  status      (* "ok", "done", or "abort" after a failed CHECK_LE          *)

shape == <<depth, src, trg>>
vars  == <<depth, src, trg, region, step, hsss, launched, operands, status>>

Larger(a, b)  == IF a >= b THEN a ELSE b
Smaller(a, b) == IF a <= b THEN a ELSE b

Cells == (0..depth - 1) \X (0..src - 1) \X (0..trg - 1)
Slabs == 0..depth * src * trg * 2 - 1

\* The offset GatherNdCUDAKernel and ScatterNdCUDAKernel compute from an index.
Slab(c, k) == ((c[1] * src + c[2]) * trg + c[3]) * 2 + k

-----------------------------------------------------------------------------
(***************************************************************************)
(* Loops. (The faulty variants end one too early or forget a bound.)       *)
(***************************************************************************)

LoopStart == <<0, 1, 1, 2, 1, 2, 2, 3>>
LoopEnd   == <<1, src, trg, src + trg - 1, depth, depth + src - 1,
               depth + trg - 1, depth + src + trg - 2>>

ReturnsAtOnce(r) ==
  \/ depth <= 1 /\ r \in {5, 6, 7, 8}
  \/ src <= 1 /\ r \in {2, 4, 6, 8}
  \/ trg <= 1 /\ r \in {3, 4, 7, 8}

\* The indices p >= 1 of a hyperplane p + q = m with 1 <= q < other, p < own.
FirstUnclipped(m, other) == 1
First(m, other)          == Larger(1, m - other + 1)
Last(m, own)             == Smaller(m, own) - 1

\* Region 8 walks n first, then p.
LayersOf8(m) == Larger(1, m - src - trg + 2)..Smaller(m - 1, depth) - 1

\* The cells of the launch region r makes at iteration m.
HyperplaneOf(r, m) ==
  CASE r = 1 -> {<<0, 0, 0>>}
    [] r = 2 -> {<<0, m, 0>>}
    [] r = 3 -> {<<0, 0, m>>}
    [] r = 4 -> {<<0, p, m - p>> : p \in First(m, trg)..Last(m, src)}
    [] r = 5 -> {<<m, 0, 0>>}
    [] r = 6 -> {<<n, m - n, 0>> : n \in First(m, src)..Last(m, depth)}
    [] r = 7 -> {<<p, 0, m - p>> : p \in First(m, trg)..Last(m, depth)}
    [] r = 8 -> UNION {{<<n, p, m - n - p>> :
                          p \in First(m - n, trg)..Last(m - n, src)} :
                       n \in LayersOf8(m)}

Running(r) ==
  /\ status = "ok" /\ region = r
  /\ ~ReturnsAtOnce(r) /\ step < LoopEnd[r]

-----------------------------------------------------------------------------
(***************************************************************************)
(* What a launch reads.                                                    *)
(***************************************************************************)

Operand(role, c, array, a) ==
  [role |-> role, cell |-> c, from |-> array, at |-> a]

Below(c)        == <<c[1] - 1, c[2], c[3]>>
BeforeSource(c) == <<c[1], c[2] - 1, c[3]>>
BeforeTarget(c) == <<c[1], c[2], c[3] - 1>>

\* The states. (Faulty variant: the other output of the neighbour.)
StateXOfY(c) == Operand("state_x", c, "hsss", Slab(BeforeSource(c), 1))
StateX(c) == Operand("state_x", c, "hsss", Slab(BeforeSource(c), 0))
StateY(c) == Operand("state_y", c, "hsss", Slab(BeforeTarget(c), 1))

\* x and y of a cell above layer 0: the two outputs of the cell below.
FromBelow(c) == {Operand("x", c, "hsss", Slab(Below(c), 0)),
                 Operand("y", c, "hsss", Slab(Below(c), 1))}

\* x and y of region 4: one window into xss and one into yss for the launch.
\* Cell p of the launch needs row m - p of yss. The rows of the window ascend
\* while those descend, and it begins one row before the smallest of them.
FromWindows(m, c) ==
  LET k == c[2] - First(m, trg) IN
  {Operand("x", c, "xss", First(m, trg) + k),
   Operand("y", c, "yss", m - (Last(m, src) + 1) + k)}

FromInputs(c) == {Operand("x", c, "xss", c[2]), Operand("y", c, "yss", c[3])}

\* The weights: those of layer 0 in regions 1 to 4, windows of ws, us and bs in
\* 5 to 7, gathered for each cell in 8, where the bias of a cell is taken a row
\* instead of a layer at a time. (The bias is not read by a launch of one.)
BiasRow(r, c) == IF r = 8 THEN c[1] ELSE c[1] * Batch

\* Elementwise_Vanilla returns before its kernels when batch_count is 1. (The
\* faulty variant does not.)
AlwaysComputes(batch_count) == TRUE
Computes(batch_count)       == batch_count # 1

\* The last argument of VanillaRNNCellBMM: 1 in regions 1 to 5.
BatchCount(r, cells) == IF r <= 5 THEN 1 ELSE Cardinality(cells)

Weights(r, c, batch_count) ==
  {Operand("w", c, "ws", c[1]), Operand("u", c, "us", c[1])} \cup
  (IF Computes(batch_count) THEN {Operand("b", c, "bs", BiasRow(r, c))} ELSE {})

\* All operands of a cell. States that are not read are tensors of zeros.
OperandsOf(r, m, c, batch_count) ==
  Weights(r, c, batch_count) \cup
  (IF r \in {2, 4, 6, 8} THEN {StateX(c)} ELSE {}) \cup
  (IF r \in {3, 4, 7, 8} THEN {StateY(c)} ELSE {}) \cup
  (CASE r \in 1..3 -> FromInputs(c)
     [] r = 4      -> FromWindows(m, c)
     [] r \in 5..8 -> FromBelow(c))

-----------------------------------------------------------------------------
(***************************************************************************)
(* What a launch stores.                                                   *)
(***************************************************************************)

Zero         == [out |-> "zero"]
Output(c, k) == [out |-> "h", cell |-> c, of |-> k]

\* h_x and h_y are views of hsss.
StoreViews(c, batch_count) ==
  IF Computes(batch_count)
  THEN [hsss EXCEPT ![Slab(c, 0)] = <<Output(c, 0)>>,
                    ![Slab(c, 1)] = <<Output(c, 1)>>]
  ELSE hsss

\* h_x and h_y start as zeros and are added to hsss when the launch is over.
ScatterAdd(cells, batch_count) ==
  [a \in Slabs |->
     LET hit == {e \in cells \X {0, 1} : Slab(e[1], e[2]) = a} IN
     IF hit = {} THEN hsss[a]
     ELSE LET e == CHOOSE e \in hit : TRUE IN
          Append(hsss[a], IF Computes(batch_count) THEN Output(e[1], e[2])
                                                   ELSE Zero)]

\* The CHECK_LE of the windows into xss, yss, ws, us and bs.
WindowsFit(r, m, cells) ==
  CASE r = 4 -> /\ First(m, trg) + Cardinality(cells) <= src
                /\ m - (Last(m, src) + 1) + Cardinality(cells) <= trg
    [] r = 6 -> First(m, src) + Cardinality(cells) <= depth
    [] r = 7 -> First(m, trg) + Cardinality(cells) <= depth
    [] OTHER -> TRUE

Launch(r, stored) ==
  LET cells == HyperplaneOf(r, step)
      n     == BatchCount(r, cells)
  IN
  /\ Running(r)
  /\ IF WindowsFit(r, step, cells)
     THEN /\ hsss' = stored
          /\ launched' = [c \in Cells |-> launched[c] + IF c \in cells THEN 1 ELSE 0]
          /\ operands' = UNION {OperandsOf(r, step, c, n) : c \in cells}
          /\ step' = step + 1
          /\ UNCHANGED <<shape, region, status>>
     ELSE status' = "abort"
          /\ UNCHANGED <<shape, region, step, hsss, launched, operands>>

\* Regions with one cell in each launch work on views of hsss.
Single(r)   == Launch(r, StoreViews(CHOOSE c \in HyperplaneOf(r, step) : TRUE, 1))

\* The others gather their inputs from hsss and scatter their outputs.
Gathered(r) == LET cells == HyperplaneOf(r, step)
               IN  Launch(r, ScatterAdd(cells, BatchCount(r, cells)))

Region1 == Single(1)
Region2 == Single(2)
Region3 == Single(3)
Region4 == Gathered(4)
Region5 == Single(5)
Region6 == Gathered(6)
Region7 == Gathered(7)
Region8 == Gathered(8)

NextRegion ==
  /\ status = "ok"
  /\ ReturnsAtOnce(region) \/ step >= LoopEnd[region]
  /\ IF region = 8
     THEN status' = "done" /\ UNCHANGED <<region, step>>
     ELSE /\ region' = region + 1
          /\ step' = LoopStart[region + 1]
          /\ UNCHANGED status
  /\ operands' = {}
  /\ UNCHANGED <<shape, hsss, launched>>

\* A call with d layers and sequences of lengths s and t.
InitFor(d, s, t) ==
  /\ depth = d /\ src = s /\ trg = t
  /\ region = 1 /\ step = 0
  /\ hsss = [a \in Slabs |-> <<>>]
  /\ launched = [c \in Cells |-> 0]
  /\ operands = {}
  /\ status = "ok"

Next ==
  \/ Region1 \/ Region2 \/ Region3 \/ Region4
  \/ Region5 \/ Region6 \/ Region7 \/ Region8
  \/ NextRegion

-----------------------------------------------------------------------------
(***************************************************************************)
(* Properties.                                                             *)
(***************************************************************************)

\* The cells that share a hyperplane with c: those with the same coordinates
\* zero as c and the same sum of coordinates.
Companions(c) ==
  {e \in Cells : /\ \A n \in 1..3 : e[n] = 0 <=> c[n] = 0
                 /\ e[1] + e[2] + e[3] = c[1] + c[2] + c[3]}

\* The eight regions partition the cells: none is launched twice, a launch is a
\* whole hyperplane, and when the driver returns every cell was launched.
LaunchedOnce ==
  /\ status # "abort"
  /\ \A c \in Cells :
       /\ launched[c] <= 1
       /\ \A e \in Companions(c) : launched[e] = launched[c]
       /\ status = "done" => launched[c] = 1

\* What NeighboursFound says of one launch.
FindsNeighbours ==
  LET now == {c \in Cells : launched'[c] > launched[c]}
      read(c, role) == {<<o.from, o.at>> : o \in {o \in operands' :
                                                  o.cell = c /\ o.role = role}}
      output(d, i, j, k) == {<<"hsss", Slab(<<d, i, j>>, k)>>}
  IN
  \A c \in now : LET d == c[1]  i == c[2]  j == c[3] IN
    /\ read(c, "state_x") = IF i > 0 THEN output(d, i - 1, j, 0) ELSE {}
    /\ read(c, "state_y") = IF j > 0 THEN output(d, i, j - 1, 1) ELSE {}
    /\ read(c, "x") = IF d > 0 THEN output(d - 1, i, j, 0) ELSE {<<"xss", i>>}
    /\ d > 0 => read(c, "y") = output(d - 1, i, j, 1)
    /\ d = 0 /\ (i = 0 \/ j = 0) => read(c, "y") = {<<"yss", j>>}
    /\ d = 0 => \E row \in 0..trg - 1 : read(c, "y") = {<<"yss", row>>}
    /\ read(c, "w") = {<<"ws", d>>} /\ read(c, "u") = {<<"us", d>>}
    /\ region < 8 => read(c, "b") \subseteq {<<"bs", d * Batch>>}
    /\ region = 8 => read(c, "b") \subseteq {<<"bs", row>> : row \in 1..depth - 1}
    /\ i > 0 => launched[<<d, i - 1, j>>] = 1
    /\ j > 0 => launched[<<d, i, j - 1>>] = 1
    /\ d > 0 => launched[<<d - 1, i, j>>] = 1

\* A cell is given, from cells of earlier launches, what grid_lstm/README.md says
\* of its states and of x: hsss[d][i-1][j][0] and hsss[d][i][j-1][1] or zeros,
\* xss[i] in layer 0 and hsss[d-1][i][j][0] above; and the weights of its layer.
\* Of y the README says something else (run GridReadme): the code gives a cell
\* row j of yss, or in region 4 some row of it, and above layer 0 the second
\* output of the cell below. The bias of region 8 is a row of bs that exists,
\* but not the first of its layer when the batch has two or more.
NeighboursFound == [][FindsNeighbours]_vars

\* What the outputs are worth. A slab is added to once, with the output of its
\* own cell, and that is computed in exactly the cells above layer 0 that share
\* their hyperplane. grid_lstm/README.md:53-54 stores the outputs of all cells;
\* Elementwise_Vanilla returns early for a batch count of one, so layer 0 and
\* every cell alone in its hyperplane stay zero: run GridReadme.
OutputsOfHyperplanes ==
  \A c \in Cells, k \in {0, 1} :
    LET held == hsss[Slab(c, k)] IN
    /\ held \in {<<>>, <<Zero>>, <<Output(c, k)>>}
    /\ held = <<Output(c, k)>> <=>
         launched[c] = 1 /\ c[1] > 0 /\ Cardinality(Companions(c)) > 1

-----------------------------------------------------------------------------
(***************************************************************************)
(* The inductive invariant.                                                *)
(***************************************************************************)

\* The region a cell belongs to, which its zero coordinates decide, and the
\* hyperplane it lies in.
Positive(x) == IF x > 0 THEN 1 ELSE 0
RegionOf(c) == 1 + 4 * Positive(c[1]) + Positive(c[2]) + 2 * Positive(c[3])
Plane(c)    == c[1] + c[2] + c[3]

\* The cells the regions have walked so far.
Walked(c) ==
  \/ RegionOf(c) < region
  \/ RegionOf(c) = region /\ Plane(c) < step

\* Where the loop of a region is. No CHECK_LE has failed.
LoopInv ==
  /\ depth \in Nat \ {0} /\ src \in Nat \ {0} /\ trg \in Nat \ {0}
  /\ region \in 1..8
  /\ step \in Nat /\ step >= LoopStart[region]
  /\ status \in {"ok", "done"}
  /\ status = "done" => region = 8 /\ (ReturnsAtOnce(8) \/ step >= LoopEnd[8])

LaunchedInv == launched = [c \in Cells |-> IF Walked(c) THEN 1 ELSE 0]

\* The cells whose outputs the elementwise kernel computes.
Computed(c) == c[1] > 0 /\ Cardinality(Companions(c)) > 1

\* A slab is empty until its cell is walked. Then it holds the output of the
\* cell, or nothing but zeros if that is not computed.
HeldInv ==
  \A c \in Cells, k \in {0, 1} :
    LET held == hsss[Slab(c, k)] IN
    /\ ~Walked(c) => held = <<>>
    /\ Walked(c) /\ Computed(c) => held = <<Output(c, k)>>
    /\ Walked(c) /\ ~Computed(c) => held \in {<<>>, <<Zero>>}

IInv == LoopInv /\ LaunchedInv /\ HeldInv
=============================================================================
