------------------------------ MODULE Kernels -------------------------------
(***************************************************************************)
(* The kernels of kaleido/core/operators and device/kernels that move data *)
(* between threads or compute where to put it: for each, its launch        *)
(* geometry, what each thread reads and writes in which order, and what    *)
(* the output should hold.                                                 *)
(*                                                                         *)
(* A value is the bag of the input elements it was computed from. A        *)
(* location is <<space, where, index>>; indices count from 0, sequences    *)
(* from 1. No branch of these kernels depends on a value, so the code of a *)
(* thread is a sequence of instructions.                                   *)
(***************************************************************************)
EXTENDS Integers, Bags, SequencesExt

\* The device and the sizes the operators are compiled with. warp: warpSize;
\* threads: GetMaxThreadsPerBlock; resident: GetMaxPhysicalThreadCount; sms:
\* GetSMCount; tile, rows: TILE_DIM, BLOCK_ROWS; grid, block: those of the
\* generic transpose; least: the 64 of launch_config.h; gather, fill: the
\* blocks of gather and scatter, and of fill.
CONSTANT Device

ASSUME DeviceAssumption ==
  /\ \A size \in DOMAIN Device : Device[size] \in Nat \ {0}
  /\ {"warp", "threads", "resident", "sms", "tile", "rows", "grid", "block", "least",
      "gather", "fill"} \subseteq DOMAIN Device
  /\ Device.threads % Device.warp = 0 /\ Device.tile % Device.rows = 0

In(k, i)      == <<"in", k, i>>
Out(i)        == <<"out", 0, i>>
Tile(b, r, c) == <<"tile", b, <<r, c>>>>
Shm(b, i)     == <<"shm", b, i>>
Reg(th, name) == <<"reg", th.id, name>>

Put(to, from)       == <<[op |-> "put", to |-> to, from |-> from]>>
AtomicAdd(to, from) == <<[op |-> "add", to |-> to, from |-> <<to>> \o from]>>
ShuffleDown(reg, n) == <<[op |-> "shuffle", to |-> reg, from |-> <<reg>>, delta |-> n]>>

\* (The faulty variant is a kernel without its barriers.)
NoSync      == <<>>
SyncThreads == <<[op |-> "barrier", to |-> <<"none", 0, 0>>, from |-> <<>>]>>

\* The code of pieces one after the other, of a loop, and of a conditional.
InOrder(codes) ==
  LET upTo[k \in 0..Len(codes)] == IF k = 0 THEN <<>> ELSE upTo[k - 1] \o codes[k]
  IN  upTo[Len(codes)]
ForEach(s, Body(_)) == InOrder([k \in DOMAIN s |-> Body(s[k])])
When(test, code)    == IF test THEN code ELSE <<>>

DivUp(x, y)              == (x + y - 1) \div y
Loop(first, step, bound) ==
  [k \in 1..IF first < bound THEN DivUp(bound - first, step) ELSE 0 |->
     first + (k - 1) * step]
Total(s) ==
  LET sum[k \in 0..Len(s)] == IF k = 0 THEN 0 ELSE sum[k - 1] + s[k] IN sum[Len(s)]

\* The number of elements per index into the first n dimensions, and of all.
After(dims, n) ==
  LET size[k \in 0..Len(dims)] == IF k = Len(dims) THEN 1 ELSE size[k + 1] * dims[k + 1]
  IN  size[n]
Volume(dims) == After(dims, 0)

PowersOf2(x) ==
  LET power[k \in 0..x] == IF k = 0 THEN 1 ELSE 2 * power[k - 1]
  IN  {power[k] : k \in 0..x}

\* A launch geometry: <<x, y>> of the grid and of a block.
Geometry(grid, block) == [grid |-> grid, block |-> block]
Line(numel, block)    == Geometry(<<DivUp(numel, block), 1>>, <<block, 1>>)

ThreadAt(g, b, t) ==
  [id |-> <<b, t>>, b |-> b, t |-> t,
   bx |-> b % g.grid[1], by |-> b \div g.grid[1],
   tx |-> t % g.block[1], ty |-> t \div g.block[1]]
X(g, th)   == th.bx * g.block[1] + th.tx
Y(g, th)   == th.by * g.block[2] + th.ty
GridWidth(g) == g.grid[1] * g.block[1]
GridHeight(g) == g.grid[2] * g.block[2]

-----------------------------------------------------------------------------
(***************************************************************************)
(* Elements of a tensor, for the references.                               *)
(***************************************************************************)

Position(dims, index)  == Total([n \in DOMAIN dims |-> index[n] * After(dims, n)])
IndexAt(dims, i)       == [n \in DOMAIN dims |-> (i \div After(dims, n)) % dims[n]]
One(location)          == SetToBag({location})

-----------------------------------------------------------------------------
(***************************************************************************)
(* transpose_op.cu. dims says which input dimension becomes each output    *)
(* dimension, counting from 1.                                             *)
(***************************************************************************)

Permuted(l)    == [n \in DOMAIN l.dims |-> l.shape[l.dims[n]]]
Strides(shape) == [n \in DOMAIN shape |-> After(shape, n)]

\* The strides of the output in the order of the dimensions of the input.
OutStrides(l) ==
  [n \in DOMAIN l.dims |->
     Strides(Permuted(l))[CHOOSE k \in DOMAIN l.dims : l.dims[k] = n]]

OutIndex(l, idx) ==
  LET rest[n \in 0..Len(l.dims)] ==
        IF n = 0 THEN idx ELSE rest[n - 1] % Strides(l.shape)[n]
  IN  Total([n \in DOMAIN l.dims |-> OutStrides(l)[n] * (rest[n - 1] \div Strides(l.shape)[n])])

CopyToPosition(l, idx) == Put(Out(OutIndex(l, idx)), <<In(1, idx)>>)

\* Whole rounds of the grid without a test, then the tail.
TransposeKernel(l, g, th) ==
  LET round == Volume(l.shape) \div GridWidth(g)
      tail  == X(g, th) + round * GridWidth(g)
  IN  ForEach([k \in 1..round |-> X(g, th) + (k - 1) * GridWidth(g)],
              LAMBDA idx : CopyToPosition(l, idx))
      \o When(tail < Volume(l.shape), CopyToPosition(l, tail))

\* A tile is read row by row and written column by column.
TransposeKernel2D(l, g, th) ==
  LET width == g.grid[1] * Device.tile
      rows  == Loop(0, Device.rows, Device.tile)
  IN  ForEach(rows, LAMBDA j :
        Put(Tile(th.b, th.ty + j, th.tx),
            <<In(1, (th.by * Device.tile + th.ty + j) * width
                    + th.bx * Device.tile + th.tx)>>))
      \o SyncThreads
      \o ForEach(rows, LAMBDA j :
           Put(Out((th.bx * Device.tile + th.ty + j) * width
                   + th.by * Device.tile + th.tx),
               <<Tile(th.b, th.tx, th.ty + j)>>))

TransposeGeometry(l) ==
  IF Len(l.dims) = 2
  THEN Geometry(<<l.shape[1] \div Device.tile, l.shape[2] \div Device.tile>>,
                <<Device.tile, Device.rows>>)
  ELSE Geometry(<<Device.grid, 1>>, <<Device.block, 1>>)

TransposeCode(l, g, th) ==
  IF Len(l.dims) = 2 THEN TransposeKernel2D(l, g, th) ELSE TransposeKernel(l, g, th)

TransposeWant(l, i) ==
  LET out == IndexAt(Permuted(l), i)
  IN  One(In(1, Position(l.shape,
        [n \in DOMAIN l.dims |-> out[CHOOSE k \in DOMAIN l.dims : l.dims[k] = n]])))

-----------------------------------------------------------------------------
(***************************************************************************)
(* concat_op.cu, flattened to rows: the inputs have l.widths columns.      *)
(***************************************************************************)

\* inputs_col: where each input begins in a row of the output, and its end.
InputCols(l) == [k \in 1..Len(l.widths) + 1 |-> Total(SubSeq(l.widths, 1, k - 1))]
HasSameShape(l) == \A k \in DOMAIN l.widths : l.widths[k] = l.widths[1]

\* GetBlockDims: a row of a block is a whole number of warps.
ConcatGeometry(l) ==
  LET cols       == Total(l.widths)
      block_cols == IF cols < Device.threads
                    THEN DivUp(cols, Device.warp) * Device.warp ELSE Device.threads
      block_rows == Device.threads \div block_cols
      max_blocks == Max({Device.resident \div Device.threads, 1})
      grid_cols  == Min({DivUp(cols, block_cols), max_blocks})
      grid_rows  == Min({max_blocks \div grid_cols, Max({l.height \div block_rows, 1})})
  IN  Geometry(<<grid_cols, grid_rows>>, <<block_cols, block_rows>>)

\* The rows of column x, which is column local of input k.
ConcatColumn(l, g, th, x, k, local) ==
  ForEach(Loop(Y(g, th), GridHeight(g), l.height), LAMBDA y :
    Put(Out(y * Total(l.widths) + x), <<In(k, y * l.widths[k] + local)>>))

\* The walk along the inputs goes on, for the next column of a thread, from
\* where it was. (The faulty variant forgets the offset it had reached.)
SegmentOf(l, at, x) ==
  Min({k \in at.segment..Len(l.widths) : InputCols(l)[k + 1] > x})
WalkForgets(l, at, x) ==
  LET k == SegmentOf(l, at, x)
  IN  [segment |-> k, offset |-> IF k > at.segment THEN InputCols(l)[k] ELSE 0]
Walk(l, at, x) ==
  LET k == SegmentOf(l, at, x)
  IN  [segment |-> k, offset |-> IF k > at.segment THEN InputCols(l)[k] ELSE at.offset]

ConcatKernel(l, g, th) ==
  LET cols == Loop(X(g, th), GridWidth(g), Total(l.widths))
      at[n \in 0..Len(cols)] == IF n = 0 THEN [segment |-> 1, offset |-> 0]
                                ELSE Walk(l, at[n - 1], cols[n])
  IN  ForEach([n \in DOMAIN cols |-> n], LAMBDA n :
        ConcatColumn(l, g, th, cols[n], at[n].segment, cols[n] - at[n].offset))

\* The kernel for inputs of one width.
ConcatKernelDetail(l, g, th) ==
  ForEach(Loop(X(g, th), GridWidth(g), Total(l.widths)), LAMBDA x :
    ConcatColumn(l, g, th, x, x \div l.widths[1] + 1, x % l.widths[1]))

ConcatCode(l, g, th) ==
  IF HasSameShape(l) THEN ConcatKernelDetail(l, g, th) ELSE ConcatKernel(l, g, th)

ConcatWant(l, i) ==
  LET x == i % Total(l.widths)
      k == CHOOSE n \in DOMAIN l.widths : InputCols(l)[n] <= x /\ x < InputCols(l)[n + 1]
  IN  One(In(k, (i \div Total(l.widths)) * l.widths[k] + x - InputCols(l)[k]))

-----------------------------------------------------------------------------
(***************************************************************************)
(* gather_scatter.h. l.indices is a list of positions, each a prefix of an *)
(* index into a tensor of shape l.shape; it names a slice.                 *)
(***************************************************************************)

EndSize(l)   == Len(l.indices[1])
SliceSize(l) == After(l.shape, EndSize(l))

\* From the last index to the first, the stride growing on the way.
SliceStart(l, index) ==
  FoldRight(LAMBDA n, a : [at   |-> a.at + index[n] * a.stride,
                           stride |-> a.stride * l.shape[n]],
            [n \in 1..EndSize(l) |-> n], [at |-> 0, stride |-> SliceSize(l)]).at

ElementOf(l, i) ==
  SliceStart(l, l.indices[i \div SliceSize(l) + 1]) + (i % SliceSize(l))

GatherNdCUDAKernel(l, g, th) ==
  ForEach(Loop(X(g, th), GridWidth(g), Len(l.indices) * SliceSize(l)), LAMBDA i :
    Put(Out(i), <<In(1, ElementOf(l, i))>>))

ScatterNdCUDAKernel(l, g, th) ==
  ForEach(Loop(X(g, th), GridWidth(g), Len(l.indices) * SliceSize(l)), LAMBDA i :
    AtomicAdd(Out(ElementOf(l, i)), <<In(1, i)>>))

GatherGeometry(l) == Line(Len(l.indices) * SliceSize(l), Device.gather)

\* Element j of the slice that index names.
InSlice(l, index, j) ==
  Position(l.shape, index \o IndexAt(SubSeq(l.shape, EndSize(l) + 1, Len(l.shape)), j))

GatherWant(l, i) ==
  One(In(1, InSlice(l, l.indices[i \div SliceSize(l) + 1], i % SliceSize(l))))

\* What was there, and every update of a slice that holds element i.
ScatterWant(l, i) ==
  One(Out(i)) (+) SetToBag({In(1, e[1] * SliceSize(l) + e[2]) :
    e \in {e \in (0..Len(l.indices) - 1) \X (0..SliceSize(l) - 1) :
             InSlice(l, l.indices[e[1] + 1], e[2]) = i}})

-----------------------------------------------------------------------------
(***************************************************************************)
(* Kernels of one element per thread: elementwise_op.cu for l.arity inputs *)
(* of l.numel elements, fill_op.cu for none.                               *)
(***************************************************************************)

NextPow2(x) ==
  IF x = 0 THEN 0 ELSE CHOOSE p \in PowersOf2(x) : x <= p /\ p < 2 * x

ElementwiseGeometry(l) ==
  LET few  == l.numel \div (2 * Device.sms)
      many == l.numel \div (4 * Device.sms)
      num  == CASE few < Device.threads  -> NextPow2(few)
                [] few >= Device.threads /\ many < Device.threads -> NextPow2(many)
                [] OTHER -> Device.threads
  IN  Line(l.numel, Max({Device.least, num}))

FillGeometry(l) == Line(l.numel, Device.fill)

ElementwiseKernel(l, g, th) ==
  When(X(g, th) < l.numel,
       Put(Out(X(g, th)), [k \in 1..l.arity |-> In(k, X(g, th))]))

ElementwiseWant(l, i) == SetToBag({In(k, i) : k \in 1..l.arity})

-----------------------------------------------------------------------------
(***************************************************************************)
(* softmax.h: a block per row, of a power of two of threads. The shuffles  *)
(* of a block smaller than a warp would read lanes that do not exist.      *)
(***************************************************************************)

SoftmaxGeometry(l) ==
  LET block == IF l.width > Device.threads THEN Device.threads
               ELSE CHOOSE p \in PowersOf2(l.width) : p <= l.width /\ l.width < 2 * p
  IN  Geometry(<<l.height, 1>>, <<block, 1>>)

\* The elements of its row a thread goes through.
Own(l, g, th) ==
  [k \in DOMAIN Loop(th.tx, g.block[1], l.width) |->
     th.bx * l.width + Loop(th.tx, g.block[1], l.width)[k]]

ShuffleTree(reg) ==
  ForEach([k \in 1..Device.warp - 1 |-> Device.warp - k], LAMBDA n :
    When(n \in PowersOf2(Device.warp), ShuffleDown(reg, n)))

\* ReduceMax and ReduceSum: the warps of a block, then their results.
Reduce(th, reg) ==
  ShuffleTree(reg)
  \o When(th.t < Device.warp, Put(Shm(th.b, th.t), <<>>))
  \o SyncThreads
  \o When(th.t % Device.warp = 0, Put(Shm(th.b, th.t \div Device.warp), <<reg>>))
  \o SyncThreads
  \o When(th.t < Device.warp, Put(reg, <<Shm(th.b, th.t)>>) \o ShuffleTree(reg))

FindMax(l, g, th) ==
  LET val == Reg(th, "max") IN
  ForEach(Own(l, g, th), LAMBDA i : Put(val, <<val, In(1, i)>>)) \o SyncThreads
  \o Reduce(th, val)
  \o When(th.t = 0, Put(Shm(th.b, 0), <<val>>)) \o SyncThreads

SubMaxAndExp(l, g, th) ==
  Put(Reg(th, "shift"), <<Shm(th.b, 0)>>)
  \o ForEach(Own(l, g, th), LAMBDA i :
       Put(Out(i), <<In(1, i), Reg(th, "shift")>>))
  \o SyncThreads

ValueSum(l, g, th) ==
  LET val == Reg(th, "sum") IN
  ForEach(Own(l, g, th), LAMBDA i : Put(val, <<val, Out(i)>>)) \o SyncThreads
  \o Reduce(th, val)
  \o When(th.t = 0, Put(Shm(th.b, 0), <<val>>)) \o SyncThreads

DivSum(l, g, th) ==
  Put(Reg(th, "scale"), <<Shm(th.b, 0)>>)
  \o ForEach(Own(l, g, th), LAMBDA i :
       Put(Out(i), <<Out(i), Reg(th, "scale")>>))

Softmax(l, g, th) ==
  FindMax(l, g, th) \o SubMaxAndExp(l, g, th) \o ValueSum(l, g, th) \o DivSum(l, g, th)

\* exp(x - max) / sum: the maximum is of the row, and so is the sum, of which
\* each term used x and the maximum.
SoftmaxWant(l, i) ==
  [e \in {In(1, (i \div l.width) * l.width + k) : k \in 0..l.width - 1} |->
     2 + l.width + IF e = In(1, i) THEN 1 ELSE 0]

-----------------------------------------------------------------------------

\* What the operators can be called with. (The tiled transpose takes the number
\* of blocks of one dimension for the row length of input and output, so the
\* matrix has to be square and made of whole tiles.)
Supported(l) ==
  \/ /\ l.kernel = "transpose"
     /\ l.shape \in Seq(Nat \ {0}) /\ l.dims \in Bijection(DOMAIN l.shape, DOMAIN l.shape)
     /\ Len(l.dims) = 2 =>
          /\ l.dims = <<2, 1>>
          /\ l.shape[1] = l.shape[2] /\ l.shape[1] % Device.tile = 0
  \/ l.kernel = "concat" /\ l.height \in Nat /\ l.widths \in Seq(Nat \ {0}) /\ l.widths # <<>>
  \/ /\ l.kernel \in {"gather", "scatter"}
     /\ l.shape \in Seq(Nat \ {0}) /\ l.indices \in Seq(Seq(Nat)) /\ l.indices # <<>>
     /\ \A k \in DOMAIN l.indices :
          /\ Len(l.indices[k]) = Len(l.indices[1]) /\ Len(l.indices[k]) <= Len(l.shape)
          /\ \A n \in DOMAIN l.indices[k] : l.indices[k][n] < l.shape[n]
  \/ l.kernel \in {"elementwise", "fill"} /\ l.numel \in Nat /\ l.arity \in Nat
  \/ l.kernel = "softmax" /\ l.height \in Nat /\ l.width \in Nat /\ l.width >= Device.warp

Kernel(l) ==
  LET program(g, Code(_, _, _), Want(_, _), size) ==
        [geometry |-> g,
         code |-> [id \in (0..g.grid[1] * g.grid[2] - 1)
                          \X (0..g.block[1] * g.block[2] - 1) |->
                     Code(l, g, ThreadAt(g, id[1], id[2]))],
         want |-> [e \in {Out(i) : i \in 0..size - 1} |-> Want(l, e[3])]]
  IN
  CASE l.kernel = "transpose" ->
         program(TransposeGeometry(l), TransposeCode, TransposeWant, Volume(l.shape))
    [] l.kernel = "concat" ->
         program(ConcatGeometry(l), ConcatCode, ConcatWant, l.height * Total(l.widths))
    [] l.kernel = "gather" ->
         program(GatherGeometry(l), GatherNdCUDAKernel, GatherWant, Len(l.indices) * SliceSize(l))
    [] l.kernel = "scatter" ->
         program(GatherGeometry(l), ScatterNdCUDAKernel, ScatterWant, Volume(l.shape))
    [] l.kernel = "elementwise" ->
         program(ElementwiseGeometry(l), ElementwiseKernel, ElementwiseWant, l.numel)
    [] l.kernel = "fill" ->
         program(FillGeometry(l), ElementwiseKernel, ElementwiseWant, l.numel)
    [] l.kernel = "softmax" ->
         program(SoftmaxGeometry(l), Softmax, SoftmaxWant, l.height * l.width)
=============================================================================
