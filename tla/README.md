# A TLA+ verification of FractalTensor

FractalTensor organises the data of a neural network as nested lists of
tensors. The repository holds a Python frontend (the data structure and its
operations), a parser that turns decorated Python functions into an IR graph, a
C++/CUDA core (tensors, a memory pool, operators and kernels), and benchmarks in
which the wavefront schedules the compiler aims at are written by hand. This
directory models the parts where order, sharing and index arithmetic matter,
checks them with TLC on small instances and proves the main results for all
instances with TLAPS.

Paths below are relative to `src/`.

## Inventory

| Component | State | Operations | Interacts with |
|---|---|---|---|
| **CUDA memory pool** (`kaleido/core/cuda_allocator.h`) | blocks ordered by size, address map, tracked streams, mark and events per block | `Allocate`, `Deallocate`, `add_track_stream` | every `Tensor` allocates from it; CUDA streams run its events |
| **Stacked LSTM schedule** (`benchmarks/rnn/fractaltensor/stacked_lstm`, `utils.h`) | `hsss`, `csss`: hidden and cell output of each layer and time step | three control regions, called in order | `Tensor::CreateFrom` views, strided batched GEMM, `ScatterNdCUDAKernel` |
| **Grid LSTM schedule** (`grid_lstm`) | `hsss`: two outputs of each cell (layer, source position, target position) | eight control regions | index lists, `GatherNdCUDAKernel`, `ScatterNdCUDAKernel`, the elementwise kernels |
| **Dilated LSTM schedule** (`dilated_lstm`) | `hsss`, `csss`, `link_len` | two control regions | views, batched GEMM |
| **FractalTensor data structure** (`kaleido/frontend/fractal_tensor.py`, `types.py`) | a flat buffer, and a type object with length and index tree; type objects refer to each other | construction, `from_pylist`, `from_tensors`, `from_fractaltensors`, `index`, slices, `width_by_depth` | everything in the frontend |
| **Access operators** (`operations/fractaltensor/access.py`, `conversion.py`) | none; they make FractalTensors | `join`, `zip`, `product`, `slide`, `window`, `shifted_slide`, `repeat`, `split`, ... | FractalTensor |
| **Functional operators** (`functional/`) | none | `map`, `filter`, `scan`, `fold`, `dilated_map`, packing of results | FractalTensor, user functions |
| **Parser context** (`kaleido/parser/context.py`) | stack of frames, symbol table with kinds and blocks, fresh names, compiled functions | push, pop, insert, search, clean, reset | AST visitor |
| **IR graph** (`kaleido/parser/ir_nodes.py`, `operations/`) | nested block nodes, ports, edges, storage | add node, add edge, rename tips, propagate storage | AST visitor |
| **AST visitor** (`kaleido/parser/ast_visitor.py`) | the expression being translated, through recursion | one method per syntax node, inlining of functions | context, IR graph |
| Kernel library of the cute LSTMs (`kernels/lstm.h`) | function-local static sizes | wavefront entry points | benchmarks |
| **CUDA operators and kernels** (`kaleido/core/operators`, `device/kernels`) | global and shared memory, registers, the progress of each thread | transpose, concat, gather, scatter, elementwise, fill, softmax; GEMM | core tensors, the schedules |

What is hard in this code:

- *Asynchrony.* Calls to the pool return while the work they were made for is
  still queued on a stream; the device makes progress between any two
  `cudaEventQuery` calls of one `Allocate`.
- *Parallel cells.* All cells of a hyperplane run in one launch, so nothing may
  depend on a cell of the same launch, and one offset and one stride have to
  describe the inputs of all of them, for every shape.
- *Threads.* The threads of a block meet at barriers and reuse one piece of shared
  memory; a barrier too few shows only in some orders.
- *Sharing.* The type object of a nested FractalTensor refers to the type of
  the first tensor it was made from, and a setter writes lengths through it.
- *Names and order.* The parser finds where a value comes from by searching one
  symbol table per function, and what an input belongs to by the order of
  dictionaries; inlining moves nodes and renames the ends of edges.
- *Boundaries.* Sizes of zero, sequences of length one, integer division,
  negative indices.

What makes the components correct: a region of memory has one holder and enough
bytes; the pool's two indexes agree; a region given back becomes free. The
schedule computes every cell once, after its inputs, from the right slabs. A
FractalTensor is an immutable nested list, whose length, indices and buffer
agree, and an operator returns what it would of such lists. The graph of a
function computes what the function does, with the right types.

The components with what is modelled of each, the hazards line by line, and the
mapping from definitions to source lines are in `PROJECT.json`.

## Plan

1. **Done.** `CudaMemoryPool`, its abstract specification `ExclusiveAllocator`,
   the refinement, and the proofs.
2. **Done.** `StackedLstm`, its abstract specification `LstmDataflow`, and the
   proofs.
3. **Done.** `FractalTensor` over a heap of type objects, `Operators` on top of
   it, with the abstract specification `NestedLists`.
4. **Done.** `GridLstm` and `DilatedLstm`, composed with the stacked LSTM in
   `Schedules`.
5. **Done.** The parser: `IrNodes`, `Context`, `AstVisitor`, with the reference
   semantics of `Dataflow`.
6. **Done.** `Kernels` and `KernelLaunch`: the kernels of the CUDA operators that
   move data, run by `Schedules` as a fourth program.
7. **Done.** The schedules proved for all shapes: `GridLstmProofs`,
   `DilatedLstmProofs`, and `SchedulesProofs` for their composition.
8. **Done.** `ScopesClosed` of the parser proved for every program
   (`AstVisitorProofs`).
9. **Done.** `KernelNoRace` proved for every device and every call
   (`KernelsProofs` for the codes, `SchedulesProofs` for their execution).

## The memory pool

`CudaMemoryPool.tla` has one variable per member of `CudaMemoryPool` and
`CudaMemoryBlock`; `ExclusiveAllocator.tla` is the abstract view, regions with at
most one holder that fit what it asked for, and `PoolRefinement.tla` maps the
pool to it: blocks are regions, live while `marked_free_` is false.

| Action | Code |
|---|---|
| `Allocate(n)` | `Allocate` up to the start of `std::find_if`, or all of it when no block is large enough |
| `ScanBusy`, `ScanExhausted`, `ScanFree` | one block examined by `find_if`, and what follows when it ends; the device may act between two of these |
| `NewBlock`, `Reuse` (parts of the above) | the two ways to hand a block out, with its events recorded on every tracked stream |
| `Deallocate(p)`, `AddTrackStream(s)` | the functions of those names |
| `Complete(s)` | CUDA: the oldest work of a stream finishes |
| `Launch(b, s)` | the client: a kernel on memory it holds, on a tracked stream |

The client follows the contract of `tests/test_allocator.cc`: one call at a
time, only tracked streams, and it gives back only what it was handed. A failed
`CudaCheck` or `CHECK` ends the process (`status`). A zero-size `cudaMalloc`
returns the null pointer. `NDEBUG` is not defined by the build files, so
`CudaCheck` is active.

- **Pool** (3 blocks, 2 streams, sizes 1 to 3, memory for 6 bytes, up to 2 items
  in front of a kernel, 3 tenures). Shows that the pool refines the exclusive
  allocator, keeps blocks sorted and its indexes in agreement, that no `CHECK`
  fails, that a block is reserved only if none of those free when the call began
  fits, and that the tightest of them is reused. The last two are statements about
  the moment of the call; events that complete during the scan only help blocks
  not yet passed. When a block is handed out, all kernels of its last holder but
  one are finished; a block given back becomes free again, and a call to
  `Allocate` returns. Fairness: weak fairness of each stream (CUDA executes queued
  work) and of the host thread inside `Allocate` (a loop without waiting). No
  client call is fair.
- **PoolOverlap**, a violation: the events of a block are recorded when it is
  handed out, not when it is given back, so registering all streams does not keep
  two holders of a block apart. The client of the run registers every stream
  before it allocates, as the test of the pool asks for.
- **PoolTwice**, a violation: a block of 5 bytes is handed out for 2. The integer
  test `nbytes_ / min_nbytes > 2` gives less than three times the request, which is
  what `FitsRequest` of the passing run states; `test_allocator.cc:38-39` says less
  than twice.
- **PoolZero**, a violation: two zero-size blocks share the null pointer and the
  second `Deallocate` fails its `CHECK`.

Bounds: 3 blocks are the smallest number at which insertion in the middle and a
choice among several fitting blocks both happen, with exact, larger and too large
free blocks and a `cudaMalloc` that fails; 3 tenures are needed to see the last
holder but one. All of this at once is too much, so `WithinBounds` restricts when
the client calls `Allocate` or registers a stream: three blocks with one stream,
two with two streams, more tenures with fewer blocks. It restricts no step of the
device or of a call in progress, so it takes nothing from the fairness. `InOrder`
takes the unused blocks, which nothing tells apart, in one order.

Requests of 0 bytes: `PoolZero` shows the shared pointer. That a request of 0
divides by zero once there is a free block (`cuda_allocator.h:140`) is a signal and
not a `CHECK`; no property is about it.

### Proofs (`CudaMemoryPoolProofs.tla`)

For all sets of blocks, streams and sizes. `IInv` is inductive: the sorted
order is preserved by inserting at a lower bound; the lower bound stays one
during a scan because nothing is inserted meanwhile (`ScanInv`); each kernel in a
queue is of the current tenure of its block, or of the last one with an event of
the block behind it in the same queue (`QueueInv`), which is why a block whose
events have completed has no older kernels left; and the scan has passed no block
that was free when it began (`FreeInv`), because events only complete during a
scan. From it follow `TypeCorrect`, `AlwaysSorted`, `AlwaysFits`,
`AtMostTwoTenures`, the step simulation of `Refinement`, and the two action
properties: `AlwaysTightest`, since blocks in front of the scan are smaller than
the request or were not free, and `GrowsOnlyIfNeeded`, since an exhausted scan
has examined every block that fits. With the assumption that no request is for 0
bytes, `PositiveInv` adds that addresses, map entries and blocks correspond one to
one, hence `AlwaysIndexed`, `AlwaysExclusive` and `NoCheckFails`; `PoolZero`
shows the assumption is needed. Only model-checked: the two liveness properties.

## The stacked LSTM

`StackedLstm.tla` models `TransformedDepthFirst` and the three control regions.
The unit of addresses is a slab, the `batch_size * hidden_size` numbers of one
cell; a slab holds the list of outputs that were stored to or added to it, so a
second `atomicAdd` shows. An action is one iteration of a region's loop: all its
views, launches and stores. `operands` records which slab each launch reads for
which cell and role.

| Definition | Code |
|---|---|
| `Region1`, `Region2`, `Region3` | `LstmLayer` called by region 1; the layers of region 2; a hyperplane of region 3 |
| `LowerLayer`, `UpperLayer`, `StartX`, `StartH`, `Stride`, `Span` | the bounds, starts, stride and span region 3 computes |
| `WindowsFit`, `Fits` | the `CHECK_LE` of each `CreateFrom` |
| `Scatter` | `ScatterNdCUDAKernel` with the index list of the hyperplane |
| `NextRegion` | the driver going on to the next region, early returns included |

`Fused` is `FUSE_ALL_ELEMENTWISE`, which `utils.h:33` defines: the run of the
correct schedule sets it to FALSE, and `StackedLstmOperands` shows what happens
with it.

The matrix products of layer 0 are not there: `Gemm` (`utils.h:196-262`) multiplies
random memory of its own and frees it, and its call with the operands is a comment
(252-254). So a step of layer 0 reads nothing but the `c` of its activation, of the
stacked and of the dilated LSTM alike, and `ImplementsDataflow` is about the order
of stores only. Regions 2 and 3 use other products, which read what they are given.

- **StackedLstm** (module `MCSchedules`, with the two schedules and the kernels
  below; every depth and length up to 6): all hyperplane shapes occur,
  growing, constant and shrinking ones, with depth below, equal to and above the
  length, and width zero for length 1. The bounds depend only on comparisons of
  depth, length and their differences, so 6 by 6 covers each case several times;
  the theorems cover all sizes. Shows that windows stay inside their tensors,
  that one stride finds the inputs of all cells, that inputs were stored by
  earlier launches, that each cell is stored once and in its own slab, that a slab
  has only one kind of output (`OwnOutputs`: hidden state in `hsss`, cell state in
  `csss`, and the other way round in step 0 of the layers from 2 on), that no cell
  is left out, and that the schedule refines the dataflow graph.
- **StackedLstmOperands**, a violation, in the build of `utils.h` with three layers
  and three steps: in a launch of two cells none of the three operands is what the
  comments of region 3 and of the activation say. `x` is an empty slab, because the
  fused build stores all of layer 0 to the first time step; `h` is a cell state,
  because region 2 swaps the outputs from layer 2 on; `c` is that of another cell,
  because the activation reads it without the stride. Three findings cite the run.

The driver is sequential and every launch is on one stream, so no interleaving
is left out; what runs in parallel are the cells of a launch, and
`StoredBeforeRead` compares what they read with the state before the launch.

### The grid and the dilated LSTM

`GridLstm.tla` has an action per loop iteration of each region; the regions
differ in which coordinates are zero, so one action walks the hyperplanes of
all of them and asks for bounds, index lists and windows by region.
`launched`, how often a cell was part of a launch, is a history variable.
`DilatedLstm.tla` has the layer 0 walk (`region1.h`) and the chunks of the other
layers (`region2.h`). `Schedules.tla` composes the drivers and the kernels: a behaviour
is one call of a driver or one launch of a kernel.

For the grid the run shows, for every depth and both lengths up to 4, that each
cell is part of exactly one launch, that the states and inputs of a cell come
from its neighbours and were stored by earlier launches, and which slabs are
stored in the end. With 4 in each direction every region has hyperplanes that
grow, shrink and are clipped by each pair of bounds. The properties state what
the code does where it departs from the recurrence in `grid_lstm/README.md`:

- `Elementwise_Vanilla` (`utils.h:650`) returns before its kernels for a batch
  count of 1, which regions 1 to 5 always pass: the outputs of layer 0, and those
  of a cell that is alone in its hyperplane, stay zero, where the README stores
  all of them (53-54). `GridOutputs` says which slabs are stored: all others, once.
- The README gives a cell of layer 0 `y_t = yss[i][k]`, the row of its source
  position; regions 1 to 3 read the row of its target position. The window of
  region 4 into `yss` (`region4.h:144`) ascends while the target positions of its
  cells descend, and begins a row early. `GridNeighboursFound` asks of `y` in
  region 4 only that it is a row of `yss`.
- Above layer 0 the README gives `y_t` the first output of the cell below, except
  in branch 8; regions 5 to 8 all read the second.
- The bias of region 8 is gathered with slices of one row (`region8.h:270`), so
  with a batch of two or more it is not the row of its layer, only one that exists.
  No document speaks of it.

**GridReadme** (module `MCGridLstm`), a violation: one call with two layers and
sequences of two, next to the README. At its end `departures` lists each cell whose
`y` is not the README's and each whose outputs were not stored, which is all of
them; three findings cite it. Launches of several cells above layer 0, whose
outputs are stored, are in the run **StackedLstm**.

For the dilated LSTM (depth up to 4, lengths up to 6, which the driver rounds up
to 8) that run shows that the chunks of a layer stay inside the layer and that the
state of a cell is that of the cell `link_len` steps before it. The driver rounds
only from three layers on, so with two an odd length runs into the `CHECK_LE` of
a view; that is the one case in which the driver may stop.

### The kernels

`Kernels.tla` gives each kernel of the operators its launch geometry, the code of a
thread, and what the output should hold; `KernelLaunch.tla` runs it. No branch of
these kernels depends on a value, so the code of a thread is a sequence of
instructions, and a value is the bag of elements it was computed from.

| Definition | Code |
|---|---|
| `TransposeKernel`, `TransposeKernel2D`, `OutIndex` | rounds and tail of the generic kernel with the strides of `GetStride`; the tiled kernel (`transpose_op.cu`) |
| `ConcatGeometry`, `Walk`, `ConcatKernel`, `ConcatKernelDetail` | `GetBlockDims` and the kernels for different and for equal widths (`concat_op.cu`) |
| `GatherNdCUDAKernel`, `ScatterNdCUDAKernel`, `SliceStart` | `gather_scatter.h` |
| `ElementwiseGeometry`, `ElementwiseKernel`, `FillGeometry` | `launch_config.h`, `elementwise.h`, `fill.h` |
| `FindMax`, `SubMaxAndExp`, `ValueSum`, `DivSum`, `Reduce` | `softmax.h`; one reduction for the maximum and the sum, which move the same data |
| `Access`, `Sync`, `Shuffle` | CUDA: an instruction of one thread, `__syncthreads`, `__shfl_down_sync` |

The same run launches 16 calls on a device with warps of two threads, blocks of
up to four and two blocks at a time (`MaxResident`): one block and several, data
that the blocks divide and that they do not, threads that go round their loops
once and several times, two updates of one element. It shows that every order of
the threads ends with all of them and with the right output (`KernelDelivers`),
and that no two threads are ever about to touch one location, unless both only
read or both add atomically (`KernelNoRace`). The block of four has two warps,
so both levels of the reduction occur; two resident blocks are enough for a race
between blocks, because a race is between two threads.

`Supported` states what the operators can be called with: the tiled transpose is
right only for square matrices of whole tiles, and a softmax row needs a block of
at least a warp. The tests call both outside of that (`test_transpose.cc:142`,
`test_softmax.cc:78`).

### Proofs of the schedules

Each schedule has a module of its own, `SlabArithmetic.tla` the arithmetic they
share: offsets are injective on cells and stay below the product of the lengths.

*`StackedLstmProofs.tla`*, for every depth and length. `BasicInv` (types, loop
ranges, windows in bounds, strides) is inductive for both builds; it needs
products of two variables, so the arithmetic of `Offset` is isolated in lemmas.
Without `FUSE_ALL_ELEMENTWISE` `ProgressInv` says the slabs stored to are exactly
those of the cells walked so far, each once; it is inductive because `Offset` is
injective on cells and a hyperplane is disjoint from what was walked. From these
follow `AlwaysInBounds`, `StrideIsRight`, `AlwaysStoredOnce`, `AllCellsStored`,
`ReadsAreOrdered` and `Refinement`. `IInv` of this module is their conjunction.
`AlwaysOwnOutputs` holds in both builds and is inductive next to them: a launch
stores to the slabs of its own cells, and those of different cells differ; the
kind of output a slab gets is decided by its layer and time alone.

*`GridLstmProofs.tla`*, for every depth and both lengths. The zero coordinates of a
cell decide its region (`RegionOf`) and their sum its hyperplane (`Plane`), so how
far the program is decides which cells were walked: those of earlier regions, and
of this one those on lower planes (`Walked`). `IInv` says that exactly these were
launched, once each, and what their slabs hold. A step launches the cells of its
region and plane and no others, which is where the clipped bounds of the seven
parallel regions are needed (`First`, `Last`, `LayersOf8`); that the last plane of a
region is the last with cells makes the regions follow each other without a gap.
`AlwaysLaunchedOnce` and `AlwaysOutputs` follow. For `AlwaysFindsNeighbours`, the
index lists of a launch are composed with the windows it reads through, region by
region, and the neighbours lie on lower planes or in earlier regions. Of `y` in region
4 and of the bias in region 8 it says, as the property does, that some row exists
(`WindowRow` for the former).

*`DilatedLstmProofs.tla`*, for every depth and length, without
`FUSE_ALL_ELEMENTWISE`. Chunks fit because the longest link divides the rounded
length, and each link the longest. The invariant therefore carries
`link_len * 2^(depth - 1 - layer) = 2^(depth - 1)`; without it nothing would say
that the doubled `link_len` still divides the length. That powers of two double is
proved by counting subsets (`PowerIsCount`). `AlwaysChunksStay` includes that every
cell is stored in the end, unless there are two layers and an odd length;
`AlwaysLinked` that states and inputs come from the right cells.

*`SchedulesProofs.tla`* carries these over to the composition. Steps of one program
are stuttering of the others (`EachRuns`), and the properties are those of the
schedules, definition by definition, so that `GridIsLaunchedOnce`,
`GridOutputsAreWorth`, `GridFindsNeighbours`, `DilatedChunksStay` and
`DilatedFindsLinks` state what the run `StackedLstm` checks.

Assumptions: the shapes are positive; `MaxGrid` and `MaxDilated`, which bound the
calls a run makes, are any numbers; `~Fused` where it is named, as
`StackedLstmOperands` shows it must be. TLC checked the inductive invariants of the
grid and the dilated LSTM on the instance of the run `StackedLstm` before they
were proved; they are in no configuration, because the properties there
follow from them.

### Proofs of the kernels

*`KernelsProofs.tla`* is about the codes, for every device, every call that
`Supported` admits and every thread. The barriers of a thread cut its code into
phases. `Does(code, p, q, fp)` says that a code leads from phase `p` to phase `q`
and in each phase accesses only what the footprint `fp` lists; it is closed under
the ways codes are put together: concatenation, `InOrder`, loops, `When`. Each
kernel is given the footprints of its threads, and `Footprints` concludes that it
is free of races (`RaceFree`) if footprints of different threads do not meet: in one
phase, for threads of a block, and in any two phases, for others. What is left is
arithmetic, kernel by kernel:

- elementwise, fill, gather: a grid-stride loop visits one residue of the width of
  the grid, which is the place of the thread (`PlaceIsOwn`); scatter only adds
  atomically;
- concat: a thread owns a residue of the columns and one of the rows. No fact about
  the walk along the inputs is needed; where it reads from is `KernelDelivers`;
- the tiled transpose: two phases; rows of a tile are written by the thread that has
  the place, and the output of the second phase is injective in block, row and
  column, which needs the square matrix of whole tiles;
- the generic transpose: `OutIndexInjective`, for any number of dimensions. The
  digits of a position, divided by the strides of the output, are those of the
  element in the order of `dims`; equal positions have equal digits, so equal
  elements;
- softmax: ten phases, 0 to 9. The elements of a row and the registers are private.
  Shared memory is written in phases 1 to 3 and 6 to 8, by one thread per place,
  and read in 3, 4, 8 and 9; with a barrier less, a read would be in the phase of
  a write.

`KernelsHaveNoRace` collects them. *`SchedulesProofs.tla`* then runs the codes:
threads of a block are always in one phase, because `Sync` takes all of them past a
barrier and no other action passes one (`LaunchInv`, inductive by `StepTogether`).
So two threads about to access memory are at instructions that do not collide
(`NoKernelRaces`, which states `KernelNoRace`), in whatever order blocks, warps and
threads go on and however many blocks are resident. That all threads of a kernel
meet the same number of barriers gives `NoBarrierIsMissed`: none waits at one for a
thread of its block that has ended.

Assumptions: the sizes of the device are positive, and a block has whole warps and
a tile whole groups of rows, as the constants of the code have
(`DeviceAssumption`); the calls are `Supported`. `Launches` and `MaxResident` are
arbitrary. The barriers matter: `NoSync` for `SyncThreads` breaks `KernelNoRace`.

`InOrder`, `Total`, `After` and `PowersOf2` are recursive functions on an interval.
`Recursion` shows that such functions exist; facts about them are proved by
`SetInduction`, over the set of the numbers at which they hold.

Only model-checked: that the kernels compute the right thing (`KernelDelivers`).
It is about what bags of elements the whole execution leaves in memory; that the
shuffles of a warp meet is part of it.

## FractalTensors

`FractalTensor.tla` keeps type objects in a heap: `types` (depth, the type they
refer to, length, indices) and `tensors` (a type and a buffer). The walk of the
`indices` setter, which writes lengths of types further down, is `SetLengths`.
`index` of a nested tensor makes a fresh type around the one two levels down
(`At`). An operation is a chain of heaps, one for each object it makes, in the
order of the code; when it returns, what the program does not keep is collected
(`Collected`). An element may be kept or dropped, and in the second case the
lengths written stay. A Python exception leaves the program's objects as they
are, so it is a guard.

`Operators.tla` builds the access and the functional operators from these: each
indexes, joins, repeats and packs as the code does, with the object lists the
code iterates over. User functions are a few that return their state, their
argument, a join, the first element, two results, or a `zip`.

`NestedLists.tla` is what a program may expect: every operation returns new
nested lists, and those it has never change. `call` is the last call with its operands; it ties a step of the model to the operation
of the abstract specification. The refinement maps a tensor to its `Contents`,
the buffer seen through the tree. The abstract specification describes what the code does, or leaves it open, also
where the documentation says otherwise:

- `slide` returns one window more, whatever follows the start of the last one; the
  formula of its docstring counts neither that nor the last window that fits.
- `repeat` of a list returns a list of lists, as its docstring says;
  `memory_operations.md` says one list.
- `window` is exact only where the window begins with the list and ends before
  the list does: the right padding is one short (`access.py:462`), the second
  join starts from the unpadded input again (474), a positive start becomes 0
  (480). Elsewhere the result has the right length and only elements of the list
  and padding.
- `shifted_slide` reads positions before the start at `x + L - 1` (396);
  positions behind the end are exact.
- `product` mixes the numbers of the elements of its second argument when they
  have several (`conversion.py:172`), and so is no `meshgrid`.
- `dilated_map` stops at its assertion when the list is not longer than the
  dilation; `from_pylist` raises from depth 4 on; `slide` and the windows work on
  lists of depth 1 only.

Runs:

- **FractalTensor**: nine kinds of programs. One holds up to four tensors of depth
  up to 3; one up to three of depth 2 and uses `join` and `last()`, which trust
  `len()`; seven use the operators. Four tensors of depth 3 are the smallest case
  in which a length becomes stale. Lists have up to five elements and are
  ragged, dilations go up to 3 and windows of 3 elements reach over both ends, so
  that lists of unequal length, wrapping and padding all occur. Shows that all
  of them see immutable nested lists, that index tree and buffer agree, and that
  `len()` is right for every tensor whose type is not two levels inside another
  one.
- **FractalTensorJoin**, a violation: with joins and depth 3 together, a read of a
  depth 3 tensor changes the `len()` of another tensor, and a join of that one
  has more indices than elements.
- **FractalTensorDocs** (module `MCDocumented`), a violation: a program of five
  calls, next to what a docstring or a page of `docs/` says each returns. `slide`,
  `repeat`, `product`, `window` and `x[-1]` (the operator `last`, for which `index`
  takes the first elements) all return something else; the last state of the trace
  has the five results, and five findings cite it.

The other two configurations identify states that differ only in the history variable
`call` (`VIEW Objects`): no guard reads it, so such states have the same
successors, and the properties about calls are properties of steps.

No proofs: the operators are recursive over trees. Sequential, so there is no
fairness: every operation returns.

## The parser

| Module | Code |
|---|---|
| `IrNodes` | nodes, ports, edges and their dictionary order, depths, and the propagation of storages (`ir_nodes.py`, `operations/`) |
| `Context` | frames, symbol table, searches, fresh names, compiled functions (`context.py`) |
| `AstVisitor` | the visitor methods and `propagate_storage` (`ast_visitor.py`, `parser/__init__.py`) |
| `Dataflow` | the reference: what the source computes, what the graph computes, as terms; the properties of results |
| `MCAstVisitor` | the programs |

A program is a sequence of declarations: functions, user-defined types, resets
of the context, and a final call of `propagate_storage`. The recursion of the
visitors is an agenda of tasks (`agenda`) and a stack of returned values
(`values`); `ctx` is the parsing context, a record that the operators of `IrNodes`
and `Context` map to the next one. `Try` takes a step, or, where an assertion, a
dictionary or a check of the code fails, ends with the outcome `"raised"`.
Dictionaries whose order the code observes are sequences; the symbol table is a
set of records, numbered as they were inserted. `Programs`, `Expressions` and
`Annotations` are constants: the programs, and the expressions and type
annotations that occur in them with all their parts. `SyntaxAssumption` says that
they are syntax trees, and that nothing follows the return of a function. The
code has a check for that (`FunctionDefVisitor._check`, `ast_visitor.py:363`) which
it never calls; a statement behind the return raises all the same, because the
block of the function was popped.

`Faithful` compares two terms: what Python would compute for the source, and
what the edges of the graph connect. `TypesInferred` compares the storage of each
port with the type of its term in every nesting of patterns. `FedOnce`,
`DepthIsNesting` and `ScopesClosed` hold between any two statements, `TypesSettle`
at every step: a type once found is not replaced.

- **Parser**: 364 programs. `Tests` are those of the repository that have a body,
  which must be accepted (`TestsAccepted`). Left out is `test_function_def.py`: its
  functions are signatures around `pass`, of which it parses the declaration only
  (`parse_func_decl`), and its other tests are of rejected annotations. `LstmCell` is a cell with two states. `Calls` and
  `Middle` call functions with arguments in every order, in patterns and not;
  `Nests` and `Two` nest patterns that use names of every enclosing level; `Lines`
  are statements over every expression of the visitor; `Refused` are programs the
  parser rejects in different places; `Repeated` declare functions twice, with and
  without resets.
- **ParserStarred**, a violation: the starred argument of `hello_world.py` is
  expanded in reverse.

`TypesInferred` and `TypesSettle` leave out programs with `reduce` or `fold`
(`Reduces`), whose results the parser types like those of a scan. The families of
programs leave out what the parser is known to do otherwise: calls of functions
that use a parameter twice or not at all, functions inlined two patterns deep
(their nodes keep a wrong depth), functions inlined twice, and lambdas that
return the results of a function with several. No program indexes or slices a
list of depth two or more, where the parser takes the type of the innermost
tensors for that of an element (`access_patterns.py:27,55`, `types.py:348`).
What follows a `reset_context` is modelled and raises at the next decorated
function (`context.py:185`), but no property depends on it. Aggregates whose inputs have
different types are left out of nested patterns, because the parser takes the
type of the first input for all of them. `PROJECT.json` lists these among the
hazards where they pass without an exception.

Parsing is sequential and deterministic: a
program has one behaviour, no fairness is assumed, and what varies is the program.

### Proof (`AstVisitorProofs.tla`)

`ScopesAreClosed`: `ScopesClosed`, for all programs over all expressions. By itself
it is not inductive: inside an expression the stacks hold whatever the calls in
progress left there, and what the tasks ahead will take off. `ScopesInv` relates
the two. A *shape* is how many values there are with the stacks of half-parsed
nodes and blocks; `Step` says which shape each kind of task needs and which one it
leaves (the end of a pattern needs the pattern on top of both stacks, a statement
needs the function alone); `Runs` that the tasks of an agenda lead, one after the
other, from one shape to another. The invariant: the agenda leads from the present
shape to one without values, and a name in the symbol table is of the function, of
a block on the stack, or a result.

The proof has one lemma for each visitor, of one of three kinds: the visitor ends
with its task and leaves the shape that the task promised (`TryEnds`), it replaces
its task by tasks that together promise the same (`TryAdvances`), or it declares a
function, whose statements each lead from the function alone to the function alone
(`RunsBody`). What the visitors do to the graph is folds over ports and edges, which
the provers cannot look into; they need not, because each operator of the context
returns its argument with some fields replaced, and inserts records for the block
on top only (`Grows`, `Keeps`). TLC checked `ScopesInv` on the 364 programs of the
run before it was proved.

Only model-checked: the other properties of the parser. `Faithful`,
`TypesInferred` and `TestsAccepted` are about recursive operators of `Dataflow`,
which a module with theorems cannot use; `FedOnce` and `DepthIsNesting` hold because of how
programs name things, and fail for some of those the families leave out (above);
`TypesSettle` needs that edges arrive once at each port, which is `FedOnce`.
`TypeOK` of the parser depends on the programs too: a pattern over a value that has
no list left in it gets a depth below -1 before anything is refused.

Not modelled of the parser: element types, devices and strides of storages,
lengths of slices; `get_storage_info_over_edge` and printing; `BranchNode`, which
nothing constructs; lists as arguments, variadic operations and other operations
whose classes are abstract and cannot be instantiated; static lists; unary minus,
which raises.

## Mutants and findings

Each property of a passing run has a faulty variant of a definition (next to the
definition it replaces) that breaks it; `PROJECT.json` lists the pairs. The
findings in `PROJECT.json` quote the line of the repository that each violation
run contradicts.

## Not modelled

Numbers and kernels' arithmetic; timing; the destructors of the pool; `+` of
FractalTensors, and conversions between a Tensor and a FractalTensor; `examples/`
(their shapes occur as programs of the parser run), the baselines in other
frameworks and the cuDNN comparison. Of the kernels: matrix products and their tile
copies, random numbers, printing and comparing; the online softmax, which
differs from softmax in its numbers; `softmax_v2.h` and `softmax_v3.h`, which
nothing calls; softmax rows shorter than a warp, whose result is undefined. The
cute LSTM kernels (`kernels/lstm.h`, `kernels/lstm/`) are floating-point tile
arithmetic, and the regions on them were written for timing: region 3 of the
stacked LSTM frees the outputs of a hyperplane without the scatter its comment
names (`region3.h:105`), and the cell of the dilated LSTM multiplies buffers that
nobody filled (`lstm.h:376-386`). What else is wrong there, sizes kept in static
constants and a block larger than a device allows, is listed under the hazards.
Liveness and everything about recursive operators stays with TLC: the two
liveness properties of the pool, the FractalTensors, and the results of the parser;
and so does what the kernels compute.
