----------------------------- MODULE DilatedLstm -----------------------------
(***************************************************************************)
(* The schedule of the dilated LSTM:                                       *)
(* benchmarks/rnn/fractaltensor/dilated_lstm/stacked_dilated_lstm.cu.      *)
(* Region 1 walks layer 0 one time step at a time. Region 2 walks layer i  *)
(* in chunks of link_len = 2^i steps: the state of a cell comes from the   *)
(* cell link_len steps before it, so all cells of a chunk are independent. *)
(*                                                                         *)
(* As in StackedLstm the unit of an offset is the slab of one cell, and a  *)
(* slab holds the output that was stored in it last.                       *)
(***************************************************************************)
EXTENDS Integers, Sequences

CONSTANT Fused  (* FUSE_ALL_ELEMENTWISE is defined                         *)

VARIABLES
  depth,      (* ws.dim_size(0)                                            *)
  len,        (* xss.dim_size(0), the length after rounding                *)
  region,
  layer,      (* i of region 2                                             *)
  step,       (* time step of region 1, j of region 2                      *)
  link_len,   (* cells of a chunk of region 2                              *)
  hsss, csss,
  operands,   (* the slabs handed to the kernels of the last step          *)
  status      (* "ok", "done", or "abort" after a failed CHECK_LE          *)

shape  == <<depth, len>>
arrays == <<hsss, csss>>
vars   == <<depth, len, region, layer, step, link_len, hsss, csss, operands, status>>

\* The driver makes the length a multiple of the longest link, 2^(depth - 1),
\* in networks of more than two layers. (Faulty variant: of half of that.)
RoundUp(l, link) == ((l - 1) \div link + 1) * link
HalfRounded(d, l) == IF d > 2 THEN RoundUp(l, 2^(d - 2)) ELSE l
Rounded(d, l)     == IF d > 2 THEN RoundUp(l, 2 * 2^(d - 2)) ELSE l

Cells        == (0..depth - 1) \X (0..len - 1)
Offset(i, j) == i * len + j
Slabs        == 0..depth * len - 1

\* Tensor::CreateFrom: a view of n slabs from slab a.
Fits(a, n) == a + n <= depth * len

Output(kind, i, j) == [out |-> kind, layer |-> i, time |-> j]

Operand(role, i, j, array, a) ==
  [role |-> role, layer |-> i, time |-> j, from |-> array, slab |-> a]

\* LstmLayer, as called by region 1: c is read from out2 = hsss, Gemm reads none
\* of its parameters (utils.h:220-254), and the fused activation always stores to
\* the first slab.
Target(j) == IF Fused THEN 0 ELSE j

Region1 ==
  /\ status = "ok" /\ region = 1 /\ step < len
  /\ csss' = [csss EXCEPT ![Target(step)] = <<Output("c", 0, step)>>]
  /\ hsss' = [hsss EXCEPT ![Target(step)] = <<Output("h", 0, step)>>]
  /\ operands' = IF step = 0 THEN {} ELSE {Operand("c", 0, step, "hsss", step - 1)}
  /\ step' = step + 1
  /\ UNCHANGED <<shape, region, layer, link_len, status>>

\* Region 2 begins; it returns at once in a network of one layer.
EnterRegion2 ==
  /\ status = "ok" /\ region = 1 /\ step >= len
  /\ IF depth = 1
     THEN status' = "done" /\ UNCHANGED <<region, layer, step, link_len>>
     ELSE /\ region' = 2 /\ layer' = 1 /\ step' = 0 /\ link_len' = 2
          /\ UNCHANGED status
  /\ operands' = {}
  /\ UNCHANGED <<shape, arrays>>

\* Where the state of a chunk begins. (Faulty variant: one step before it, as
\* in the stacked LSTM.)
PreviousStep(i, j)  == Offset(i, j - 1)
PreviousChunk(i, j) == Offset(i, j - link_len)

\* The views of a chunk: outputs, x, and from the second chunk on h and c.
ViewsFit ==
  /\ Fits(Offset(layer, step), link_len)
  /\ Fits(Offset(layer - 1, step), link_len)
  /\ step > 0 => Fits(PreviousChunk(layer, step), link_len)

\* Stores the outputs of cells (layer, step), (layer, step + 1), ... to the
\* slabs from the chunk's first one on.
StoreChunk(array, kind) ==
  [a \in Slabs |->
     LET k == a - Offset(layer, step) IN
     IF k \in 0..link_len - 1 THEN <<Output(kind, layer, step + k)>>
                              ELSE array[a]]

ChunkOperands ==
  UNION {
    {Operand("x", layer, step + k, "hsss", Offset(layer - 1, step) + k)} \cup
    (IF step = 0 THEN {}
     ELSE {Operand("h", layer, step + k, "hsss", PreviousChunk(layer, step) + k),
           Operand("c", layer, step + k, "csss", PreviousChunk(layer, step) + k)})
    : k \in 0..link_len - 1}

\* LstmCell of one chunk.
Chunk ==
  /\ status = "ok" /\ region = 2 /\ layer < depth /\ step < len
  /\ IF ViewsFit
     THEN /\ csss' = StoreChunk(csss, "c")
          /\ hsss' = StoreChunk(hsss, "h")
          /\ operands' = ChunkOperands
          /\ step' = step + link_len
          /\ UNCHANGED <<shape, region, layer, link_len, status>>
     ELSE status' = "abort"
          /\ UNCHANGED <<shape, region, layer, step, link_len, arrays, operands>>

NextLayer ==
  /\ status = "ok" /\ region = 2 /\ layer < depth /\ step >= len
  /\ layer' = layer + 1
  /\ step' = 0
  /\ link_len' = 2 * link_len
  /\ operands' = {}
  /\ UNCHANGED <<shape, region, arrays, status>>

Return ==
  /\ status = "ok" /\ region = 2 /\ layer = depth
  /\ status' = "done"
  /\ operands' = {}
  /\ UNCHANGED <<shape, region, layer, step, link_len, arrays>>

\* A call with d layers and sequences of length l.
InitFor(d, l) ==
  /\ depth = d
  /\ len = Rounded(d, l)
  /\ region = 1 /\ layer = 0 /\ step = 0 /\ link_len = 0
  /\ hsss = [a \in Slabs |-> <<>>]
  /\ csss = [a \in Slabs |-> <<>>]
  /\ operands = {}
  /\ status = "ok"

Next == Region1 \/ EnterRegion2 \/ Chunk \/ NextLayer \/ Return

-----------------------------------------------------------------------------

\* The test of the driver rounds the length only from three layers on: with
\* two, CreateFrom stops the program for an odd length.
OddWithTwoLayers == depth = 2 /\ len % 2 = 1

\* A chunk never spills into the next layer, although the CHECK_LE of CreateFrom
\* would notice only in the last one, and the next layer stores over what was
\* spilt: at all times a slab holds the outputs of its own cell or nothing.
\* When the driver returns all cells are stored, and it does return unless the
\* length is odd and there are two layers.
ChunksStayInLayer ==
  /\ \A c \in Cells : LET a == Offset(c[1], c[2]) IN
       /\ hsss[a] \in {<<>>, <<Output("h", c[1], c[2])>>}
       /\ csss[a] \in {<<>>, <<Output("c", c[1], c[2])>>}
       /\ status = "done" => hsss[a] # <<>> /\ csss[a] # <<>>
  /\ status = "abort" => OddWithTwoLayers

\* What LinksFound says of the operands S of a step.
Linked(S) ==
  \A o \in S :
    LET link == 2^o.layer IN
    /\ o.role = "x" => /\ o.slab = Offset(o.layer - 1, o.time)
                       /\ hsss[o.slab] # <<>>
    /\ o.role \in {"h", "c"} => /\ o.time >= link
                                /\ o.slab = Offset(o.layer, o.time - link)
                                /\ hsss[o.slab] # <<>> /\ csss[o.slab] # <<>>
    /\ o.time >= link =>
         \A r \in {"h", "c"} : \E e \in S : e.role = r /\ e.time = o.time

\* Cell (i, j) of region 2 gets x from the same step of the layer below and h
\* and c from 2^i steps before in its own layer, or zeros if there is no such
\* step; all of it was stored by an earlier launch.
LinksFound == [][region = 2 => Linked(operands')]_vars

-----------------------------------------------------------------------------
(***************************************************************************)
(* The inductive invariant.                                                *)
(***************************************************************************)

\* The cells the regions have walked so far.
Walked(c) ==
  \/ region = 1 /\ c[1] = 0 /\ c[2] < step
  \/ region = 2 /\ c[1] < layer
  \/ region = 2 /\ c[1] = layer /\ c[2] < step

\* The longest link divides the length, and each link the longest.
LengthRounded == depth >= 2 /\ ~OddWithTwoLayers => len % 2^(depth - 1) = 0
LinkInv ==
  region = 2 => /\ depth >= 2 /\ layer \in 1..depth
                /\ link_len = 2^layer
                /\ layer < depth => link_len * 2^(depth - 1 - layer) = 2^(depth - 1)
                /\ step % link_len = 0

\* Where the loops of the regions are.
LoopInv ==
  /\ depth \in Nat \ {0} /\ len \in Nat \ {0} /\ LengthRounded
  /\ region \in {1, 2} /\ layer \in Nat /\ link_len \in Nat
  /\ step \in 0..len
  /\ LinkInv
  /\ status \in {"ok", "done", "abort"}
  /\ status = "done" => IF region = 1 THEN depth = 1 /\ step = len ELSE layer = depth
  /\ status = "abort" => OddWithTwoLayers

\* A slab holds the output of its cell from the time that is walked.
HeldInv ==
  /\ DOMAIN hsss = Slabs /\ DOMAIN csss = Slabs
  /\ \A c \in Cells : LET a == Offset(c[1], c[2]) IN
       /\ hsss[a] = IF Walked(c) THEN <<Output("h", c[1], c[2])>> ELSE <<>>
       /\ csss[a] = IF Walked(c) THEN <<Output("c", c[1], c[2])>> ELSE <<>>

\* The operands stay what LinksFound wants until the next step.
OperandsInv ==
  region = 2 => /\ Linked(operands)
                /\ \A o \in operands : o.role \in {"x", "h", "c"} /\ o.slab \in Slabs

IInv == LoopInv /\ HeldInv /\ OperandsInv
=============================================================================
