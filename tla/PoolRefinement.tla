--------------------------- MODULE PoolRefinement ---------------------------
(***************************************************************************)
(* CudaMemoryPool implements ExclusiveAllocator: the regions are the pool's *)
(* blocks, and a region is live while its marked_free_ is false. The scan, *)
(* the streams and the events disappear.                                   *)
(***************************************************************************)
EXTENDS CudaMemoryPool

Exclusive == INSTANCE ExclusiveAllocator WITH
  Regions  <- Blocks,
  Requests <- Sizes,
  reserved <- InVector,
  size     <- nbytes,
  live     <- {b \in InVector : ~markedFree[b]},
  asked    <- request

\* Every step of the pool is a step of the abstract allocator, or invisible to
\* its clients.
ImplementsExclusiveAllocator == Exclusive!Spec
=============================================================================
