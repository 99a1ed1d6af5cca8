-------------------------- MODULE MCCudaMemoryPool --------------------------
(***************************************************************************)
(* Small instances of CudaMemoryPool, and of its refinement, for TLC. The  *)
(* action constraints of the runs bound what a client calls, never what a  *)
(* call or the device goes on to do, so they leave no step of FairSpec's   *)
(* fairness out.                                                           *)
(***************************************************************************)
EXTENDS PoolRefinement, FiniteSets

\* A call to Allocate begins (and may end at once).
Enters == scan = Idle /\ (scan' # Idle \/ tenure' # tenure)

\* A client calls Allocate with at most one block in the pool, or with two if it
\* uses one stream and no block has been handed out twice; it registers a
\* stream with at most one block in the pool.
OneStream == Cardinality(trackStreams) <= 1
WithinBounds ==
  /\ Enters => \/ Cardinality(InVector) < 2
               \/ OneStream /\ \A b \in Blocks : tenure[b] < 2
  /\ trackStreams' # trackStreams => Cardinality(InVector) < 2

\* Unused blocks are interchangeable, so the next one stands for all of them:
\* what a symmetry set would give, in a run that also checks liveness.
InOrder ==
  \A b \in InVector' \ InVector : b = CHOOSE c \in Unused : TRUE

\* The client of test_allocator.cc:26-29, which registers every stream before
\* it allocates anything.
RegisteredFirst == InVector' # {} => trackStreams = Streams
=============================================================================
