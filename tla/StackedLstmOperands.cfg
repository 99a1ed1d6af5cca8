SPECIFICATION Spec
CONSTANTS
  MaxDepth = 3
  MaxLength = 3
  Fused = TRUE
INVARIANTS
  ParallelOperandsHold
\* The program ends after its last region.
CHECK_DEADLOCK FALSE
