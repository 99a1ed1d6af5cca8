SPECIFICATION Spec
CONSTANTS
  Blocks = {b1, b2, b3}
  Streams = {s1}
  Null = Null
  NoBlock = NoBlock
  Idle = Idle
  Sizes = {0, 1}
  DeviceBytes = 3
  MaxKernels = 1
  MaxTenure = 2
INVARIANTS
  ChecksHold
\* The process may end: a failed cudaMalloc exits (cuda_utils.h:82-90), and
\* with MaxTenure reached the client has nothing left to do.
CHECK_DEADLOCK FALSE
