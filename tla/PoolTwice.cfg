SPECIFICATION Spec
CONSTANTS
  Blocks = {b1, b2, b3}
  Streams = {s1}
  Null = Null
  NoBlock = NoBlock
  Idle = Idle
  Sizes = {2, 5}
  DeviceBytes = 10
  MaxKernels = 1
  MaxTenure = 2
INVARIANTS
  LessThanTwice
\* The process may end: a failed cudaMalloc exits (cuda_utils.h:82-90), and
\* with MaxTenure reached the client has nothing left to do.
CHECK_DEADLOCK FALSE
