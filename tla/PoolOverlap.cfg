SPECIFICATION Spec
CONSTANTS
  Blocks = {b1, b2}
  Streams = {s1, s2}
  Null = Null
  NoBlock = NoBlock
  Idle = Idle
  Sizes = {1}
  DeviceBytes = 2
  MaxKernels = 3
  MaxTenure = 3
ACTION_CONSTRAINT RegisteredFirst
INVARIANTS
  TenuresDoNotOverlap
\* The process may end: a failed cudaMalloc exits (cuda_utils.h:82-90), and
\* with MaxTenure reached the client has nothing left to do.
CHECK_DEADLOCK FALSE
