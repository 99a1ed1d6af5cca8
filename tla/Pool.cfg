SPECIFICATION FairSpec
CONSTANTS
  Blocks = {b1, b2, b3}
  Streams = {s1, s2}
  Null = Null
  NoBlock = NoBlock
  Idle = Idle
  Sizes = {1, 2, 3}
  DeviceBytes = 6
  MaxKernels = 2
  MaxTenure = 3
ACTION_CONSTRAINTS
  WithinBounds
  InOrder
INVARIANTS
  TypeOK
  Sorted
  IndexesAgree
  ExclusiveHandOut
  FitsRequest
  ChecksHold
  TwoTenuresInFlight
  IInv
PROPERTIES
  ImplementsExclusiveAllocator
  GrowOnlyWhenNoneFits
  ReuseIsTightest
  GivenBackBecomesFree
  AllocateReturns
\* The process may end: a failed cudaMalloc exits (cuda_utils.h:82-90), and
\* with MaxTenure reached the client has nothing left to do.
CHECK_DEADLOCK FALSE
