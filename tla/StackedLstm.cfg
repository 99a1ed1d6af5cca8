SPECIFICATION ScheduleSpec
CONSTANTS
  MaxDepth = 6
  MaxLength = 6
  Fused = FALSE
  MaxGrid = 4
  MaxDilated = 4
  Batch = 2
  Device <- MCDevice
  Launches <- MCLaunches
  MaxResident = 2
INVARIANTS
  TypeOK
  OperandsExist
  StrideFindsInputs
  StoredOnce
  OwnOutputs
  EveryCellStored
  GridLaunchedOnce
  GridOutputs
  DilatedChunksStayInLayer
  KernelDelivers
  KernelNoRace
PROPERTIES
  StoredBeforeRead
  ImplementsDataflow
  GridNeighboursFound
  DilatedLinksFound
\* Each program ends after its last region.
CHECK_DEADLOCK FALSE
