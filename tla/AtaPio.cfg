SPECIFICATION FairSpec
CONSTANTS
  NumSectors = 3
  MaxBurst = 2
  MaxCalls = 3
  MaxFaults = 1
  MaxPowerLosses = 1
INVARIANTS
  InStep
  OwnSector
PROPERTIES
  ImplementsBlockDisk
  EveryCallReturns
CHECK_DEADLOCK FALSE
