SPECIFICATION Spec
CONSTANTS
  PageSize = 2
  MaxPages = 16
  LowEnd = 2
  MaxAddr = 32
  WindowPages = 4
  TableSpan = 2
  Sizes = {6, 10, 12, 14, 18, 28}
  MemMap <- MCMemMap
  Kernel <- MCKernel
  NoMap = NoMap
  Program <- MCProgram
INVARIANTS
  TypeOK
  PagesAccounted
  TlbFresh
  RightsFinal
  LoadNeverFaults
  NeverDry
CHECK_DEADLOCK FALSE
