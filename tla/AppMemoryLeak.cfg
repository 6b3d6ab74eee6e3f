SPECIFICATION Spec
CONSTANTS
  PageSize = 2
  MaxPages = 16
  LowEnd = 2
  MaxAddr = 32
  WindowPages = 4
  TableSpan = 2
  Sizes = {28}
  MemMap <- MCMemMap
  Kernel <- MCKernel
  NoMap = NoMap
  Program <- MCProgram
INVARIANT
  AllGivenBack
CHECK_DEADLOCK FALSE
