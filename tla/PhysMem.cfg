SPECIFICATION Spec
CONSTANTS
  PageSize = 2
  MaxPages = 8
  LowEnd = 2
  MaxAddr = 40
  Widths = {0, 1, 4, 7}
  MemMap <- MCMemMap
  Kernel <- MCKernel
  NoMap = NoMap
INVARIANTS
  PagesAreSafe
PROPERTIES
  ImplementsPageAllocator
