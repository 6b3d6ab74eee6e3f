SPECIFICATION Spec
CONSTANTS
  root = root
  sub = sub
  nSub = nSub
  nA = nA
  nB = nB
  nC = nC
  Dir <- MCDir
  Root <- root
  Name <- MCName
  DirName <- MCDirName
  DirClus <- MCDirClus
  InitFat <- MCFat
  InitDirent <- MCDirent
  NumSlots = 3
  Entries = 9
  LastCluster = 8
  SecPerClus = 2
  NumFats = 2
  MaxSectors = 3
  Target <- MCTarget
  MaxWrites = 3
  MaxInterrupts = 1
  MaxLookupFaults = 0
  RetryDamaged = FALSE
INVARIANTS
  SavedReadable
  NoCrossLink
  MirrorBound
  NoLeak
PROPERTIES
  ImplementsFileStore
CHECK_DEADLOCK FALSE
