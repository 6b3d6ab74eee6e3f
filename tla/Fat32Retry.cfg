SPECIFICATION Spec
CONSTANTS
  root = root
  sub = sub
  nSub = nSub
  nA = nA
  nB = nB
  nC = nC
  Dir <- MCDir
  Root <- root
  Name <- MCName
  DirName <- MCDirName
  DirClus <- MCDirClus
  InitFat <- MCFat
  InitDirent <- MCDirent
  NumSlots = 3
  Entries = 9
  LastCluster = 8
  SecPerClus = 1
  NumFats = 2
  MaxSectors = 4
  Target <- MCTarget
  MaxWrites = 4
  MaxInterrupts = 0
  MaxLookupFaults = 0
  RetryDamaged = TRUE
INVARIANT
  SavedReadable
CHECK_DEADLOCK FALSE
