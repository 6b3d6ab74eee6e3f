SPECIFICATION FairSpec
CONSTANTS
  root = root
  sub = sub
  nSub = nSub
  nA = nA
  nB = nB
  nC = nC
  Dir <- MCDir
  Root <- root
  Name <- MCName
  DirName <- MCDirName
  DirClus <- MCDirClus
  InitFat <- MCFat
  InitDirent <- MCDirent
  NumSlots = 3
  Entries = 9
  LastCluster = 7
  SecPerClus = 1
  NumFats = 2
  MaxSectors = 5
  Target <- MCTargetDir
  MaxWrites = 3
  MaxInterrupts = 1
  MaxLookupFaults = 1
  RetryDamaged = TRUE
INVARIANTS
  DirectoriesSurvive
PROPERTIES
  EveryWriteReturns
CHECK_DEADLOCK FALSE
