CONSTANTS
  Word = 64
  MinClusters = 5
  SectorBytes = 8
  Fat32Types = {11, 12}
  Tables <- MCTables
  BootSectors <- MCBootSectors
  Cap = 15
  SegCap = 5
  DiskName <- MCDiskName
  BaseLen = 2
  ExtLen = 1
  LowerCase <- MCLowerCase
  Dirs <- MCDirs
  DiskFiles <- MCDiskFiles
  RamFiles <- MCRamFiles
  BinName <- MCBinName
  RamBinName <- MCRamBin
  ElfExt <- MCElfExt
  Args <- MCArgs
  Rests <- MCRests
  SavePaths <- MCSavePaths
  MaxSaves = 2
SPECIFICATION Spec
INVARIANTS
  TypeOK
  RightDrive
  VolumeSound
  VolumeFound
  CwdIsDirectory
  
  RunsFirstFound
  SavedIsFound
CHECK_DEADLOCK FALSE
