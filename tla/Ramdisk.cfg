SPECIFICATION Spec
CONSTANTS
  bin = bin
  x = x
  y = y
  Dot = Dot
  Up = Up
  Name <- MCName
  NameLen <- MCNameLen
  MaxNodes = 6
  NameBytes = 30
  ArenaSize = 5
  Align = 2
  Image <- MCImage
  WritePath <- MCWritePath
  DirPath <- MCDirPath
  MaxSize = 2
  MaxWrites = 3
INVARIANTS
  TypeOK
  LinksMakeTree
PROPERTIES
  ImplementsFileTree
CHECK_DEADLOCK FALSE
