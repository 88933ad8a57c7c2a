CONSTANTS
  Pool = 20
  MaxFd = 2
  file = file
  dir = dir
  missing = missing
  NoName = NoName
  FileNames <- MCFileNames
  DirNames <- MCDirNames
  OtherNames <- MCOtherNames
  Paths <- MCPaths
SPECIFICATION Spec
INVARIANTS
  TypeOK
  ChainsSound
  ChainsDisjoint
  NoSlotLeaked
  OnlyPathsLost
PROPERTIES
  GarbageGrows
  ImplementsFileTable
