CONSTANTS
  Total = 32
  BlockSize = 4
  WordBlocks = 64
  Saddr = 64
  PageSize = 4
  TableSize = 8
  ProgAddress = 28
  StackAddress = 16
  TaskAddrs <- MCTaskAddrs
  MaxProcesses = 3
  ImageSizes <- MCImageSizes
  ProcBlocks = 2
  StackBlocks = 2
  DirBlocks = 2
  PathBlocks = 1
  OpenBlocks = 2
SPECIFICATION Spec
CHECK_DEADLOCK FALSE
INVARIANTS
  TypeOK
  Isolation
  MapsExact
  LinksMatch
  ListFollowsSlots
