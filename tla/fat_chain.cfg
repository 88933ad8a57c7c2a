CONSTANTS
  Sector = 4
  SectorsPerCluster = 2
  Reserved = 1
  FatSectors = 2
  RootSectors = 2
  FirstCluster = 2
  FileSize = 18
  DiskSectors = 12
  Half = 128
  MaxPos = 12
  Words <- MCWords
  Sizes <- MCSizes
  Counts <- MCCounts
  Offsets <- MCOffsets
SPECIFICATION Spec
INVARIANTS
  EntriesReadInTable
