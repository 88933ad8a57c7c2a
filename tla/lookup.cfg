CONSTANTS
  MaxPath = 8
  NameLen = 2
  ExtLen = 1
  RootEntries = 3
  EntryKinds <- MCEntryKinds
  Tails <- MCTails
  Paths <- MCPaths
SPECIFICATION Spec
INVARIANTS
  LookupTypeOK
  MountedRight
  ParsedIsPath
  FoundIsNamed
  UniqueFound
PROPERTY LookupReturns
CHECK_DEADLOCK FALSE
