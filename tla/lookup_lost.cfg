CONSTANTS
  MaxPath = 8
  NameLen = 2
  ExtLen = 1
  RootEntries = 3
  EntryKinds <- MCErasedKinds
  Tails <- MCTails
  Paths <- MCPaths
SPECIFICATION Spec
INVARIANT FilesFound
CHECK_DEADLOCK FALSE
