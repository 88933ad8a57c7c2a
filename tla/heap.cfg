CONSTANTS
  Total = 4
  BlockSize = 4
  WordBlocks = 8
  Saddr = 16
  Requests <- MCRequests
SPECIFICATION Spec
INVARIANTS
  TypeOK
  LiveDisjoint
  LiveMarked
  RequestCovered
PROPERTIES
  LostForever
  ImplementsAllocator
