CONSTANTS
  Total = 5
  BlockSize = 4
  WordBlocks = 8
  Saddr = 16
  Requests <- TestRequests
SPECIFICATION Spec
INVARIANTS
  AllFreeWhenIdle
