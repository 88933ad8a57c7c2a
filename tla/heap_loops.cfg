CONSTANTS
  Total = 4
  BlockSize = 4
  WordBlocks = 8
  Saddr = 16
  MaxCount = 6
SPECIFICATION Spec
CHECK_DEADLOCK FALSE
INVARIANTS
  LoopsTypeOK
  ScanCorrect
  TakenCorrect
  FreeCorrect
