SPECIFICATION Spec
CONSTANTS
  FullBlocks = 2
  TailBytes = 0
  BlockSize = 2
  BlockMod = 8
  MaxAge = 4
  MaxRetry = 5
  MaxDup = 0
  Upload = TRUE
  LittleEndian = TRUE
  Faults = {"loss"}
INVARIANTS
  RemovedIsIncomplete
