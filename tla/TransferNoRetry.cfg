SPECIFICATION Spec
CONSTANTS
  FullBlocks = 1
  TailBytes = 1
  BlockSize = 2
  BlockMod = 8
  MaxAge = 4
  MaxRetry = 5
  MaxDup = 0
  Upload = TRUE
  LittleEndian = TRUE
  Faults = {"loss"}
PROPERTIES
  RetriesBeforeGivingUp
