SPECIFICATION FairSpec
CONSTANTS
  FullBlocks = 4
  TailBytes = 1
  BlockSize = 2
  BlockMod = 16
  MaxAge = 8
  MaxRetry = 5
  MaxDup = 4
  Upload = TRUE
  LittleEndian = TRUE
  Faults = {}
PROPERTIES
  FaultFreeCompletes
