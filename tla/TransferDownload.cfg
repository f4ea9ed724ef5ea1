SPECIFICATION FairSpec
CONSTANTS
  FullBlocks = 3
  TailBytes = 1
  BlockSize = 2
  BlockMod = 3
  MaxAge = 2
  MaxRetry = 2
  MaxDup = 1
  Upload = FALSE
  LittleEndian = FALSE
  Faults = {"loss", "early", "send", "read", "shortread", "write", "shortwrite", "signal", "crash"}
INVARIANTS
  FileInOrder
PROPERTIES
  SignalBoundsReception
  Termination
