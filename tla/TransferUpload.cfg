SPECIFICATION Spec
CONSTANTS
  FullBlocks = 2
  TailBytes = 1
  BlockSize = 2
  BlockMod = 8
  MaxAge = 4
  MaxRetry = 3
  MaxDup = 2
  Upload = TRUE
  LittleEndian = TRUE
  Faults = {"loss", "early", "send", "read", "write", "remove", "signal"}
INVARIANTS
  TypeOK
  FileInOrder
  CompleteIsWhole
  AckedIsDelivered
  RemovedIsIncomplete
  SuccessIsDelivered
PROPERTIES
  DeliverySpec
