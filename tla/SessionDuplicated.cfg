SPECIFICATION FairSpec
CONSTANTS
  Clients = {c1}
  Tasks = {t1, t2}
  Ports = {p1, p2}
  Operations = {"WRQ", "RRQ", "DRQ"}
  Blocks = 2
  MaxCopies = 2
  MaxRetry = 5
  LittleEndian = TRUE
  Faults = {"busy", "sameport", "open", "ack", "remove"}
INVARIANTS
  TypeOK
  UploadAllOrNothing
  ConfirmedIsRemoved
PROPERTIES
  SessionEnds
