SPECIFICATION Spec
CONSTANTS
  Clients = {c1, c2}
  Tasks = {t1, t2}
  Ports = {p1, p2}
  Operations = {"WRQ", "RRQ"}
  Blocks = 2
  MaxCopies = 2
  MaxRetry = 1
  LittleEndian = TRUE
  Faults = {"sameport"}
INVARIANTS
  SessionsAreSeparate
  AckedIsReceived
