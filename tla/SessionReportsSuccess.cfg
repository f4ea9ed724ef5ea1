SPECIFICATION Spec
CONSTANTS
  Clients = {c1}
  Tasks = {t1}
  Ports = {p1}
  Operations = {"WRQ"}
  Blocks = 2
  MaxCopies = 2
  MaxRetry = 5
  LittleEndian = TRUE
  Faults = {"busy"}
INVARIANTS
  SuccessIsReceived
