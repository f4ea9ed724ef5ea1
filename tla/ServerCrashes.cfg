SPECIFICATION Spec
CONSTANTS
  MaxConnections = 2
  MaxRequests = 2
  Faults = {"signal"}
INVARIANTS
  ShutdownIsGraceful
