SPECIFICATION FairSpec
CONSTANTS
  MaxConnections = 2
  MaxRequests = 3
  Faults = {"signal", "thread", "socket", "port"}
INVARIANTS
  TypeOK
  SlotAccounting
  OccupiedIsOwned
  OperationIsOwn
  OperationsAreFreed
  ShutdownAwaitsOperations
PROPERTIES
  RejectedOnlyWhenFull
  PoolSpec
  SlotsComeBack
  SignalStopsAdmission
