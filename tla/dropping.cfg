SPECIFICATION Spec
CONSTANTS
  Tenants = {0, 1}
  NumShards = 1
  Producers = {p1}
  Consumers = {c1}
  Cancellers = {k1}
  Closers = {}
  NoProc = NoProc
  Kind <- AllTry
  Requests <- DropBothRequests
  Policy <- DropBoth
  Quantum <- QuantumOne
  MaxGlobal = 2
  MaxPerTenant = 2
  PurgeInterval = 2
  NearPercent = 50
  NearBudget = 1
  FullBudget = 2
  CloseModes = {}
  MaxTasks = 3
CHECK_DEADLOCK FALSE
INVARIANTS SlotsExact NothingLost DeliveredInOrder
PROPERTIES ImplementsLedger
