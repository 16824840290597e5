SPECIFICATION Spec
CONSTANTS
  Tenants = {0, 1}
  NumShards = 1
  Producers = {p1}
  Consumers = {c1, c2}
  Cancellers = {k1}
  Closers = {}
  NoProc = NoProc
  Kind <- AllBlocking
  Requests <- CheapRequests
  Policy <- RejectAll
  Quantum <- QuantumOne
  MaxGlobal = 3
  MaxPerTenant = 3
  PurgeInterval = 32
  NearPercent = 90
  NearBudget = 8
  FullBudget = 32
  CloseModes = {}
  MaxTasks = 3
INVARIANT NoSleepOnWork
CHECK_DEADLOCK FALSE
