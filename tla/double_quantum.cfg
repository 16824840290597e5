SPECIFICATION Spec
CONSTANTS
  Tenants = {0, 1}
  NumShards = 1
  Producers = {p1}
  Consumers = {c1}
  Cancellers = {}
  Closers = {}
  NoProc = NoProc
  Kind <- AllBlocking
  Requests <- ExpiringRequests
  Policy <- RejectAll
  Quantum <- QuantumOne
  MaxGlobal = 2
  MaxPerTenant = 1
  PurgeInterval = 32
  NearPercent = 90
  NearBudget = 8
  FullBudget = 32
  CloseModes = {}
  MaxTasks = 3
INVARIANT OneQuantumPerRound
CHECK_DEADLOCK FALSE
