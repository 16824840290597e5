SPECIFICATION Spec
CONSTANTS
  Tenants = {0, 1}
  NumShards = 1
  Producers = {p1}
  Consumers = {c1}
  Cancellers = {k1}
  Closers = {}
  NoProc = NoProc
  Kind <- AllBlocking
  Requests <- OneTenantRequests
  Policy <- RejectAll
  Quantum <- QuantumOne
  MaxGlobal = 2
  MaxPerTenant = 2
  PurgeInterval = 32
  NearPercent = 90
  NearBudget = 8
  FullBudget = 32
  CloseModes = {}
  MaxTasks = 2
INVARIANT MarkersBounded
CHECK_DEADLOCK FALSE
