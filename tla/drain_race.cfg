SPECIFICATION Spec
CONSTANTS
  Tenants = {0, 1}
  NumShards = 1
  Producers = {p1}
  Consumers = {c1}
  Cancellers = {}
  Closers = {k1}
  NoProc = NoProc
  Kind <- AllBlocking
  Requests <- OneTenantRequests
  Policy <- RejectAll
  Quantum <- QuantumOne
  MaxGlobal = 2
  MaxPerTenant = 2
  PurgeInterval = 32
  NearPercent = 90
  NearBudget = 8
  FullBudget = 32
  CloseModes = {"drain"}
  MaxTasks = 2
INVARIANT DrainServesAll
CHECK_DEADLOCK FALSE
