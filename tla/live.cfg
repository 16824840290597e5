SPECIFICATION FairSpec
CONSTANTS
  Tenants = {0}
  NumShards = 1
  Producers = {p1}
  Consumers = {c1, c2}
  Cancellers = {}
  Closers = {k1}
  NoProc = NoProc
  Kind <- AllBlocking
  Requests <- OneTenantRequests
  Policy <- RejectAll
  Quantum <- QuantumOne
  MaxGlobal = 2
  MaxPerTenant = 1
  PurgeInterval = 2
  NearPercent = 80
  NearBudget = 1
  FullBudget = 2
  CloseModes = {"drain", "immediate"}
  MaxTasks = 2
PROPERTIES EveryTaskSettled ConsumersReleased
CHECK_DEADLOCK FALSE
