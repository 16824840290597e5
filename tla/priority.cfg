SPECIFICATION Spec
CONSTANTS
  Tenants = {0, 1}
  NumShards = 1
  Producers = {p1}
  Consumers = {c1}
  Cancellers = {}
  Closers = {}
  NoProc = NoProc
  Kind <- AllTry
  Requests <- TwoPriorityRequests
  Policy <- RejectAll
  Quantum <- QuantumOne
  MaxGlobal = 3
  MaxPerTenant = 3
  PurgeInterval = 32
  NearPercent = 90
  NearBudget = 8
  FullBudget = 32
  CloseModes = {}
  MaxTasks = 3
PROPERTY StrictPriority
CHECK_DEADLOCK FALSE
