SPECIFICATION Spec
CONSTANTS
  Tenants = {0, 1}
  NumShards = 2
  Producers = {p1, p2}
  Consumers = {c1, c2}
  Cancellers = {}
  Closers = {k1}
  NoProc = NoProc
  Kind <- AllBlocking
  Requests <- TwoShardRequests
  Policy <- WaitOrRefuse
  Quantum <- QuantumOne
  MaxGlobal = 1
  MaxPerTenant = 2
  PurgeInterval = 32
  NearPercent = 90
  NearBudget = 1
  FullBudget = 2
  CloseModes = {"drain", "immediate"}
  MaxTasks = 2
SYMMETRY Symmetry
CHECK_DEADLOCK FALSE
INVARIANTS SlotInv RunnableReachable NoSleepOnWork
PROPERTIES ClosedMeansDrained
