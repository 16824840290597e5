SPECIFICATION PassSpec
CONSTANTS
  Tenants = {0, 1}
  NumShards = 1
  Producers = {p1, p2}
  Consumers = {c1}
  Cancellers = {k1}
  Closers = {}
  NoProc = NoProc
  Kind <- AllTimed
  Requests <- WaitOrRefuseRequests
  Policy <- WaitOrRefuse
  Quantum <- QuantumOne
  MaxGlobal = 2
  MaxPerTenant = 1
  PurgeInterval = 2
  NearPercent = 80
  NearBudget = 1
  FullBudget = 2
  CloseModes = {}
  MaxTasks = 3
SYMMETRY Symmetry
CHECK_DEADLOCK FALSE
INVARIANTS TypeInv SlotsExact RunnableReachable DeficitBound NoSleepOnRoom PayersFirst
PROPERTIES ImplementsLedger
