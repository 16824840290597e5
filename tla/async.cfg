SPECIFICATION FairSpec
CONSTANTS
  Apps <- SomeApps
  Submitters = {p1}
  Jobs <- OneTenantJobs
  NumTasks = 3
  Pool = {t1, t2}
  Worker = w
  NoThread = NoThread
  Buffer = 2
  MaxInFlight = 2
  U32 = 4
  MaxGiveUps = 1
  MaxGlobal = 2
  MaxPerTenant = 2
  CloseModes = {"drain", "immediate"}
INVARIANTS AsyncTypeInv TasksAccounted OrderKept StartsInOrder HandlersGated
PROPERTIES ReceiverDropReturns CloseEndsUsers
CHECK_DEADLOCK FALSE
