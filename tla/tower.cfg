SPECIFICATION FairSpec
CONSTANTS
  r1 = r1
  r2 = r2
  r3 = r3
  Calls = {r1, r2}
  TenantOf <- TwoTenants
  Deadlined = {r2}
  Replacing = {0}
  InFlightLimit = 1
  MaxGlobal = 2
  MaxPerTenant = 1
  CloseModes = {"drain", "immediate"}
INVARIANTS TowerTypeInv PermitsConserved OutcomeIsTrue
PROPERTIES RequestsAnswered AllReturned DropReturns
CHECK_DEADLOCK FALSE
