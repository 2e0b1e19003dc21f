SPECIFICATION LiveSpec
CONSTANTS
  r1 = r1
  r2 = r2
  r3 = r3
  a = a
  b = b
  house = house
  Request <- TwoRequests
  Tenant <- TwoTenants
  Default = house
  Limit = 1
  MaxCreations = 3
  MaxFailures = 1
  MaxLives = 2
INVARIANTS
  OneBuildPerTenant
  ServedByThisApp
PROPERTIES
  EveryRequestIsAnswered
\* These hold with the same constants: TypeOK EngineOfItsTenant NoOrphanPlaceholder SharedPoolStaysOpen
CHECK_DEADLOCK FALSE
