\* Every job is settled, on either database.
SPECIFICATION LiveSpec
CONSTANTS
  w1 = w1  w2 = w2  h1 = h1  h2 = h2
  Worker = {w1, w2}
  Host = {h1}
  Database = {"sqlite", "postgresql"}
  Scopes = {"belief"}
  StallAfterClaim = FALSE
  MaxAttempts = 1
  MaxBelief = 1
  MaxJob = 1
  MaxRevision = 3
  MaxRequeues = 0
  MaxFaults = 1
PROPERTIES
  JobsSettle
CHECK_DEADLOCK FALSE
