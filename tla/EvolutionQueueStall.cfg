\* A worker stalls between its claim and the read of the token.
SPECIFICATION Spec
CONSTANTS
  w1 = w1  w2 = w2  h1 = h1  h2 = h2
  Worker = {w1, w2}
  Host = {h1}
  Database = {"sqlite"}
  Scopes = {}
  StallAfterClaim = TRUE
  MaxAttempts = 1
  MaxBelief = 1
  MaxJob = 1
  MaxRevision = 2
  MaxRequeues = 0
  MaxFaults = 1
INVARIANTS
  OneHolder
SYMMETRY Workers
CHECK_DEADLOCK FALSE
