\* Two jobs of one user on PostgreSQL publish side by side.
SPECIFICATION Spec
CONSTANTS
  w1 = w1  w2 = w2  h1 = h1  h2 = h2
  Worker = {w1, w2}
  Host = {h1, h2}
  Database = {"postgresql"}
  Scopes = {}
  StallAfterClaim = FALSE
  MaxAttempts = 1
  MaxBelief = 1
  MaxJob = 2
  MaxRevision = 2
  MaxRequeues = 0
  MaxFaults = 0
INVARIANTS
  OneLiveSnapshot
SYMMETRY Workers
CHECK_DEADLOCK FALSE
