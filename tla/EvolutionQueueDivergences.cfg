\* One worker. Each property is violated, DeletedContentIsHidden on PostgreSQL and
\* RevocationBarrier on SQLite; TLC stops at the first, so the others wait as comments.
SPECIFICATION Spec
CONSTANTS
  w1 = w1  w2 = w2  h1 = h1  h2 = h2
  Worker = {w1}
  Host = {h1, h2}
  Database = {"sqlite", "postgresql"}
  Scopes = {"belief"}
  StallAfterClaim = FALSE
  MaxAttempts = 1
  MaxBelief = 1
  MaxJob = 2
  MaxRevision = 3
  MaxRequeues = 0
  MaxFaults = 0
INVARIANTS
  CancelledJobsDoNotBlock
\* OneActiveJob
\* DeletedContentIsHidden
\* PROPERTIES RevocationBarrier
SYMMETRY Workers
CHECK_DEADLOCK FALSE
