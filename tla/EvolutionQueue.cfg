\* Two workers and a host, on SQLite and on PostgreSQL.
SPECIFICATION Spec
CONSTANTS
  w1 = w1  w2 = w2  h1 = h1  h2 = h2
  Worker = {w1, w2}
  Host = {h1}
  Database = {"sqlite", "postgresql"}
  Scopes = {"belief", "user"}
  StallAfterClaim = FALSE
  MaxAttempts = 1
  MaxBelief = 1
  MaxJob = 1
  MaxRevision = 3
  MaxRequeues = 1
  MaxFaults = 1
INVARIANTS
  OneHolder
  TokensOrderVersions
  DeletedIsHiddenOnSqlite
PROPERTIES
  PublishIsCurrentOnSqlite
  RevocationBarrierOnPostgres
\* These hold with the same constants: TypeOK OneLiveSnapshot
SYMMETRY Workers
CHECK_DEADLOCK FALSE
