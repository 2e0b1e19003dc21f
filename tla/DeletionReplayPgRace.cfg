\* PostgreSQL: two user-scope deletions of one user race for a generation.
SPECIFICATION Spec
CONSTANTS
  r1 = r1  r2 = r2  u1 = u1  u2 = u2  e1 = e1  e2 = e2  w1 = w1
  Row = {r1, r2}
  User = {u1}
  Owner <- OneUser
  Summary = {r2}
  Engine = {e1, e2}
  Worker = {}
  NoNode = NoNode
  Exclusive = FALSE
  PruneDuringReplay = FALSE
  LogMayRollBack = TRUE
  MaxLog = 2
  MaxBackups = 0
  MaxFaults = 0
SYMMETRY EngineSymmetry
PROPERTY CommitRemovesItsRows
CHECK_DEADLOCK FALSE
