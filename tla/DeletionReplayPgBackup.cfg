\* PostgreSQL: deletions of two users overlap, a backup is taken between their
\* commits.
SPECIFICATION Spec
CONSTANTS
  r1 = r1  r2 = r2  u1 = u1  u2 = u2  e1 = e1  e2 = e2  w1 = w1
  Row = {r1, r2}
  User = {u1, u2}
  Owner <- TwoUsers
  Summary = {r2}
  Engine = {e1, e2}
  Worker = {}
  NoNode = NoNode
  Exclusive = FALSE
  PruneDuringReplay = FALSE
  LogMayRollBack = FALSE
  MaxLog = 2
  MaxBackups = 1
  MaxFaults = 0
SYMMETRY EngineSymmetry
INVARIANT BackupsAreHonest
CHECK_DEADLOCK FALSE
