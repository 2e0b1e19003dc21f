\* PostgreSQL: two engines whose deletions overlap, a backup, and a worker whose
\* ticks bring a restored database up to its log.
SPECIFICATION LiveSpec
CONSTANTS
  r1 = r1  r2 = r2  u1 = u1  u2 = u2  e1 = e1  e2 = e2  w1 = w1
  Row = {r1}
  User = {u1}
  Owner <- OneRow
  Summary = {}
  Engine = {e1, e2}
  Worker = {w1}
  NoNode = NoNode
  Exclusive = FALSE
  PruneDuringReplay = FALSE
  LogMayRollBack = FALSE
  MaxLog = 2
  MaxBackups = 1
  MaxFaults = 2
INVARIANTS
  GenerationsAreUnique
PROPERTIES
  CatchesUp
\* These hold with the same constants: TypeOK OneReplayer
\* Violated with the same constants, by a worker's replay: the invariant
\* GenerationsNeverShared and the property TicksSuffice
