\* SQLite: the compaction pass runs between the checkpoint test of a
\* reconciliation and its replay; or, for ReplayRemovesOnlyAcknowledged, a deletion fails after
\* its log entry and the next start replays it.
SPECIFICATION Spec
CONSTANTS
  r1 = r1  r2 = r2  u1 = u1  u2 = u2  e1 = e1  e2 = e2  w1 = w1
  Row = {r1, r2}
  User = {u1}
  Owner <- OneUser
  Summary = {r2}
  Engine = {e1}
  Worker = {w1}
  NoNode = NoNode
  Exclusive = TRUE
  PruneDuringReplay = TRUE
  LogMayRollBack = TRUE
  MaxLog = 2
  MaxBackups = 1
  MaxFaults = 2
INVARIANT NoResurrection
\* PROPERTY ReplayRemovesOnlyAcknowledged
