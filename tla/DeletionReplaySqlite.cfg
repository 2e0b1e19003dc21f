\* SQLite: an engine and a worker process on one database file.
SPECIFICATION Spec
CONSTANTS
  r1 = r1  r2 = r2  u1 = u1  u2 = u2  e1 = e1  e2 = e2  w1 = w1
  Row = {r1, r2}
  User = {u1}
  Owner <- OneUser
  Summary = {r2}
  Engine = {e1}
  Worker = {w1}
  NoNode = NoNode
  Exclusive = TRUE
  PruneDuringReplay = FALSE
  LogMayRollBack = TRUE
  MaxLog = 3
  MaxBackups = 1
  MaxFaults = 2
INVARIANTS
  NoResurrection
  GenerationSurvivesRestore
  BackupsAreHonest
PROPERTIES
  SeqsAreNeverReused
  KeepsPromise
\* These hold with the same constants: TypeOK OneReplayer GenerationsAreUnique
\* Violated with the same constants, by a worker's replay: GenerationIsTheUsers
