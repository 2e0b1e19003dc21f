\* One session, or two at once on PostgreSQL; the bounded revision stops the run.
SPECIFICATION Spec
CONSTANTS
  s1 = s1  s2 = s2  home = home  likes = likes  ended = ended  x = x  y = y
  Session = {s1, s2}
  Callers = {{s1}, {s2}, {s1, s2}}
  NoSession = NoSession
  Pred = {home, likes, ended}
  SingleValued = {home}
  Retraction = ended
  Obj = {x, y}
  CrossPredicate = FALSE
  MaxBelief = 3
  MaxRevision = 6
  MaxBeliefTogether = 2
  MaxRevisionTogether = 4
  MaxClaims = 2
INVARIANTS
  OneWinnerPerRevision
  OneOpenVersionPerSlot
  ForgottenLeavesNothing
  SingleCurrentValueAlone
  RejectedIsClosedAlone
PROPERTIES
  ConsentBarrier
\* These hold with the same constants: TypeOK
SYMMETRY Sessions
CHECK_DEADLOCK FALSE
