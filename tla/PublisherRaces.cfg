\* A turn resolves against a belief the user then rejects; or, for SingleCurrentValue, two turns
\* resolve one single-valued predicate against the same rows.
SPECIFICATION Spec
CONSTANTS
  s1 = s1  s2 = s2  home = home  likes = likes  ended = ended  x = x  y = y
  Session = {s1, s2}
  Callers = {{s1, s2}}
  NoSession = NoSession
  Pred = {home, likes, ended}
  SingleValued = {home}
  Retraction = ended
  Obj = {x, y}
  CrossPredicate = FALSE
  MaxBelief = 3
  MaxRevision = 5
  MaxBeliefTogether = 3
  MaxRevisionTogether = 5
  MaxClaims = 1
PROPERTIES
  RejectionIsFinal
\* INVARIANTS SingleCurrentValue
CHECK_DEADLOCK FALSE
