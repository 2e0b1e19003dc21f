\* One session, corrections across predicates. Each property is violated; TLC stops at the
\* first, so the others wait as comments.
SPECIFICATION Spec
CONSTANTS
  s1 = s1  s2 = s2  home = home  likes = likes  ended = ended  x = x  y = y
  Session = {s1}
  Callers = {{s1}}
  NoSession = NoSession
  Pred = {home, likes, ended}
  SingleValued = {home}
  Retraction = ended
  Obj = {x, y}
  CrossPredicate = TRUE
  MaxBelief = 3
  MaxRevision = 5
  MaxBeliefTogether = 3
  MaxRevisionTogether = 5
  MaxClaims = 1
INVARIANTS
  SingleCurrentValue
\* DenialsReachTheirBelief
\* OpenVersionIsCurrent
\* LoggedMeansChanged
CHECK_DEADLOCK FALSE
