\* One cycle beside its users. Each property is violated; TLC stops at the first, so the others
\* wait as comments.
SPECIFICATION Spec
CONSTANTS
  Runner = {r1}
  NBelief = 2
  NEvidence = 4
  Authority <- MCAuthority
  Canonical = {2}
  MinSupport = 2
  Oldest = 1
  Recent = 1
  Highest = 1
  Cap = 2
  Budgets <- MCBudgets
INVARIANTS
  ProtectedStays
\* TrailIsAPath
\* NothingBlocksWarming
\* CorrectionsKeepTheirWords
\* NoDeadEnd
CHECK_DEADLOCK FALSE
