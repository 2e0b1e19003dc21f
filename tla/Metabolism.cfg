\* One cycle at a time, users in between.
SPECIFICATION LiveSpec
CONSTANTS
  Runner = {r1}
  NBelief = 2
  NEvidence = 4
  Authority <- MCAuthority
  Canonical = {2}
  MinSupport = 2
  Oldest = 1
  Recent = 1
  Highest = 1
  Cap = 2
  Budgets <- MCBudgets
INVARIANTS
  DigestCountsWhole
  GuardedStays
PROPERTIES
  Settles
\* These hold with the same constants: TypeOK FoldedByRule SampleSurvives Reheats
CHECK_DEADLOCK FALSE
