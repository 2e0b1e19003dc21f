\* A refused reheat takes the only slot of every run.
SPECIFICATION LiveSpec
CONSTANTS
  Runner = {r1}
  NBelief = 2
  NEvidence = 4
  Authority <- MCAuthority
  Canonical = {}
  MinSupport = 2
  Oldest = 1
  Recent = 1
  Highest = 1
  Cap = 1
  Budgets <- MCStarved
PROPERTY ExcessIsHandled
CHECK_DEADLOCK FALSE
