\* One reader. Each property is violated; TLC stops at the first, so the others wait as comments.
\* NothingWithheldLeaves: a withheld belief is forgotten between the statements of a read, of the
\* graph and list reads or, with Budgets <- HistoryMix, of belief_history.
\* EveryIdIsRecorded: with Budgets <- HistoryMix a history returns the versions of other beliefs
\* than the one its row names; with Budgets <- Mixes a list of two is truncated to one.
SPECIFICATION Spec
CONSTANTS
  r1 = r1
  i1 = i1
  i2 = i2
  p = p
  q = q
  Reader <- OneReader
  Issuer <- OneIssuer
  Purpose <- TwoPurposes
  Scopes <- OneScope
  PageSize = 1
  PurgeBatch = 1
  MaxIds = 1
  NBelief = 2
  Budgets <- DivergentMixes
INVARIANTS
  ExportIsWhole
\* NothingWithheldLeaves EveryIdIsRecorded
CHECK_DEADLOCK FALSE
