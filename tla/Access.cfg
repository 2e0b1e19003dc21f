SPECIFICATION LiveSpec
CONSTANTS
  r1 = r1
  i1 = i1
  i2 = i2
  p = p
  q = q
  Reader <- OneReader
  Issuer <- TwoIssuers
  Purpose <- TwoPurposes
  Scopes <- OneScope
  PageSize = 1
  PurgeBatch = 1
  MaxIds = 1
  NBelief = 2
  Budgets <- Mixes
INVARIANTS
  RevocationStopsTheExport
  WithheldStaysWithheld
  BeliefsExportedWhole
\* These hold with the same constants: TypeOK NothingLeavesUnrecorded OneWinnerPerVersion RecordsNameTheGrant OldRowsGo
CHECK_DEADLOCK FALSE
