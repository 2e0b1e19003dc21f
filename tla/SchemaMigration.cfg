SPECIFICATION LiveSpec
CONSTANTS
  b1 = b1
  b2 = b2
  Belief <- TwoBeliefs
  Dialects <- BothDialects
  Releases <- OldReleases
  MaxLives = 3
  MaxCrashes = 1
  MaxErrors = 1
  MaxWrites = 1
  MaxRestores = 1
INVARIANTS
  CatalogBacksVersion
  DeletedStaysDeleted
PROPERTIES
  SqliteUpgradeArrives
\* These hold with the same constants: MigrationTypeOK ServingIsBound
