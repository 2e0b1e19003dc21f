SPECIFICATION MigrationSpec
CONSTANTS
  b1 = b1
  b2 = b2
  Belief <- TwoBeliefs
  Dialects <- PgOnly
  Releases <- PgReleases
  MaxLives = 1
  MaxCrashes = 0
  MaxErrors = 0
  MaxWrites = 0
  MaxRestores = 0
INVARIANT RecordedIsComplete
