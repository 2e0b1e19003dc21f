SPECIFICATION LiveSpec
CONSTANTS
  t1 = t1
  t2 = t2
  t3 = t3
  Thread <- TwoThreads
  Grace = 1
  Transports <- Either
  MaxOutages = 1
  MaxErrors = 1
INVARIANTS
  OneInitializer
  StaleOnlyWhenCrossed
PROPERTIES
  EveryCallReturns
\* These hold with the same constants: TypeOK NoServiceBeforeVerdict CatchingUpIsTrue HealsWithoutRestart
