SPECIFICATION Spec
CONSTANTS
  t1 = t1
  t2 = t2
  t3 = t3
  Thread <- TwoThreads
  Grace = 1
  Transports <- Either
  MaxOutages = 1
  MaxErrors = 1
INVARIANT ReadsAreFresh
