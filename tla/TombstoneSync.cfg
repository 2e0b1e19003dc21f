SPECIFICATION SyncLiveSpec
CONSTANTS
  belief = belief
  legacy = legacy
  fresh = fresh
  Device <- TwoDevices
  Item <- AllItems
  Shared <- SharedItems
  Legacy <- LegacyItems
  Limit = 2
  MaxForgets = 2
  MaxEntries = 9
  Faults <- AllFaults
  MaxFaults = 1
INVARIANTS
  ConsumedIsGone
PROPERTIES
  AgainIsNothing
  CatchesUp
\* These hold with the same constants: SyncTypeOK AppliedIsGone
