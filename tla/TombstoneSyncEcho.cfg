SPECIFICATION SyncSpec
CONSTANTS
  belief = belief
  legacy = legacy
  fresh = fresh
  Device <- TwoDevices
  Item <- AllItems
  Shared <- SharedItems
  Legacy <- LegacyItems
  Limit = 2
  MaxForgets = 2
  MaxEntries = 9
  Faults <- PruneOnly
  MaxFaults = 1
INVARIANT EchoesAreSkipped
