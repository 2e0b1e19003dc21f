--------------------------- MODULE MCTombstoneSync ----------------------------
(* Instances of TombstoneSync for TLC. *)
EXTENDS TombstoneSync, TLC

CONSTANTS belief, legacy, fresh

TwoDevices == {"edge", "cloud"}
SharedItems == {belief, legacy}
LegacyItems == {legacy}
AllItems == {belief, legacy, fresh}
AllFaults == {"rollback", "duplicate", "restore", "abort", "prune"}
RestoreOnly == {"restore"}
PruneOnly == {"prune"}
==============================================================================
