---------------------------- MODULE MCEngineEntry -----------------------------
(* Instances of EngineEntry for TLC. *)
EXTENDS EngineEntry, TLC

CONSTANTS t1, t2, t3

TwoThreads == {t1, t2}
ThreeThreads == {t1, t2, t3}
Alike == Permutations(ThreeThreads)
Either == BOOLEAN
Injected == {TRUE}
==============================================================================
