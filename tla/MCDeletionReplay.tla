-------------------------- MODULE MCDeletionReplay --------------------------
(* Model-checking instances of DeletionReplay. *)
EXTENDS DeletionPromise, TLC

CONSTANTS r1, r2, u1, u2, e1, e2, w1

OneRow    == r1 :> u1
OneUser   == (r1 :> u1) @@ (r2 :> u1)
TwoUsers  == (r1 :> u1) @@ (r2 :> u2)
EngineSymmetry == Permutations(Engine)
=============================================================================
