------------------------------ MODULE MCServer -------------------------------
(* Instances of Server for TLC. *)
EXTENDS Server, TLC

CONSTANTS r1, r2, r3, a, b, house

TwoRequests == {r1, r2}
ThreeRequests == {r1, r2, r3}
TwoTenants == {a, b}
Alike == Permutations(ThreeRequests) \cup Permutations(TwoTenants)
==============================================================================
