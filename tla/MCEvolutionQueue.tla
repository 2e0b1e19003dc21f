-------------------------- MODULE MCEvolutionQueue --------------------------
(* Model-checking instances of EvolutionQueue. *)
EXTENDS EvolutionQueue, TLC

CONSTANTS w1, w2, h1, h2

Workers == Permutations(Worker)
=============================================================================
