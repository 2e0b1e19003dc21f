---------------------------- MODULE MCPublisher ----------------------------
(* Model-checking instances of Publisher. *)
EXTENDS Publisher, TLC

CONSTANTS s1, s2, home, likes, ended, x, y

Sessions == Permutations(Session)
Objects == Permutations(Obj)
SessionsAndObjects == Sessions \cup Objects
=============================================================================
