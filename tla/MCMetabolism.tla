----------------------------- MODULE MCMetabolism -----------------------------
(* Small instances of Metabolism: two beliefs and four rows of evidence. *)
EXTENDS Metabolism

MCAuthority == [e \in Evidence |-> IF e = 1 THEN 0 ELSE 1]
Mix(observed, replaced, questions, recalled, restored, ticks) ==
  [observed |-> observed, replaced |-> replaced, asked |-> questions, recalled |-> recalled,
   restored |-> restored, ticks |-> ticks, beliefs |-> 1, ages |-> {2}, tiers |-> {"hot"},
   backing |-> <<{1, 2, 3}, {}, {}>>]
\* tiers over time; evidence that is observed again and becomes a correction; two beliefs
MCBudgets ==
  { [Mix(0, 0, 1, 2, 1, 1) EXCEPT !.ages = {0, 2}, !.tiers = {"hot", "dormant"}],
    [Mix(2, 1, 1, 0, 0, 0) EXCEPT !.ages = {0}],
    [Mix(1, 1, 0, 1, 0, 1) EXCEPT !.beliefs = 2, !.backing = <<{1, 2, 3}, {3, 4}, {}>>] }
\* a dormant belief that is confirmed, and a hot one that has not been used
MCStarved ==
  { [Mix(0, 0, 1, 1, 0, 1) EXCEPT !.beliefs = 2, !.ages = {2}, !.tiers = {"warm"},
       !.backing = <<{1, 2}, {3, 4}, {}>>] }
=============================================================================
