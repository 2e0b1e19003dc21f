------------------------------ MODULE MCTenancy ------------------------------
(* Instance of Tenancy for TLC. *)
EXTENDS Tenancy

CONSTANTS a, b

TwoTenants == {a, b}

\* a tenant is only ever compared with another
Swap == Permutations(TwoTenants)
==============================================================================
