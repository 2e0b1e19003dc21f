-------------------------- MODULE MCSchemaMigration --------------------------
(* Instance of SchemaMigration for TLC. *)
EXTENDS SchemaMigration

CONSTANTS b1, b2

TwoBeliefs == {b1, b2}
BothDialects == {"sqlite", "postgresql"}
PgOnly == {"postgresql"}
OldReleases == {0, 5, 10}
PgReleases == {9}
=============================================================================
