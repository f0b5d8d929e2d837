------------------------- MODULE MCMigrationRunner -------------------------
(***************************************************************************)
(* Model checking of MigrationRunner with two secrets: enough for one that *)
(* is confirmed, one that fails and one that must not follow it.           *)
(***************************************************************************)
EXTENDS MigrationRunner

MCSecrets == {"s1", "s2"}
============================================================================
