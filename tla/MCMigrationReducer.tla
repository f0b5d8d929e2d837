------------------------- MODULE MCMigrationReducer -------------------------
(***************************************************************************)
(* Model checking of MigrationReducer: the module has no constants, and    *)
(* its state space is finite, so the whole of it is explored.              *)
(***************************************************************************)
EXTENDS MigrationReducer
=============================================================================
