---------------------------- MODULE MCMigrations ----------------------------
(* Model checking of Migrations: the values of the constants are in the cfg. *)
EXTENDS Migrations
=============================================================================
