----------------------------- MODULE MCMigrator -----------------------------
(* Small instances of Migrator for TLC. *)
EXTENDS Migrator

(* Builds of a linear history, the last two deployed side by side. *)
GrowingBinaries == {{1, 2}, {1, 2, 3}}
=============================================================================
