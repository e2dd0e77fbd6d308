------------------------ MODULE MC_BootstrapMigration -----------------------
(* TLC's instance of BootstrapMigration. *)
EXTENDS BootstrapMigration

CONSTANTS a, b
=============================================================================
