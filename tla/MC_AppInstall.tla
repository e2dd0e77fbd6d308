---------------------------- MODULE MC_AppInstall ---------------------------
(* TLC's instances of AppInstall. *)
EXTENDS AppInstall
=============================================================================
