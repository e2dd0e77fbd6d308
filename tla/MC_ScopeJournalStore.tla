------------------------ MODULE MC_ScopeJournalStore ------------------------
(* TLC's instances of ScopeJournalStore. *)
EXTENDS ScopeJournalStore
=============================================================================
