----------------------- MODULE MC_DeliveryDeduplicator ----------------------
(* TLC's instance of DeliveryDeduplicator. *)
EXTENDS DeliveryDeduplicator, TLC

Symmetry == Permutations(Ids) \cup Permutations(Callers)
=============================================================================
