------------------------- MODULE MC_DeliveryOutbox --------------------------
(* TLC's instance of DeliveryOutbox. *)
EXTENDS DeliveryOutbox, TLC

Symmetry == Permutations(Ids) \cup Permutations(Callers)
=============================================================================
