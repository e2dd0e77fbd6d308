-------------------------- MODULE MC_MailDelivery ---------------------------
(* TLC's instances of MailDelivery. *)
EXTENDS MailDelivery, TLC

Symmetry == Permutations(Ids) \cup Permutations(Deliveries)
=============================================================================
