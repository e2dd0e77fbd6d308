-------------------------- MODULE MC_DeliveryHealth -------------------------
(* TLC's instances of DeliveryHealth. *)
EXTENDS DeliveryHealth
=============================================================================
