-------------------------- MODULE MC_WebhookClient --------------------------
(* TLC's instances of WebhookClient. *)
EXTENDS WebhookClient
=============================================================================
