-------------------------- MODULE MCWebhookPipeline --------------------------
(* Webhooks of one connection for TLC: any two events, of the subscription   *)
(* or of the account's deauthorisation, and the operator beside them.  A new *)
(* invoice changes what is read back, not what is told.                      *)
EXTENDS WebhookPipeline

MCEmpty == <<>>
MCTold == [active |-> "active", invoiced |-> "active", canceled |-> "canceled"]
=============================================================================
