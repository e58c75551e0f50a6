--------------------------- MODULE MCWebhookDelivery ---------------------------
(***************************************************************************)
(* Every delivery is about the one webhook event.                          *)
(***************************************************************************)
EXTENDS WebhookDelivery

MCSubjectOf == [d \in Deliveries |-> CHOOSE e \in WebhookEvents : TRUE]

===============================================================================
