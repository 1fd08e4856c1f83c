-------------------------- MODULE MCWebhookDelivery --------------------------
(* A small instance of WebhookDelivery.                                     *)
EXTENDS WebhookDelivery

CONSTANT e1
=============================================================================
