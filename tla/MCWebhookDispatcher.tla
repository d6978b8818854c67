------------------------- MODULE MCWebhookDispatcher -------------------------
(* Replicas and orders are model values, events are the code's strings.    *)
EXTENDS WebhookDispatcher, TLC
===============================================================================
