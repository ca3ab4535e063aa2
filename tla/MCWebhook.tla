------------------------------- MODULE MCWebhook -------------------------------
(***************************************************************************)
(* A small instance of WebhookDelivery for TLC.                            *)
(***************************************************************************)
EXTENDS WebhookDelivery

CONSTANTS k1, k2, completed, failed

\* Everything, or failed runs only.
AllOrFailed == {{}, {failed}}
=============================================================================
