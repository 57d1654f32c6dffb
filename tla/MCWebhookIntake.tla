--------------------------- MODULE MCWebhookIntake ---------------------------
(***************************************************************************)
(* A small instance of WebhookIntake: one delivery, sent twice.            *)
(***************************************************************************)
EXTENDS WebhookIntake

CONSTANTS r1, r2, id1

MCDeliveryOf == [r \in Request |-> id1]
=============================================================================
