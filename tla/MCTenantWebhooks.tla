------------------------- MODULE MCTenantWebhooks -------------------------
(* Model values and bounds for TenantWebhooks. *)
EXTENDS TenantWebhooks, TLC

CONSTANT e1

BySes == [m \in Messages |-> "ses"]

OneEmail == [m \in Messages |-> e1]
=============================================================================
