------------------------- MODULE MCOutboxPipeline -------------------------
(* Model values and bounds for OutboxPipeline. *)
EXTENDS OutboxPipeline, TLC

CONSTANT k1

Keyed   == [e \in Emails |-> k1]
Keyless == [e \in Emails |-> None]
=============================================================================
