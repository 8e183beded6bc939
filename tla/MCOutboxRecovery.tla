------------------------- MODULE MCOutboxRecovery -------------------------
(* Model values and bounds for OutboxRecovery and OutboxRepair. *)
EXTENDS OutboxRepair, TLC

Keyless == [e \in Emails |-> None]

Symmetry == Permutations(Jobs) \union Permutations(Events)
=============================================================================
