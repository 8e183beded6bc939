------------------------ MODULE MCOutboxRefinement ------------------------
(* Model values and bounds for OutboxRefinement and OutboxTruth. *)
EXTENDS OutboxTruth, TLC

CONSTANT k1

Keyed == [e \in Emails |-> k1]

Symmetry == Permutations(Jobs) \union Permutations(Requests)
=============================================================================
