-------------------------- MODULE MCProviderEvents --------------------------
(* Model values and bounds for ProviderEvents. *)
EXTENDS ProviderEvents, TLC

CONSTANTS e1, m1, m2

Alike == Permutations(Handlers)

OneEmail == [m \in Messages |-> e1]

\* The first send goes through Resend, the second falls back to Mailgun.
ByChain == [m \in Messages |-> IF m = m1 THEN "resend" ELSE "mailgun"]
=============================================================================
