------------------------------ MODULE MCLedger ------------------------------
(* Small instances of the Ledger for TLC. *)
EXTENDS Ledger, TLC

CONSTANTS k1, k2, g1, g2

Basic == [kind |-> "basic", metered |-> FALSE, tokens |-> 0]
PaidPlus == [kind |-> "plus", metered |-> FALSE, tokens |-> 0]
Metered(n) == [kind |-> "other", metered |-> TRUE, tokens |-> n]

BasicTerms == {Basic}
MixedTerms == {Basic, PaidPlus, Metered(1)}

\* Keys are interchangeable; grant IDs are too.
Symmetry == Permutations({k1, k2}) \cup Permutations({g1, g2})
=============================================================================
