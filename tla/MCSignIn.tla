------------------------------ MODULE MCSignIn ------------------------------
(* A small instance of SignIn for TLC. *)
EXTENDS SignIn, TLC

Symmetry == Permutations(Flows) \cup Permutations(Wallets) \cup Permutations(Challenges)
                \cup Permutations(Codes) \cup Permutations(Pages)
=============================================================================
