----------------------------- MODULE MCCheckout -----------------------------
(* A small instance of the Checkout for TLC. *)
EXTENDS Checkout, TLC

Symmetry == Permutations(Tabs)
=============================================================================
