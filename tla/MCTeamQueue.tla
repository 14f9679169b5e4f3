---------------------------- MODULE MCTeamQueue -----------------------------
(* A small instance of the TeamQueue for TLC. *)
EXTENDS TeamQueue, TLC

Symmetry == Permutations(Messages)
=============================================================================
