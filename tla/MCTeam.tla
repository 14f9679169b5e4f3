------------------------------- MODULE MCTeam -------------------------------
(* Small instances of the Team for TLC: the constants are in the .cfg. *)
EXTENDS Team, TLC

\* The roster's members are alike.
Symmetry == Permutations(Members)
=============================================================================
