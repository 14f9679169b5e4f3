----------------------------- MODULE MCGateway -----------------------------
(* A small instance of the Gateway for TLC: the constants are in the .cfg. *)
EXTENDS Gateway
=============================================================================
