---------------------------- MODULE MCRedemption ----------------------------
(* A small instance of Redemption for TLC. *)
EXTENDS Redemption

CONSTANTS A, t1, t2, t3

\* t1 was pasted by mistake and redeems nothing; t2 and t3 redeem A.
Pasted == [t \in Txs |-> IF t = t1 THEN {} ELSE {A}]
OneEach == [r \in Redemptions |-> 1]
=============================================================================
