----------------------------- MODULE MCPayments -----------------------------
(* A small instance of Payments for TLC. *)
EXTENDS Payments, TLC

CONSTANTS x1, x2, x3, x4

Paid(kind, amount, end, sub) ==
    [kind |-> kind, amount |-> amount, periodEnd |-> end, subscription |-> sub]
Back(of, amount) == [of |-> of, amount |-> amount]

\* A top-up, two periods of one Basic subscription, and two Plus periods of
\* different subscriptions, the newer of them too long on day 0.
Bought == "t1" :> Paid("top_up", 3, 0, "-")
          @@ "b1" :> Paid("basic", 2, 1, "s1") @@ "b2" :> Paid("basic", 2, 2, "s1")
          @@ "q1" :> Paid("plus", 1, 1, "s2") @@ "q2" :> Paid("plus", 1, 2, "s3")

\* A refund and a dispute of the top-up that exceed it together, and the newer
\* Basic period refunded in two parts.
Returned == x1 :> Back("t1", 2) @@ x2 :> Back("t1", 2)
            @@ x3 :> Back("b2", 1) @@ x4 :> Back("b2", 1)

\* Reversals of the same payment and amount are alike.
Symmetry == Permutations({x1, x2}) \cup Permutations({x3, x4})

Hand == {[kind |-> "basic", expires |-> 1]}
=============================================================================
