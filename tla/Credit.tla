------------------------------ MODULE Credit ------------------------------
(***************************************************************************)
(* The arithmetic of one balance of the account service.  An account has   *)
(* two: USD credit (usd_prepaid, usd_debt, rch_usd) and usage tokens       *)
(* (prepaid, debt, rch_tokens).  Both obey the same rules, so both are one *)
(* Wallet record here.  `rch` is the part of `prepaid` that a confirmed    *)
(* RCH redemption paid for; it opens API-key access.                       *)
(***************************************************************************)
EXTENDS Integers

Wallet == [prepaid : Nat, debt : Nat, rch : Nat]

EmptyWallet == [prepaid |-> 0, debt |-> 0, rch |-> 0]

Least(x, y) == IF x < y THEN x ELSE y

\* SQL's MAX(0, x - y).
Excess(x, y) == IF x > y THEN x - y ELSE 0

\* Slip: the balance is debited without the trigger.
SpendWithoutTrigger(w, n) == [prepaid |-> w.prepaid - n, debt |-> w.debt, rch |-> w.rch]

\* An UPDATE that lowers `prepaid` by n, with the trigger consume_rch_credit:
\* RCH credit is taken before any other credit.
Spend(w, n) == [prepaid |-> w.prepaid - n, debt |-> w.debt, rch |-> Excess(w.rch, n)]

\* An UPDATE that gives n back, r of it to the RCH part.
Return(w, n, r) == [prepaid |-> w.prepaid + n, debt |-> w.debt, rch |-> w.rch + r]

\* New credit repays outstanding debt first; only the rest becomes spendable,
\* and counts as RCH credit when it came from a redemption.
DebtPaid(w, n) == Least(w.debt, n)

Deposit(w, n, fromRch) ==
    LET credit == n - DebtPaid(w, n)
    IN  [prepaid |-> w.prepaid + credit,
         debt    |-> w.debt - DebtPaid(w, n),
         rch     |-> w.rch + IF fromRch THEN credit ELSE 0]

\* Slip: the whole reversal is taken from the balance.
TakeBackInFull(w, n) == Spend(w, n)

\* Slip: what the balance cannot cover is forgotten.
WriteOff(w, n) == w

\* What the balance cannot cover is owed.
Owe(w, n) == [prepaid |-> w.prepaid, debt |-> w.debt + n, rch |-> w.rch]

\* A reversed payment takes n back: first from the balance, the rest as debt.
TakeBack(w, n) ==
    LET fromCredit == Least(w.prepaid, n)
    IN  Owe(Spend(w, fromCredit), n - fromCredit)

\* Slip: usage above hold and balance is written off.
SettleUsdWithoutDebt(w, amount, heldRch, actual) ==
    LET left == Excess(w.prepaid + amount, actual)
    IN  [prepaid |-> left,
         debt    |-> w.debt,
         rch     |-> Excess(w.rch + Excess(heldRch, actual), Excess(w.prepaid, left))]

\* The balance after measured USD usage `actual` replaces a hold of `amount`,
\* `heldRch` of which was RCH credit.  The one UPDATE both adds the unused RCH
\* and changes `prepaid`; the trigger then sees the net change.
SettleUsd(w, amount, heldRch, actual) ==
    LET available == w.prepaid + amount - actual
        left      == Excess(available, 0)
    IN  [prepaid |-> left,
         debt    |-> w.debt + Excess(0, available),
         rch     |-> Excess(w.rch + Excess(heldRch, actual), Excess(w.prepaid, left))]

\* Every unit of RCH credit is a unit of the balance it belongs to.
Backed(w) == w.rch <= w.prepaid
=============================================================================
