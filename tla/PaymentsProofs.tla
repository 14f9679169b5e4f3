--------------------------- MODULE PaymentsProofs ---------------------------
(***************************************************************************)
(* What the account service owes for what it was paid, in dollars and in   *)
(* RCH.  First the ledger's answers to the providers, for any payments,    *)
(* reversals, prices and plans granted by hand, in any order and number:   *)
(* every property of Payments holds.  Then the redemptions of RCH, for any *)
(* clients, redemptions and transactions, in burn and in treasury mode, on *)
(* any reorganizing chain.                                                 *)
(*                                                                         *)
(* The invariant of Payments says of the rows what the decisions rely on:  *)
(* a reversal is recorded only after its payment, a row that is not there  *)
(* took nothing, and a plan that is not by hand is the very one that an    *)
(* applied payment granted.  The rest is arithmetic on sums over rows.     *)
(***************************************************************************)
EXTENDS Payments, Redemption, CreditProofs

\* A reversal's row comes after its payment's; without a row nothing was taken back.
RowsInOrder ==
    \A x \in Reversals :
        /\ taken[x].status # "none" => paid[ReversalOf[x].of] # "none"
        /\ taken[x].status = "none" => taken[x].applied = 0

\* A plan that a payment granted is of a payment for a period that was applied.
PlanIsPaid ==
    plan.version # ByHand =>
        /\ paid[plan.version] = "applied"
        /\ plan.kind = PaymentOf[plan.version].kind
        /\ plan.kind # "top_up"

IInv ==
    /\ TypeOK /\ AcknowledgedIsRecorded /\ RowsInOrder /\ PlanIsPaid
    /\ CreditMatchesRows /\ TopUpNet /\ FullReversalEnds

USE PaymentsAssumption

TopUps == {p \in Payments : PaymentOf[p].kind = "top_up" /\ paid[p] = "applied"}
Refunds == {x \in Reversals : PaymentOf[ReversalOf[x].of].kind = "top_up"}
Prices == [p \in Payments |-> PaymentOf[p].amount]

-----------------------------------------------------------------------------
(* The sums are numbers, and what one row adds to them *)

LEMMA SumsAreNumbers ==
  ASSUME TypeOK, NEW p \in Payments
  PROVE  /\ IsFiniteSet(RecordedReversals(p)) /\ RecordedReversals(p) \subseteq Reversals
         /\ Requested(p) \in Nat /\ AppliedBack(p) \in Nat
         /\ LeftOf(p) \in Int /\ LeftOf(p) = PaymentOf[p].amount - AppliedBack(p)
<1>1. IsFiniteSet(RecordedReversals(p)) /\ RecordedReversals(p) \subseteq Reversals
  BY FS_Subset DEF RecordedReversals
<1>2. \A x \in RecordedReversals(p) : Amounts[x] \in Nat /\ Applied[x] \in Nat
  BY DEF RecordedReversals, Amounts, Applied, TypeOK
<1>3. Requested(p) \in Nat
  BY <1>1, <1>2, SumGrows DEF Requested
<1>4. AppliedBack(p) \in Nat
  BY <1>1, <1>2, SumGrows DEF AppliedBack
<1>5. QED
  BY <1>1, <1>3, <1>4 DEF LeftOf

\* Nothing was returned of a payment without a row.
LEMMA NothingYet ==
  ASSUME RowsInOrder, NEW p \in Payments, paid[p] = "none"
  PROVE  RecordedReversals(p) = {} /\ Requested(p) = 0 /\ AppliedBack(p) = 0
<1>1. RecordedReversals(p) = {}
  BY DEF RowsInOrder, RecordedReversals
<1>2. QED
  BY <1>1, SumEmpty DEF Requested, AppliedBack

\* The row of a reversal is written.
LEMMA RowWritten ==
  ASSUME TypeOK, NEW x \in Reversals, taken[x].status = "none",
         NEW d \in RowStatus \ {"none"}, NEW n \in Nat, Take(x, d, n)
  PROVE  /\ taken' \in [Reversals -> [status : RowStatus, applied : Nat]]
         /\ taken'[x].status = d /\ taken'[x].applied = n
         /\ \A y \in Reversals : y # x => taken'[y] = taken[y]
         /\ Applied'[x] = n /\ \A y \in Reversals : y # x => Applied'[y] = Applied[y]
         /\ Amounts' = Amounts
  BY DEF TypeOK, Take, Applied, Amounts

\* It adds to what was returned of its payment, and of no other.
LEMMA SumsAfterRow ==
  ASSUME TypeOK, NEW x \in Reversals, taken[x].status = "none",
         NEW d \in RowStatus \ {"none"}, NEW n \in Nat, Take(x, d, n), NEW p \in Payments
  PROVE  /\ ReversalOf[x].of = p =>
              /\ Requested(p)' = Requested(p) + ReversalOf[x].amount
              /\ AppliedBack(p)' = AppliedBack(p) + n
              /\ RecordedReversals(p)' = RecordedReversals(p) \cup {x}
         /\ ReversalOf[x].of # p =>
              /\ Requested(p)' = Requested(p) /\ AppliedBack(p)' = AppliedBack(p)
              /\ RecordedReversals(p)' = RecordedReversals(p)
<1>. DEFINE R == RecordedReversals(p)
<1>1. /\ IsFiniteSet(R) /\ R \subseteq Reversals /\ x \notin R
      /\ Requested(p) \in Nat /\ AppliedBack(p) \in Nat
  BY SumsAreNumbers DEF RecordedReversals
<1>2. /\ RecordedReversals(p)' = IF ReversalOf[x].of = p THEN R \cup {x} ELSE R
  BY RowWritten DEF RecordedReversals
<1>3. \A y \in R : /\ Applied'[y] = Applied[y] /\ Applied[y] \in Int /\ Applied'[y] \in Int
                   /\ Amounts'[y] = Amounts[y] /\ Amounts[y] \in Int
  BY <1>1, RowWritten DEF Applied, Amounts, TypeOK
<1>4. /\ Amounts'[x] = ReversalOf[x].amount /\ Amounts'[x] \in Int
      /\ Applied'[x] = n /\ Applied'[x] \in Int
  BY RowWritten DEF Amounts
<1>5. /\ SumFunctionOnSet(Applied', R) = AppliedBack(p)
      /\ SumFunctionOnSet(Amounts', R) = Requested(p)
  BY <1>1, <1>3, SumSame DEF AppliedBack, Requested
<1>6. CASE ReversalOf[x].of = p
  <2>1. SumFunctionOnSet(Applied', R \cup {x}) = n + AppliedBack(p)
    BY <1>1, <1>3, <1>4, <1>5, SumWith
  <2>2. SumFunctionOnSet(Amounts', R \cup {x}) = ReversalOf[x].amount + Requested(p)
    BY <1>1, <1>3, <1>4, <1>5, SumWith, RowWritten
  <2>3. QED
    BY <1>1, <1>2, <1>6, <2>1, <2>2 DEF AppliedBack, Requested
<1>7. CASE ReversalOf[x].of # p
  BY <1>2, <1>5, <1>7 DEF AppliedBack, Requested
<1>8. QED
  BY <1>6, <1>7

\* It adds to what reversals of top-ups took only if it is one of them.
LEMMA RefundsAfterRow ==
  ASSUME TypeOK, RowsInOrder, NEW x \in Reversals, taken[x].status = "none",
         NEW d \in RowStatus \ {"none"}, NEW n \in Nat, Take(x, d, n)
  PROVE  /\ SumFunctionOnSet(Applied, Refunds) \in Int
         /\ SumFunctionOnSet(Applied', Refunds)
              = SumFunctionOnSet(Applied, Refunds) + IF x \in Refunds THEN n ELSE 0
<1>1. IsFiniteSet(Refunds) /\ Refunds \subseteq Reversals
  BY FS_Subset DEF Refunds
<1>2. \A y \in Refunds : Applied[y] \in Int /\ Applied'[y] \in Int
  BY <1>1, RowWritten DEF Applied, TypeOK
<1>3. \A y \in Refunds \ {x} : Applied'[y] = Applied[y]
  BY <1>1, RowWritten
<1>4. Applied[x] = 0 /\ Applied'[x] = n
  BY RowWritten DEF RowsInOrder, Applied
<1>5. SumFunctionOnSet(Applied, Refunds) \in Int
  BY <1>1, <1>2, SumType
<1>6. CASE x \in Refunds
  <2>1. SumFunctionOnSet(Applied', Refunds)
          = SumFunctionOnSet(Applied, Refunds) + Applied'[x] - Applied[x]
    BY <1>1, <1>2, <1>3, <1>6, SumChanged
  <2>2. QED
    BY <2>1, <1>4, <1>5, <1>6
<1>7. CASE x \notin Refunds
  BY <1>1, <1>3, <1>5, <1>7, SumSame
<1>8. QED
  BY <1>5, <1>6, <1>7

\* The sums, when no row of a reversal is written.
LEMMA SumsKeep ==
  ASSUME taken' = taken
  PROVE  /\ Applied' = Applied /\ Amounts' = Amounts
         /\ \A p : /\ RecordedReversals(p)' = RecordedReversals(p)
                   /\ Requested(p)' = Requested(p) /\ AppliedBack(p)' = AppliedBack(p)
  BY DEF Applied, Amounts, RecordedReversals, Requested, AppliedBack

\* The property about the balance, with the names of this module.
LEMMA Balance ==
  CreditMatchesRows <=>
    usd.prepaid - usd.debt + consumed
      = SumFunctionOnSet(Prices, TopUps) - SumFunctionOnSet(Applied, Refunds)
  BY DEF CreditMatchesRows, Prices, TopUps, Refunds

-----------------------------------------------------------------------------
(* Decisions *)

\* Every decision writes a row.
LEMMA Decided ==
  ASSUME NEW p \in Payments
  PROVE  /\ BasicDecision(p) \in RowStatus \ {"none"}
         /\ PlusDecision(p) \in RowStatus \ {"none"}
         /\ TopUpDecision(p) \in RowStatus \ {"none"}
<1>1. BasicDecision(p) \in RowStatus \ {"none"}
  BY DEF BasicDecision, RowStatus
<1>2. PlusDecision(p) \in RowStatus \ {"none"}
  BY DEF PlusDecision, RowStatus
<1>3. TopUpDecision(p) \in RowStatus \ {"none"}
  BY DEF TopUpDecision, RowStatus
<1>4. QED
  BY <1>1, <1>2, <1>3

LEMMA Initial == Init => IInv
<1>. SUFFICES ASSUME Init PROVE IInv
  OBVIOUS
<1>1. TypeOK
  BY DEF Init, TypeOK, RowStatus, EmptyWallet, Wallet
<1>2. AcknowledgedIsRecorded /\ RowsInOrder /\ PlanIsPaid /\ FullReversalEnds
  BY DEF Init, AcknowledgedIsRecorded, RowsInOrder, PlanIsPaid, FullReversalEnds
<1>3. CreditMatchesRows
  <2>1. TopUps = {} /\ IsFiniteSet(Refunds)
    BY FS_Subset DEF Init, TopUps, Refunds
  <2>2. \A x \in Refunds : Applied[x] = 0
    BY DEF Init, Applied, Refunds
  <2>3. SumFunctionOnSet(Applied, Refunds) = 0
    BY <2>1, <2>2, SumZero
  <2>4. SumFunctionOnSet(Prices, TopUps) = 0
    BY <2>1, SumEmpty
  <2>5. QED
    BY <2>3, <2>4, Balance DEF Init, EmptyWallet
<1>4. TopUpNet
  BY DEF Init, TopUpNet
<1>5. QED
  BY <1>1, <1>2, <1>3, <1>4 DEF IInv

-----------------------------------------------------------------------------
(* A payment is recorded *)

PeriodKinds == {"basic", "plus"}

\* What the three operations on a payment have in common.
PaymentRow(p) ==
    /\ paid[p] = "none" /\ taken' = taken /\ now' = now /\ consumed' = consumed
    /\ outbox' \in {outbox, outbox \ {p}}
    /\ \A q \in Payments : q # p => paid'[q] = paid[q]
    /\ paid'[p] # "none" /\ paid' \in [Payments -> RowStatus]
    /\ IF PaymentOf[p].kind = "top_up"
       THEN /\ plan' = plan
            /\ usd' = IF paid'[p] = "applied" THEN Deposit(usd, PaymentOf[p].amount, FALSE)
                      ELSE usd
       ELSE /\ usd' = usd
            /\ plan' = IF paid'[p] = "applied" THEN Granted(p) ELSE plan

LEMMA PaymentIsRow ==
  ASSUME IInv, NEW p \in Payments, RecordBasic(p) \/ RecordPlus(p) \/ RecordTopUp(p)
  PROVE  PaymentRow(p)
<1>. USE DEF PaymentRow
<1>1. CASE RecordBasic(p)
  BY <1>1, Decided DEF RecordBasic, Acknowledge, IInv, TypeOK
<1>2. CASE RecordPlus(p)
  BY <1>2, Decided DEF RecordPlus, Acknowledge, IInv, TypeOK
<1>3. CASE RecordTopUp(p)
  BY <1>3, Decided DEF RecordTopUp, Acknowledge, IInv, TypeOK
<1>4. QED
  BY <1>1, <1>2, <1>3

LEMMA TopUpDeposited ==
  ASSUME TypeOK, NEW p \in Payments
  PROVE  LET w == Deposit(usd, PaymentOf[p].amount, FALSE)
         IN  w \in Wallet /\ w.prepaid - w.debt = usd.prepaid - usd.debt + PaymentOf[p].amount
<1>1. usd \in Wallet /\ PaymentOf[p].amount \in Nat /\ FALSE \in BOOLEAN
  BY DEF TypeOK
<1>2. QED
  BY <1>1, DepositWallet

\* The applied top-ups, with one more if p is one that was applied.
LEMMA PaymentBalance ==
  ASSUME IInv, NEW p \in Payments, RecordBasic(p) \/ RecordPlus(p) \/ RecordTopUp(p)
  PROVE  CreditMatchesRows'
<1>0. PaymentRow(p)
  BY PaymentIsRow
<1>. USE <1>0 DEF PaymentRow
<1>. DEFINE more == PaymentOf[p].kind = "top_up" /\ paid'[p] = "applied"
<1>1. /\ IsFiniteSet(TopUps) /\ p \notin TopUps
      /\ \A q \in TopUps : Prices[q] \in Int
  BY FS_Subset DEF TopUps, Prices
<1>2. TopUps' = IF more THEN TopUps \cup {p} ELSE TopUps
  BY DEF TopUps
<1>3. Prices' = Prices /\ Prices[p] = PaymentOf[p].amount /\ Prices[p] \in Nat
  BY DEF Prices
<1>4. SumFunctionOnSet(Prices, TopUps) \in Int
  BY <1>1, SumType
<1>5. SumFunctionOnSet(Prices, TopUps \cup {p}) = Prices[p] + SumFunctionOnSet(Prices, TopUps)
  BY <1>1, <1>3, SumWith
<1>6. SumFunctionOnSet(Prices', TopUps')
        = SumFunctionOnSet(Prices, TopUps) + IF more THEN PaymentOf[p].amount ELSE 0
  BY <1>2, <1>3, <1>4, <1>5
<1>7. Applied' = Applied /\ Refunds' = Refunds
  BY SumsKeep DEF Refunds
<1>8. usd'.prepaid - usd'.debt = usd.prepaid - usd.debt + IF more THEN PaymentOf[p].amount ELSE 0
  <2>1. usd \in Wallet /\ PaymentOf[p].amount \in Nat
    BY DEF IInv, TypeOK
  <2>2. usd' = IF more THEN Deposit(usd, PaymentOf[p].amount, FALSE) ELSE usd
    OBVIOUS
  <2>3. CASE more
    BY <2>2, <2>3, TopUpDeposited DEF IInv
  <2>4. CASE ~more
    <3>. HIDE DEF more, PaymentRow
    <3>1. usd' = usd
      BY <2>2, <2>4
    <3>2. usd.prepaid \in Int /\ usd.debt \in Int
      BY <2>1 DEF Wallet
    <3>. QED
      BY <2>4, <3>1, <3>2
  <2>5. QED
    BY <2>3, <2>4
<1>9. SumFunctionOnSet(Applied, Refunds) \in Int
  <2>1. IsFiniteSet(Refunds) /\ \A x \in Refunds : Applied[x] \in Int
    BY FS_Subset DEF Refunds, Applied, IInv, TypeOK
  <2>2. QED
    BY <2>1, SumType
<1>10. usd.prepaid \in Int /\ usd.debt \in Int /\ consumed \in Int /\ consumed' = consumed
  BY DEF IInv, TypeOK, Wallet
<1>11. usd.prepaid - usd.debt + consumed
         = SumFunctionOnSet(Prices, TopUps) - SumFunctionOnSet(Applied, Refunds)
  BY Balance DEF IInv
<1>12. usd'.prepaid - usd'.debt + consumed'
         = SumFunctionOnSet(Prices', TopUps') - SumFunctionOnSet(Applied', Refunds')
  <2>1. PaymentOf[p].amount \in Int
    OBVIOUS
  <2>. HIDE DEF more
  <2>2. SumFunctionOnSet(Applied', Refunds') = SumFunctionOnSet(Applied, Refunds)
    BY <1>7
  <2>3. QED
    BY <2>1, <2>2, <1>4, <1>6, <1>8, <1>9, <1>10, <1>11
<1>13. QED
  BY <1>12 DEF CreditMatchesRows, Prices, TopUps, Refunds

LEMMA PaymentKeeps ==
  ASSUME IInv, NEW p \in Payments, RecordBasic(p) \/ RecordPlus(p) \/ RecordTopUp(p)
  PROVE  IInv'
<1>0. PaymentRow(p)
  BY PaymentIsRow
<1>. USE <1>0 DEF PaymentRow
<1>1. Granted(p).version = p /\ Granted(p).kind = PaymentOf[p].kind
  BY DEF Granted
<1>2. TypeOK'
  <2>1. usd' \in Wallet
    <3>1. TypeOK /\ usd \in Wallet
      BY DEF IInv, TypeOK
    <3>. QED
      BY <3>1, TopUpDeposited
  <2>2. plan' = plan \/ (plan' = Granted(p) /\ PaymentOf[p].kind \in PeriodKinds)
    BY DEF PaymentKinds, PeriodKinds
  <2>3. Granted(p) \in [kind : PaymentKinds, expires : Nat, version : Payments]
    BY DEF Granted
  <2>4. plan' \in [kind : {"none", "basic", "plus", "other"}, expires : Nat,
                   version : Payments \cup {ByHand}]
    BY <2>2, <2>3 DEF IInv, TypeOK, PeriodKinds, Granted
  <2>5. QED
    BY <2>1, <2>4 DEF IInv, TypeOK
<1>3. AcknowledgedIsRecorded'
  <2>. SUFFICES ASSUME NEW e \in (Payments \cup Reversals) \ outbox'
                PROVE  Recorded(e)'
    BY DEF AcknowledgedIsRecorded
  <2>1. CASE e = p
    BY <2>1 DEF Recorded
  <2>2. CASE e # p
    <3>1. e \notin outbox
      BY <2>2
    <3>2. Recorded(e)
      BY <3>1 DEF IInv, AcknowledgedIsRecorded
    <3>3. QED
      BY <3>2, <2>2 DEF Recorded
  <2>3. QED
    BY <2>1, <2>2
<1>4. RowsInOrder'
  BY DEF IInv, RowsInOrder
<1>5. PlanIsPaid'
  <2>1. CASE plan' = plan
    BY <2>1 DEF IInv, TypeOK, PlanIsPaid
  <2>2. CASE plan' # plan
    BY <2>2, <1>1 DEF PlanIsPaid
  <2>3. QED
    BY <2>1, <2>2
<1>6. TopUpNet'
  <2>. SUFFICES ASSUME NEW q \in Payments, PaymentOf[q].kind = "top_up", paid'[q] = "applied",
                       \A x \in RecordedReversals(q)' : taken'[x].status # "rejected"
                PROVE  AppliedBack(q)' = Least(PaymentOf[q].amount, Requested(q)')
    BY DEF TopUpNet
  <2>1. CASE q = p
    BY <2>1, NothingYet, SumsKeep DEF IInv, Least
  <2>2. CASE q # p
    BY <2>2, SumsKeep DEF IInv, TopUpNet
  <2>3. QED
    BY <2>1, <2>2
<1>7. FullReversalEnds'
  <2>. SUFFICES ASSUME plan'.version # ByHand, Live'
                PROVE  Requested(plan.version)' < PaymentOf[plan'.version].amount
    BY DEF FullReversalEnds
  <2>0. Requested(plan.version)' = SumFunctionOnSet(Amounts', RecordedReversals(plan.version)')
    BY DEF Requested
  <2>1. CASE plan' = plan
    BY <2>1, SumsKeep DEF IInv, FullReversalEnds, Live, Requested
  <2>2. CASE plan' # plan
    <3>1. plan'.version = p
      BY <2>2, <1>1
    <3>2. Requested(plan.version)' = Requested(p)'
      BY <3>1 DEF Requested, RecordedReversals
    <3>3. Requested(p)' = 0
      BY NothingYet, SumsKeep DEF IInv
    <3>4. QED
      BY <3>1, <3>2, <3>3
  <2>3. QED
    BY <2>1, <2>2
<1>8. QED
  BY <1>2, <1>3, <1>4, <1>5, <1>6, <1>7, PaymentBalance DEF IInv

-----------------------------------------------------------------------------
(* A reversal is recorded *)

\* What it takes from the balance.
LEMMA TakenBack ==
  ASSUME TypeOK, NEW n \in Nat
  PROVE  LET w == TakeBack(usd, n)
         IN  w \in Wallet /\ w.prepaid - w.debt = usd.prepaid - usd.debt - n
<1>1. usd \in Wallet
  BY DEF TypeOK
<1>2. QED
  BY <1>1, TakeBackWallet

\* The row a reversal of payment p writes, and what it does besides.
TopUpRow(x, p, d, n) ==
    /\ PaymentOf[p].kind = "top_up" /\ plan' = plan
    /\ \/ /\ d = "superseded" /\ n = 0 /\ usd' = usd
          /\ paid[p] # "applied" \/ LeftOf(p) <= 0
       \/ d = "rejected" /\ n = 0 /\ usd' = usd
       \/ /\ d = "applied" /\ n = Least(ReversalOf[x].amount, LeftOf(p)) /\ LeftOf(p) > 0
          /\ usd' = TakeBack(usd, n)

PeriodRow(x, p, d, n) ==
    /\ PaymentOf[p].kind # "top_up" /\ usd' = usd
    /\ \/ plan' = plan /\ (paid[p] = "applied" /\ plan.version = p /\ Live => ~FullWith(x))
       \/ plan' = EndedNow /\ plan.version = p /\ FullWith(x)

LEMMA ReversalIsRow ==
  ASSUME IInv, NEW x \in Reversals, RecordReversal(x)
  PROVE  LET p == ReversalOf[x].of
         IN  /\ p \in Payments /\ paid[p] # "none" /\ taken[x].status = "none"
             /\ outbox' \in {outbox, outbox \ {x}}
             /\ now' = now /\ consumed' = consumed /\ paid' = paid
             /\ \E d \in RowStatus \ {"none"}, n \in Nat :
                   Take(x, d, n) /\ (TopUpRow(x, p, d, n) \/ PeriodRow(x, p, d, n))
<1>. DEFINE p == ReversalOf[x].of
<1>1. /\ p \in Payments /\ paid[p] # "none" /\ taken[x].status = "none"
      /\ outbox' \in {outbox, outbox \ {x}}
      /\ now' = now /\ consumed' = consumed /\ paid' = paid
  BY DEF RecordReversal, Acknowledge
<1>2. LeftOf(p) \in Int /\ ReversalOf[x].amount \in Nat
  BY <1>1, SumsAreNumbers DEF IInv
<1>3. ASSUME ReverseTopUp(x)
      PROVE  \E d \in RowStatus \ {"none"}, n \in Nat : Take(x, d, n) /\ TopUpRow(x, p, d, n)
  <2>1. PaymentOf[p].kind = "top_up" /\ plan' = plan
    BY <1>3 DEF ReverseTopUp
  <2>2. CASE (paid[p] # "applied" \/ LeftOf(p) <= 0) /\ Take(x, "superseded", 0) /\ UNCHANGED usd
    <3>1. Take(x, "superseded", 0) /\ TopUpRow(x, p, "superseded", 0)
      BY <2>1, <2>2 DEF Take, TopUpRow
    <3>2. QED
      BY <3>1 DEF RowStatus
  <2>3. CASE Take(x, "rejected", 0) /\ UNCHANGED usd
    <3>1. Take(x, "rejected", 0) /\ TopUpRow(x, p, "rejected", 0)
      BY <2>1, <2>3 DEF Take, TopUpRow
    <3>2. QED
      BY <3>1 DEF RowStatus
  <2>4. ASSUME LeftOf(p) > 0, Take(x, "applied", Least(ReversalOf[x].amount, LeftOf(p))),
               usd' = TakeBack(usd, Least(ReversalOf[x].amount, LeftOf(p)))
        PROVE  \E d \in RowStatus \ {"none"}, n \in Nat :
                  Take(x, d, n) /\ TopUpRow(x, p, d, n)
    <3>. DEFINE n == Least(ReversalOf[x].amount, LeftOf(p))
    <3>1. Take(x, "applied", n) /\ TopUpRow(x, p, "applied", n)
      BY <2>1, <2>4 DEF Take, TopUpRow
    <3>2. n \in Nat
      BY <1>2, <2>4 DEF Least
    <3>. HIDE DEF n
    <3>3. QED
      BY <3>1, <3>2 DEF RowStatus
  <2>5. QED
    BY <1>3, <2>2, <2>3, <2>4 DEF ReverseTopUp
<1>4. ASSUME ReversePeriod(x)
      PROVE  \E d \in RowStatus \ {"none"}, n \in Nat : Take(x, d, n) /\ PeriodRow(x, p, d, n)
  <2>. DEFINE late == IF PaymentOf[p].kind = "plus" THEN "rejected" ELSE "superseded"
              worth == IF PaymentOf[p].kind = "plus" THEN 0
                       ELSE Excess(Least(ReversalOf[x].amount, LeftOf(p)), 0)
  <2>1. PaymentOf[p].kind # "top_up" /\ usd' = usd
    BY <1>4 DEF ReversePeriod
  <2>2. worth \in Nat /\ late \in RowStatus \ {"none"}
    BY <1>2 DEF Least, Excess, RowStatus
  <2>3. CASE paid[p] # "applied" /\ Take(x, late, 0) /\ UNCHANGED plan
    <3>1. Take(x, late, 0) /\ PeriodRow(x, p, late, 0)
      BY <2>1, <2>3 DEF Take, PeriodRow
    <3>2. QED
      BY <2>2, <3>1
  <2>4. CASE (~FullWith(x) \/ plan.version # p) /\ Take(x, "rejected", 0) /\ UNCHANGED plan
    <3>1. Take(x, "rejected", 0) /\ PeriodRow(x, p, "rejected", 0)
      BY <2>1, <2>4 DEF Take, PeriodRow
    <3>2. QED
      BY <3>1 DEF RowStatus
  <2>5. CASE ~Live /\ Take(x, late, 0) /\ UNCHANGED plan
    <3>1. Take(x, late, 0) /\ PeriodRow(x, p, late, 0)
      BY <2>1, <2>5 DEF Take, PeriodRow
    <3>2. QED
      BY <2>2, <3>1
  <2>6. CASE FullWith(x) /\ plan.version = p /\ Take(x, "applied", worth) /\ plan' = EndedNow
    <3>1. Take(x, "applied", worth) /\ PeriodRow(x, p, "applied", worth)
      BY <2>1, <2>6 DEF Take, PeriodRow
    <3>2. QED
      BY <2>2, <3>1 DEF RowStatus
  <2>7. QED
    BY <1>4, <2>3, <2>4, <2>5, <2>6 DEF ReversePeriod
<1>5. QED
  BY <1>1, <1>3, <1>4 DEF RecordReversal

LEMMA ReversalKeeps ==
  ASSUME IInv, NEW x \in Reversals, RecordReversal(x)
  PROVE  IInv'
<1>. DEFINE p == ReversalOf[x].of
<1>1. /\ p \in Payments /\ paid[p] # "none" /\ taken[x].status = "none"
      /\ outbox' \in {outbox, outbox \ {x}}
      /\ now' = now /\ consumed' = consumed /\ paid' = paid
  BY ReversalIsRow
<1>2. PICK d \in RowStatus \ {"none"}, n \in Nat :
         Take(x, d, n) /\ (TopUpRow(x, p, d, n) \/ PeriodRow(x, p, d, n))
  BY ReversalIsRow
<1>3. TypeOK /\ RowsInOrder
  BY DEF IInv
<1>4. /\ taken' \in [Reversals -> [status : RowStatus, applied : Nat]]
      /\ taken'[x].status = d /\ taken'[x].applied = n
      /\ \A y \in Reversals : y # x => taken'[y] = taken[y]
  BY <1>1, <1>2, <1>3, RowWritten
<1>5. plan'.version = plan.version /\ plan'.kind = plan.kind
  BY <1>2 DEF TopUpRow, PeriodRow, EndedNow
<1>6. TypeOK'
  <2>1. usd' \in Wallet
    <3>1. usd \in Wallet /\ TakeBack(usd, n) \in Wallet
      BY <1>3, TakeBackWallet DEF TypeOK
    <3>2. QED
      BY <1>2, <3>1 DEF TopUpRow, PeriodRow
  <2>2. plan' \in [kind : {"none", "basic", "plus", "other"}, expires : Nat,
                   version : Payments \cup {ByHand}]
    BY <1>2, <1>3 DEF TopUpRow, PeriodRow, EndedNow, TypeOK
  <2>3. QED
    BY <1>1, <1>3, <1>4, <2>1, <2>2 DEF TypeOK
<1>7. AcknowledgedIsRecorded'
  <2>. SUFFICES ASSUME NEW e \in (Payments \cup Reversals) \ outbox'
                PROVE  Recorded(e)'
    BY DEF AcknowledgedIsRecorded
  <2>1. CASE e = x
    BY <2>1, <1>4 DEF Recorded
  <2>2. CASE e # x
    <3>1. Recorded(e)
      BY <2>2, <1>1 DEF IInv, AcknowledgedIsRecorded
    <3>2. QED
      BY <3>1, <2>2, <1>1, <1>4 DEF Recorded
  <2>3. QED
    BY <2>1, <2>2
<1>8. RowsInOrder'
  BY <1>1, <1>3, <1>4 DEF RowsInOrder
<1>9. PlanIsPaid'
  BY <1>1, <1>5 DEF IInv, PlanIsPaid
<1>10. CreditMatchesRows'
  <2>1. x \in Refunds <=> PaymentOf[p].kind = "top_up"
    BY DEF Refunds
  <2>2. /\ SumFunctionOnSet(Applied, Refunds) \in Int
        /\ SumFunctionOnSet(Applied', Refunds)
             = SumFunctionOnSet(Applied, Refunds) + IF x \in Refunds THEN n ELSE 0
    BY <1>1, <1>2, <1>3, RefundsAfterRow
  <2>3. TopUps' = TopUps /\ Prices' = Prices /\ Refunds' = Refunds
    BY <1>1 DEF TopUps, Prices, Refunds
  <2>4. SumFunctionOnSet(Prices, TopUps) \in Int
    <3>1. IsFiniteSet(TopUps) /\ \A q \in TopUps : Prices[q] \in Int
      BY FS_Subset DEF TopUps, Prices
    <3>2. QED
      BY <3>1, SumType
  <2>5. usd'.prepaid - usd'.debt = usd.prepaid - usd.debt - IF x \in Refunds THEN n ELSE 0
    <3>1. usd.prepaid \in Int /\ usd.debt \in Int
      BY <1>3 DEF TypeOK, Wallet
    <3>2. CASE n = 0 /\ usd' = usd
      BY <3>1, <3>2
    <3>3. CASE TopUpRow(x, p, d, n) /\ usd' = TakeBack(usd, n)
      <4>1. x \in Refunds
        BY <2>1, <3>3 DEF TopUpRow
      <4>2. usd'.prepaid - usd'.debt = usd.prepaid - usd.debt - n
        BY <1>3, <3>3, TakenBack
      <4>3. QED
        BY <4>1, <4>2
    <3>4. CASE PeriodRow(x, p, d, n)
      <4>1. x \notin Refunds /\ usd' = usd
        BY <2>1, <3>4 DEF PeriodRow
      <4>2. QED
        BY <3>1, <4>1
    <3>5. QED
      BY <1>2, <3>2, <3>3, <3>4 DEF TopUpRow
  <2>6. usd.prepaid \in Int /\ usd.debt \in Int /\ consumed \in Int
    BY <1>3 DEF TypeOK, Wallet
  <2>7. usd.prepaid - usd.debt + consumed
          = SumFunctionOnSet(Prices, TopUps) - SumFunctionOnSet(Applied, Refunds)
    BY Balance DEF IInv
  <2>8. usd'.prepaid - usd'.debt + consumed'
          = SumFunctionOnSet(Prices, TopUps) - SumFunctionOnSet(Applied', Refunds)
    BY <1>1, <2>2, <2>4, <2>5, <2>6, <2>7
  <2>9. QED
    BY <2>3, <2>8 DEF CreditMatchesRows, Prices, TopUps, Refunds
<1>11. TopUpNet'
  <2>. SUFFICES ASSUME NEW q \in Payments, PaymentOf[q].kind = "top_up", paid[q] = "applied",
                       \A y \in RecordedReversals(q)' : taken'[y].status # "rejected"
                PROVE  AppliedBack(q)' = Least(PaymentOf[q].amount, Requested(q)')
    BY <1>1 DEF TopUpNet
  <2>1. x \notin RecordedReversals(q) /\ RecordedReversals(q) \subseteq Reversals
    BY <1>1 DEF RecordedReversals
  <2>2. RecordedReversals(q) \subseteq RecordedReversals(q)'
    BY <1>1, <1>2, <1>3, SumsAfterRow
  <2>3. \A y \in RecordedReversals(q) : taken[y].status # "rejected"
    BY <1>4, <2>1, <2>2
  <2>4. AppliedBack(q) = Least(PaymentOf[q].amount, Requested(q))
    BY <2>3 DEF IInv, TopUpNet
  <2>5. CASE p # q
    BY <1>1, <1>2, <1>3, <2>4, <2>5, SumsAfterRow
  <2>6. CASE p = q
    <3>1. /\ Requested(q)' = Requested(q) + ReversalOf[x].amount
          /\ AppliedBack(q)' = AppliedBack(q) + n
          /\ x \in RecordedReversals(q)'
      BY <1>1, <1>2, <1>3, <2>6, SumsAfterRow
    <3>2. d # "rejected"
      BY <1>4, <3>1
    <3>3. /\ Requested(q) \in Nat /\ AppliedBack(q) \in Nat
          /\ LeftOf(q) = PaymentOf[q].amount - AppliedBack(q)
          /\ PaymentOf[q].amount \in Nat /\ ReversalOf[x].amount \in Nat
      BY <1>3, SumsAreNumbers
    <3>4. \/ n = 0 /\ LeftOf(q) <= 0
          \/ n = Least(ReversalOf[x].amount, LeftOf(q)) /\ LeftOf(q) > 0
      BY <1>2, <2>6, <3>2 DEF TopUpRow, PeriodRow
    <3>5. QED
      BY <2>4, <3>1, <3>3, <3>4 DEF Least
  <2>7. QED
    BY <2>5, <2>6
<1>12. FullReversalEnds'
  <2>. SUFFICES ASSUME plan'.version # ByHand, Live'
                PROVE  SumFunctionOnSet(Amounts', RecordedReversals(plan.version)')
                         < PaymentOf[plan'.version].amount
    BY DEF FullReversalEnds, Requested
  <2>. DEFINE v == plan.version
  <2>1. /\ v \in Payments /\ v # ByHand /\ plan'.version = v
        /\ paid[v] = "applied" /\ PaymentOf[v].kind # "top_up"
    BY <1>3, <1>5 DEF TypeOK, IInv, PlanIsPaid
  <2>2. SumFunctionOnSet(Amounts', RecordedReversals(plan.version)') = Requested(v)'
    BY <2>1 DEF Requested, RecordedReversals
  <2>0. now \in Int /\ EndedNow.expires = now
    BY <1>3 DEF TypeOK, EndedNow
  <2>3. Live /\ plan' = plan
    BY <1>1, <1>2, <2>0 DEF TopUpRow, PeriodRow, Live
  <2>4. Requested(v) < PaymentOf[v].amount
    BY <2>1, <2>3 DEF IInv, FullReversalEnds
  <2>5. CASE p # v
    BY <1>1, <1>2, <1>3, <2>1, <2>2, <2>4, <2>5, SumsAfterRow
  <2>6. CASE p = v
    <3>1. ~FullWith(x)
      <4>1. PeriodRow(x, p, d, n)
        BY <1>2, <2>1, <2>6 DEF TopUpRow
      <4>2. plan' # EndedNow
        BY <1>1, <2>0, <2>3 DEF Live
      <4>3. QED
        BY <4>1, <4>2, <2>1, <2>3, <2>6 DEF PeriodRow
    <3>2. Requested(v)' = Requested(v) + ReversalOf[x].amount
      BY <1>1, <1>2, <1>3, <2>1, <2>6, SumsAfterRow
    <3>3. Requested(v) \in Nat /\ ReversalOf[x].amount \in Nat /\ PaymentOf[v].amount \in Nat
      BY <1>3, <2>1, SumsAreNumbers
    <3>4. QED
      BY <2>1, <2>2, <2>6, <3>1, <3>2, <3>3 DEF FullWith
  <2>7. QED
    BY <2>5, <2>6
<1>13. QED
  BY <1>6, <1>7, <1>8, <1>9, <1>10, <1>11, <1>12 DEF IInv

-----------------------------------------------------------------------------
(* The other steps *)

\* Steps that write no row, and change the balance only together with `consumed`.
LEMMA NoRow ==
  ASSUME IInv, TypeOK', UNCHANGED <<paid, taken>>,
         outbox' = outbox \/ \E e : outbox' = outbox \ {e} /\ Recorded(e),
         usd'.prepaid - usd'.debt + consumed' = usd.prepaid - usd.debt + consumed,
         \/ plan' = plan /\ (Live' => Live)
         \/ plan'.version = ByHand
  PROVE  IInv'
<1>1. AcknowledgedIsRecorded'
  BY DEF IInv, AcknowledgedIsRecorded, Recorded
<1>2. RowsInOrder' /\ PlanIsPaid'
  BY DEF IInv, RowsInOrder, PlanIsPaid
<1>3. CreditMatchesRows'
  <2>1. TopUps' = TopUps /\ Applied' = Applied /\ Refunds' = Refunds /\ Prices' = Prices
    BY DEF TopUps, Applied, Refunds, Prices
  <2>2. usd.prepaid - usd.debt + consumed
          = SumFunctionOnSet(Prices, TopUps) - SumFunctionOnSet(Applied, Refunds)
    BY Balance DEF IInv
  <2>3. QED
    BY <2>1, <2>2 DEF CreditMatchesRows, Prices, TopUps, Refunds
<1>4. TopUpNet'
  <2>1. \A p : /\ RecordedReversals(p)' = RecordedReversals(p)
               /\ Requested(p)' = Requested(p) /\ AppliedBack(p)' = AppliedBack(p)
    BY SumsKeep
  <2>2. QED
    BY <2>1 DEF IInv, TopUpNet
<1>5. FullReversalEnds'
  BY SumsKeep DEF IInv, FullReversalEnds, Requested
<1>6. QED
  BY <1>1, <1>2, <1>3, <1>4, <1>5 DEF IInv

LEMMA Step == IInv /\ [Next]_vars => IInv'
<1>. SUFFICES ASSUME IInv, [Next]_vars
              PROVE  IInv'
  OBVIOUS
<1>0. usd.prepaid \in Int /\ usd.debt \in Int /\ consumed \in Int /\ TypeOK
  BY DEF IInv, TypeOK, Wallet
<1>1. ASSUME NEW e \in outbox, Notify(e)
      PROVE  IInv'
  <2>1. CASE Repeat(e)
    <3>1. /\ UNCHANGED <<now, usd, consumed, plan, paid, taken>>
          /\ outbox' = outbox \/ (outbox' = outbox \ {e} /\ Recorded(e))
      BY <2>1 DEF Repeat, Answers200
    <3>2. TypeOK' /\ (Live' => Live)
      BY <1>0, <3>1 DEF TypeOK, Live
    <3>3. QED
      BY <3>1, <3>2, NoRow
  <2>2. QED
    BY <1>1, <2>1, PaymentKeeps, ReversalKeeps DEF Notify
<1>2. ASSUME NEW g \in HandGrants, GrantByHand(g)
      PROVE  IInv'
  <2>1. /\ plan' = [kind |-> g.kind, expires |-> g.expires, version |-> ByHand]
        /\ UNCHANGED <<now, usd, consumed, paid, taken, outbox>>
    BY <1>2 DEF GrantByHand
  <2>2. TypeOK'
    BY <1>0, <2>1 DEF TypeOK
  <2>3. QED
    BY <2>1, <2>2, NoRow
<1>3. CASE Tick
  <2>1. UNCHANGED <<usd, consumed, plan, paid, taken, outbox>> /\ TypeOK' /\ (Live' => Live)
    BY <1>0, <1>3 DEF Tick, TypeOK, Live
  <2>2. QED
    BY <2>1, NoRow
<1>4. CASE Consume
  <2>1. /\ UNCHANGED <<now, plan, paid, taken, outbox>>
        /\ consumed' = consumed + 1 /\ usd' = TakeBack(usd, 1)
    BY <1>4 DEF Consume
  <2>2. usd' \in Wallet /\ usd'.prepaid - usd'.debt = usd.prepaid - usd.debt - 1
    BY <1>0, <2>1, TakenBack
  <2>3. usd'.prepaid \in Int /\ usd'.debt \in Int
    BY <2>2 DEF Wallet
  <2>4. TypeOK' /\ (Live' => Live)
    BY <1>0, <2>1, <2>2 DEF TypeOK, Live
  <2>5. usd'.prepaid - usd'.debt + consumed' = usd.prepaid - usd.debt + consumed
    BY <1>0, <2>1, <2>2, <2>3
  <2>6. QED
    BY <2>1, <2>4, <2>5, NoRow
<1>5. CASE UNCHANGED vars
  <2>1. /\ UNCHANGED <<usd, consumed, plan, paid, taken, outbox>> /\ TypeOK' /\ (Live' => Live)
    BY <1>0, <1>5 DEF vars, TypeOK, Live
  <2>2. QED
    BY <2>1, NoRow
<1>6. QED
  BY <1>1, <1>2, <1>3, <1>4, <1>5 DEF Next

\* A paid period loses time by a full reversal or a grant by hand only.
LEMMA PeriodStep ==
  ASSUME IInv, [Next]_vars, plan.version # ByHand, Live, plan'.expires < plan.expires
  PROVE  \/ plan'.version = ByHand
         \/ /\ plan'.version = plan.version
            /\ Requested(plan.version)' >= PaymentOf[plan.version].amount
<1>0. PICK v \in Payments : v = plan.version
  BY DEF IInv, TypeOK
<1>1. /\ TypeOK /\ plan.kind \in PeriodKinds
      /\ now \in Int /\ plan.expires \in Int /\ plan' # plan
  BY DEF IInv, TypeOK, PlanIsPaid, PaymentKinds, PeriodKinds
<1>2. ASSUME NEW p \in Payments, RecordBasic(p)
      PROVE  FALSE
  <2>1. plan' = Granted(p) /\ BasicDecision(p) = "applied"
    BY <1>1, <1>2 DEF RecordBasic
  <2>2. plan.kind \in {"basic", "none"} /\ ~(plan.kind = "basic" /\ plan.expires >= PaymentOf[p].periodEnd)
    BY <2>1 DEF BasicDecision
  <2>3. plan'.expires = PaymentOf[p].periodEnd /\ PaymentOf[p].periodEnd \in Int
    BY <2>1 DEF Granted
  <2>4. QED
    BY <1>1, <2>2, <2>3 DEF PeriodKinds
<1>3. ASSUME NEW p \in Payments, RecordPlus(p)
      PROVE  FALSE
  <2>1. plan' = Granted(p) /\ PlusDecision(p) = "applied"
    BY <1>1, <1>3 DEF RecordPlus
  <2>2. PlusVerified /\ ~(plan.expires >= PaymentOf[p].periodEnd)
    BY <1>1, <2>1 DEF PlusDecision, PeriodKinds
  <2>3. plan'.expires = PaymentOf[p].periodEnd /\ PaymentOf[p].periodEnd \in Int
    BY <2>1 DEF Granted
  <2>4. QED
    BY <1>1, <2>2, <2>3
<1>4. ASSUME NEW x \in Reversals, RecordReversal(x)
      PROVE  plan'.version = v /\ Requested(plan.version)' >= PaymentOf[v].amount
  <2>1. ReversalOf[x].of \in Payments /\ taken[x].status = "none"
    BY <1>4 DEF RecordReversal
  <2>2. PICK d \in RowStatus \ {"none"}, n \in Nat :
          /\ Take(x, d, n)
          /\ TopUpRow(x, ReversalOf[x].of, d, n) \/ PeriodRow(x, ReversalOf[x].of, d, n)
    BY <1>4, ReversalIsRow
  <2>3. plan' = EndedNow /\ v = ReversalOf[x].of /\ FullWith(x)
    BY <1>0, <1>1, <2>2 DEF TopUpRow, PeriodRow
  <2>4. plan'.version = v
    BY <1>0, <2>3 DEF EndedNow
  <2>5. Requested(v)' = Requested(v) + ReversalOf[x].amount
    BY <1>1, <2>1, <2>2, <2>3, SumsAfterRow
  <2>6. Requested(plan.version)' = Requested(v)'
    BY <2>4 DEF Requested, RecordedReversals
  <2>7. QED
    BY <2>3, <2>4, <2>5, <2>6 DEF FullWith
<1>5. CASE \E e \in outbox : Notify(e)
  <2>1. PICK e \in outbox : Notify(e)
    BY <1>5
  <2>2. ~RecordTopUp(e) /\ ~Repeat(e)
    BY <1>1 DEF RecordTopUp, Repeat
  <2>3. e \in Reversals /\ RecordReversal(e)
    BY <1>2, <1>3, <2>1, <2>2 DEF Notify
  <2>4. QED
    BY <1>0, <1>4, <2>3
<1>6. CASE \E g \in HandGrants : GrantByHand(g)
  BY <1>6 DEF GrantByHand
<1>7. CASE Tick \/ Consume \/ UNCHANGED vars
  BY <1>1, <1>7 DEF Tick, Consume, vars
<1>8. QED
  BY <1>5, <1>6, <1>7 DEF Next

-----------------------------------------------------------------------------

\* The inductive invariant of the ledger's payments.
THEOREM Invariant == Spec => []IInv
<1>1. Init => IInv
  BY Initial
<1>2. IInv /\ [Next]_vars => IInv'
  BY Step
<1>3. QED
  BY <1>1, <1>2, PTL DEF Spec

THEOREM TypeCorrect == Spec => []TypeOK
<1>1. IInv => TypeOK
  BY DEF IInv
<1>2. QED
  BY <1>1, Invariant, PTL

\* A provider stops notifying only what has a row: no refund that overtakes its payment
\* is lost, however often and in whatever order notifications come.
THEOREM NothingIsLost == Spec => []AcknowledgedIsRecorded
<1>1. IInv => AcknowledgedIsRecorded
  BY DEF IInv
<1>2. QED
  BY <1>1, Invariant, PTL

\* Rejected, late and superseded invoices never give a plan, and a top-up is never taken
\* for a period.
THEOREM PlansArePaid == Spec => []PlanIsPaid
<1>1. IInv => PlanIsPaid
  BY DEF IInv
<1>2. QED
  BY <1>1, Invariant, PTL

\* The balance is what the rows say, for any number of top-ups, refunds, disputes and
\* requests: what applied top-ups gave, less what reversals took and requests spent.
THEOREM BalanceIsExplained == Spec => []CreditMatchesRows
<1>1. IInv => CreditMatchesRows
  BY DEF IInv
<1>2. QED
  BY <1>1, Invariant, PTL

\* Any number of partial refunds and disputes of a top-up take back what the provider
\* returned, up to the payment.
THEOREM RefundsAreExact == Spec => []TopUpNet
<1>1. IInv => TopUpNet
  BY DEF IInv
<1>2. QED
  BY <1>1, Invariant, PTL

\* A period that was returned in full, in however many parts, gives no access.
THEOREM ReturnedGivesNothing == Spec => []FullReversalEnds
<1>1. IInv => FullReversalEnds
  BY DEF IInv
<1>2. QED
  BY <1>1, Invariant, PTL

\* Late, repeated and foreign invoices never shorten a paid period.
THEOREM PeriodsAreKept == Spec => PaidPeriodKept
<1>1. IInv /\ [Next]_vars =>
        [ plan.version # ByHand /\ Live /\ plan'.expires < plan.expires
        => \/ plan'.version = ByHand
           \/ /\ plan'.version = plan.version
              /\ Requested(plan.version)' >= PaymentOf[plan.version].amount ]_vars
  BY PeriodStep
<1>2. QED
  BY <1>1, Invariant, PTL DEF Spec, PaidPeriodKept

-----------------------------------------------------------------------------
(* Redemptions of RCH.  CreditedIsFinal is not inductive: a handler credits on what it  *)
(* read earlier, so the invariant says for every await what its reads still mean: what  *)
(* was final stays final; what the receipt was found to hold is kept in its block; and  *)
(* the hash being verified is either still the one of the row or a final transaction    *)
(* that redeems nothing, which can never reach the crediting step.                      *)

\* A transaction is canonical in one block only.
OneCanonical ==
    \A b1, b2 \in canon : b1.tx = b2.tx /\ b1.tx # NoTx => b1 = b2

\* t is final and did not redeem r: t can never pay r.
Useless(t, r) == \E b \in minted : Final(b) /\ b.tx = t /\ r \notin Events(b)

\* Only a submission gives a row its hash.
RowsHashed ==
    \A r \in Redemptions : /\ row[r].status = "none" => row[r].tx = NoTx
                           /\ row[r].status = "pending" => row[r].tx \in Txs

\* The hash is the row's, or was rightly replaced.
CurrentOrUseless(r, t) == row[r].tx = t \/ Useless(t, r)

Looking == {"canonical", "finalized", "recheck"}

\* p verifies job[p].tx (and is not examining the hash it may replace).
Verifying(p) ==
    \/ pc[p] \in {"receipt", "judging", "crediting"}
    \/ pc[p] \in Looking /\ job[p].goal # "replace"

JobNamed(p) == pc[p] # "idle" => job[p].r \in Redemptions /\ job[p].tx \in Txs

BlockKnown(p) ==
    pc[p] \in Looking \cup {"judging", "replacing", "crediting"} => job[p].block \in minted

GoalKnown(p) ==
    /\ pc[p] \in Looking => job[p].goal # "none"
    /\ pc[p] = "judging" => job[p].goal # "replace"
    /\ pc[p] = "replacing" => job[p].goal = "replace"
    /\ pc[p] = "crediting" => job[p].goal = "credit"

\* What the receipt was found to hold when the goal was set.
EvidenceHeld(p) ==
    /\ pc[p] \in Looking \cup {"replacing"} /\ job[p].goal = "replace"
         => job[p].block.tx = job[p].old /\ job[p].r \notin Events(job[p].block)
    /\ pc[p] \in Looking \cup {"judging", "crediting"} /\ job[p].goal # "replace"
         => job[p].block.tx = job[p].tx
    /\ pc[p] \in Looking \cup {"crediting"} /\ job[p].goal = "credit"
         => job[p].r \in Events(job[p].block)

\* What finalizedReceipt has established so far.
FinalitySeen(p) ==
    /\ pc[p] = "recheck" => finalized >= job[p].block.height
    /\ pc[p] \in {"replacing", "crediting"} => Final(job[p].block)

HashCurrent(p) == Verifying(p) => CurrentOrUseless(job[p].r, job[p].tx)

JobInv(p) ==
    /\ JobNamed(p)
    /\ BlockKnown(p)
    /\ GoalKnown(p)
    /\ EvidenceHeld(p)
    /\ FinalitySeen(p)
    /\ HashCurrent(p)

QueueInv == \A e \in queue : CurrentOrUseless(e[1], e[2])

SafeInv ==
    /\ RedemptionTypeOK
    /\ OneCanonical
    /\ RowsHashed
    /\ \A p \in Processes : JobInv(p)
    /\ QueueInv
    /\ CreditedIsFinal

-----------------------------------------------------------------------------
(* The chain *)

ChainMoves == ChainNext \/ UNCHANGED chainVars

\* What happens to the chain keeps its type and brings no transaction twice.
LEMMA ChainTyped ==
    ASSUME ChainTypeOK, OneCanonical, ChainMoves
    PROVE  ChainTypeOK' /\ OneCanonical'
  <1>1. CASE UNCHANGED chainVars
    BY <1>1 DEF chainVars, ChainTypeOK, OneCanonical
  <1>2. ASSUME NEW h \in Hashes, NEW t \in Txs \cup {NoTx}, NEW ok \in BOOLEAN, Mine(h, t, ok)
        PROVE  ChainTypeOK' /\ OneCanonical'
    <2> DEFINE b == [hash |-> h, height |-> top + 1, tx |-> t, ok |-> ok]
    <2>1. /\ minted' = minted \cup {b} /\ canon' = canon \cup {b}
          /\ top' = top + 1 /\ finalized' = finalized
          /\ t # NoTx => \A old \in canon : old.tx # t
      BY <1>2 DEF Mine
    <2>2. b \in Block /\ b.tx = t
      BY DEF Block, ChainTypeOK
    <2> HIDE DEF b
    <2>3. ChainTypeOK'
      BY <2>1, <2>2 DEF ChainTypeOK
    <2>4. OneCanonical'
      BY <2>1, <2>2 DEF OneCanonical
    <2> QED  BY <2>3, <2>4
  <1>3. ASSUME NEW height \in finalized..top, Reorganize(height)
        PROVE  ChainTypeOK' /\ OneCanonical'
    BY <1>3 DEF Reorganize, ChainTypeOK, OneCanonical
  <1>4. CASE Finalize
    BY <1>4 DEF Finalize, ChainTypeOK, OneCanonical
  <1> QED  BY <1>1, <1>2, <1>3, <1>4 DEF ChainMoves, ChainNext

\* Blocks are remembered, and what is final stays final: no reorganization
\* goes below the finalized tag.
LEMMA FinalStays ==
    ASSUME ChainTypeOK, ChainMoves
    PROVE  /\ minted \subseteq minted'
           /\ finalized <= finalized'
           /\ \A b \in minted : Final(b) => b \in canon' /\ b.height <= finalized'
  <1>0. \A b \in minted : b.height \in Nat
    BY DEF ChainTypeOK, Block
  <1>1. CASE UNCHANGED chainVars
    BY <1>1 DEF chainVars, Final, ChainTypeOK
  <1>2. ASSUME NEW h \in Hashes, NEW t \in Txs \cup {NoTx}, NEW ok \in BOOLEAN, Mine(h, t, ok)
        PROVE  /\ minted \subseteq minted' /\ canon \subseteq canon' /\ finalized' = finalized
    BY <1>2 DEF Mine
  <1>3. ASSUME NEW height \in finalized..top, Reorganize(height)
        PROVE  /\ minted' = minted /\ finalized' = finalized
               /\ \A b \in minted : Final(b) => b \in canon'
    BY <1>0, <1>3 DEF Reorganize, Final, ChainTypeOK
  <1>4. CASE Finalize
    BY <1>0, <1>4 DEF Finalize, Final, ChainTypeOK
  <1> QED  BY <1>1, <1>2, <1>3, <1>4 DEF ChainMoves, ChainNext, Final, ChainTypeOK

\* A transaction that is useless for a redemption stays so.
LEMMA UselessStays ==
    ASSUME ChainTypeOK, ChainMoves, NEW t, NEW r, Useless(t, r)
    PROVE  Useless(t, r)'
  <1>1. PICK b \in minted : Final(b) /\ b.tx = t /\ r \notin Events(b)
    BY DEF Useless
  <1>2. b \in minted' /\ b \in canon' /\ b.height <= finalized'
    BY <1>1, FinalStays
  <1> QED  BY <1>1, <1>2 DEF Useless, Final

\* Only a transaction that was submitted emits events.
LEMMA EventsTx ==
    ASSUME NEW b, NEW r, r \in Events(b)
    PROVE  b.tx \in Txs
  BY DEF Events

-----------------------------------------------------------------------------
(* Type correctness *)

\* A handler that answers has no locals left.
LEMMA EndTyped ==
    ASSUME RedemptionTypeOK, NEW p \in Processes, End(p)
    PROVE  pc' \in [Processes -> Places] /\ job' \in [Processes -> Job]
  <1>1. NoJob \in Job
    BY DEF NoJob, Job
  <1> QED  BY <1>1 DEF End, RedemptionTypeOK, Places

\* A handler moves to an await of the code.
LEMMA GotoTyped ==
    ASSUME RedemptionTypeOK, NEW p \in Processes, NEW place \in Places, Goto(p, place)
    PROVE  pc' \in [Processes -> Places]
  BY DEF Goto, RedemptionTypeOK

\* A handler keeps its locals well typed when it looks at a block.
LEMMA LookTyped ==
    ASSUME RedemptionTypeOK, NEW p \in Processes, NEW b \in Block \cup {NoBlock},
           NEW goal \in {"replace", "judge", "credit"},
           Look(p, b, goal)
    PROVE  job' \in [Processes -> Job]
  <1>1. job[p] \in Job
    BY DEF RedemptionTypeOK
  <1>2. Work(job[p].r, job[p].tx, job[p].old, b, goal) \in Job
    BY <1>1 DEF Work, Job
  <1> QED  BY <1>2 DEF Look, RedemptionTypeOK

\* A receipt is of a block that was seen, for the transaction asked for.
LEMMA ReceiptKnown ==
    ASSUME RedemptionTypeOK, NEW t, NEW b \in Receipts(t), b # NoBlock
    PROVE  b \in minted /\ b \in Block /\ b.tx = t
  BY DEF Receipts, RedemptionTypeOK, ChainTypeOK

\* Each step of a submission keeps the type.
LEMMA TypeClient ==
    ASSUME RedemptionTypeOK, NEW c \in Clients,
           \/ \E r \in Redemptions, t \in Txs : Submit(c, r, t)
           \/ ReadOldReceipt(c) \/ Replace(c) \/ Record(c)
    PROVE  RedemptionTypeOK'
  <1>0. c \in Processes /\ job[c] \in Job
    BY DEF Processes, RedemptionTypeOK
  <1>1. ASSUME NEW r \in Redemptions, NEW t \in Txs, Submit(c, r, t)  PROVE RedemptionTypeOK'
    <2>1. Work(r, t, row[r].tx, NoBlock, "none") \in Job
      BY DEF Work, Job, RedemptionTypeOK, Row
    <2>2. job' \in [Processes -> Job]
      BY <1>0, <1>1, <2>1 DEF Submit, RedemptionTypeOK
    <2>3. pc' \in [Processes -> Places]
      BY <1>0, <1>1 DEF Submit, Goto, RedemptionTypeOK, Places
    <2> QED  BY <1>1, <2>2, <2>3 DEF Submit, RedemptionTypeOK, ChainTypeOK, chainVars
  <1>2. CASE ReadOldReceipt(c)
    <2>1. pc' \in [Processes -> Places] /\ job' \in [Processes -> Job]
      <3>1. PICK b \in Receipts(job[c].old) :
                IF b # NoBlock /\ job[c].r \notin Events(b)
                THEN Goto(c, "canonical") /\ Look(c, b, "replace")
                ELSE End(c)
        BY <1>2 DEF ReadOldReceipt
      <3>2. CASE b # NoBlock /\ job[c].r \notin Events(b)
        <4>1. b \in Block
          BY <3>2, ReceiptKnown
        <4> QED  BY <1>0, <3>1, <3>2, <4>1, GotoTyped, LookTyped DEF Places
      <3>3. CASE ~(b # NoBlock /\ job[c].r \notin Events(b))
        BY <1>0, <3>1, <3>3, EndTyped
      <3> QED  BY <3>2, <3>3
    <2> QED  BY <1>2, <2>1 DEF ReadOldReceipt, RedemptionTypeOK, ChainTypeOK, chainVars
  <1>3. CASE Replace(c)
    <2>1. row' \in [Redemptions -> Row]
      <3>1. CASE SameHash(c)
        <4>1. [status |-> row[job[c].r].status, tx |-> job[c].tx, event |-> row[job[c].r].event] \in Row
              \/ job[c].r \notin Redemptions
          BY <1>0 DEF RedemptionTypeOK, Row, Job
        <4> QED  BY <1>3, <3>1, <4>1 DEF Replace, RedemptionTypeOK
      <3>2. CASE ~SameHash(c)
        BY <1>3, <3>2 DEF Replace, RedemptionTypeOK
      <3> QED  BY <3>1, <3>2
    <2>2. pc' \in [Processes -> Places] /\ job' \in [Processes -> Job]
      <3>1. CASE SameHash(c)
        BY <1>0, <1>3, <3>1, GotoTyped DEF Replace, Places, RedemptionTypeOK
      <3>2. CASE ~SameHash(c)
        BY <1>0, <1>3, <3>2, EndTyped DEF Replace
      <3> QED  BY <3>1, <3>2
    <2> QED  BY <1>3, <2>1, <2>2 DEF Replace, RedemptionTypeOK, ChainTypeOK, chainVars
  <1>4. CASE Record(c)
    <2> DEFINE r == job[c].r
               fits == row[r].tx \in {NoTx, job[c].tx}
               s == IF row[r].status = "credited" THEN row[r].status ELSE "pending"
    <2>1. row' \in [Redemptions -> Row]
      <3>1. [status |-> s, tx |-> job[c].tx, event |-> row[r].event] \in Row \/ r \notin Redemptions
        BY <1>0 DEF RedemptionTypeOK, Row, Job
      <3> QED  BY <1>4, <3>1 DEF Record, RedemptionTypeOK
    <2>2. pc' \in [Processes -> Places] /\ job' \in [Processes -> Job]
      <3>1. CASE fits /\ row[r].status # "credited"
        BY <1>0, <1>4, <3>1, GotoTyped DEF Record, Places, RedemptionTypeOK
      <3>2. CASE ~(fits /\ row[r].status # "credited")
        BY <1>0, <1>4, <3>2, EndTyped DEF Record
      <3> QED  BY <3>1, <3>2
    <2> QED  BY <1>4, <2>1, <2>2 DEF Record, RedemptionTypeOK, ChainTypeOK, chainVars
  <1> QED  BY <1>1, <1>2, <1>3, <1>4

\* Each step of a verification keeps the type.
LEMMA TypeVerify ==
    ASSUME RedemptionTypeOK, NEW p \in Processes, Verify(p)
    PROVE  RedemptionTypeOK'
  <1>0. job[p] \in Job
    BY DEF RedemptionTypeOK
  <1>1. pc' \in [Processes -> Places] /\ job' \in [Processes -> Job]
    <2>1. CASE ReadReceipt(p)
      <3>1. PICK b \in Receipts(job[p].tx) :
                IF b = NoBlock THEN End(p)
                ELSE IF Treasury THEN Goto(p, "canonical") /\ Look(p, b, "judge")
                ELSE Goto(p, "judging") /\ Look(p, b, "credit")
        BY <2>1 DEF ReadReceipt
      <3>2. CASE b = NoBlock
        BY <3>1, <3>2, EndTyped
      <3>3. CASE b # NoBlock
        <4>1. b \in Block
          BY <3>3, ReceiptKnown
        <4> QED  BY <3>1, <3>3, <4>1, GotoTyped, LookTyped DEF Places
      <3> QED  BY <3>2, <3>3
    <2>2. CASE CheckCanonical(p)
      <3>1. CASE job[p].block \in canon
        BY <2>2, <3>1, GotoTyped DEF CheckCanonical, Places, RedemptionTypeOK
      <3>2. CASE job[p].block \notin canon
        BY <2>2, <3>2, EndTyped DEF CheckCanonical
      <3> QED  BY <3>1, <3>2
    <2>3. CASE CheckFinalized(p)
      <3>1. CASE ReachesFinality(p)
        BY <2>3, <3>1, GotoTyped DEF CheckFinalized, Places, RedemptionTypeOK
      <3>2. CASE ~ReachesFinality(p)
        BY <2>3, <3>2, EndTyped DEF CheckFinalized
      <3> QED  BY <3>1, <3>2
    <2>4. CASE Recheck(p)
      <3>1. CASE StillCanonical(p)
        BY <2>4, <3>1 DEF Recheck, Goto, Places, RedemptionTypeOK
      <3>2. CASE ~StillCanonical(p)
        BY <2>4, <3>2, EndTyped DEF Recheck
      <3> QED  BY <3>1, <3>2
    <2>5. CASE Judge(p)
      <3>1. CASE job[p].r \in Events(job[p].block)
        <4>1. job[p].block \in Block \cup {NoBlock}
          BY <1>0 DEF Job
        <4> QED  BY <2>5, <3>1, <4>1, GotoTyped, LookTyped DEF Judge, Places
      <3>2. CASE job[p].r \notin Events(job[p].block)
        BY <2>5, <3>2, EndTyped DEF Judge
      <3> QED  BY <3>1, <3>2
    <2>6. CASE Credit(p)
      BY <2>6, EndTyped DEF Credit
    <2> QED  BY <2>1, <2>2, <2>3, <2>4, <2>5, <2>6 DEF Verify
  <1>2. UNCHANGED <<chainVars, queue, outages>> /\ row' \in [Redemptions -> Row]
    <2>1. CASE Credit(p)
      <3>1. \A r \in Redemptions :
                [status |-> "credited", tx |-> row[r].tx, event |-> job[p].tx] \in Row
        BY <1>0 DEF RedemptionTypeOK, Row, Job
      <3> QED  BY <2>1, <3>1 DEF Credit, RedemptionTypeOK
    <2>2. CASE ReadReceipt(p) \/ CheckCanonical(p) \/ CheckFinalized(p) \/ Recheck(p) \/ Judge(p)
      BY <2>2 DEF ReadReceipt, CheckCanonical, CheckFinalized, Recheck, Judge, RedemptionTypeOK
    <2> QED  BY <2>1, <2>2, <1>0 DEF Verify
  <1> QED  BY <1>1, <1>2 DEF RedemptionTypeOK, ChainTypeOK, chainVars

\* The tick lists only rows that have a hash.
LEMMA TypeTick ==
    ASSUME RedemptionTypeOK, RowsHashed, StartReconciling \/ TakeNext
    PROVE  RedemptionTypeOK'
  <1>0. Ticker \in Processes
    BY DEF Processes
  <1>1. CASE StartReconciling
    <2>1. PendingRows \subseteq Redemptions \X Txs
      BY DEF PendingRows, RowsHashed
    <2> QED  BY <1>1, <2>1 DEF StartReconciling, RedemptionTypeOK, ChainTypeOK, chainVars
  <1>2. CASE TakeNext
    <2>1. PICK e \in queue :
              /\ queue' = queue \ {e}
              /\ job' = [job EXCEPT ![Ticker] = Work(e[1], e[2], NoTx, NoBlock, "none")]
      BY <1>2 DEF TakeNext
    <2>2. Work(e[1], e[2], NoTx, NoBlock, "none") \in Job
      BY <2>1 DEF Work, Job, RedemptionTypeOK
    <2>3. job' \in [Processes -> Job] /\ queue' \subseteq Redemptions \X Txs
      BY <2>1, <2>2 DEF RedemptionTypeOK
    <2>4. pc' \in [Processes -> Places]
      BY <1>0, <1>2, GotoTyped DEF TakeNext, Places
    <2> QED  BY <1>2, <2>3, <2>4 DEF TakeNext, RedemptionTypeOK, ChainTypeOK, chainVars
  <1> QED  BY <1>1, <1>2

\* What happens elsewhere: an intent, a failed call, a restart, the chain.
LEMMA TypeRest ==
    ASSUME RedemptionTypeOK, OneCanonical,
           \/ \E r \in Redemptions : Start(r)
           \/ \E p \in Processes : CallFails(p)
           \/ Restart
           \/ ChainNext /\ UNCHANGED <<row, pc, job, queue, outages>>
    PROVE  RedemptionTypeOK'
  <1>1. ASSUME NEW r \in Redemptions, Start(r)  PROVE RedemptionTypeOK'
    <2>1. [status |-> "created", tx |-> NoTx, event |-> NoTx] \in Row
      BY DEF Row
    <2> QED  BY <1>1, <2>1 DEF Start, RedemptionTypeOK, ChainTypeOK, chainVars
  <1>2. ASSUME NEW p \in Processes, CallFails(p)  PROVE RedemptionTypeOK'
    BY <1>2, EndTyped, RedemptionAssumption DEF CallFails, RedemptionTypeOK, ChainTypeOK, chainVars
  <1>3. CASE Restart
    BY <1>3, RedemptionAssumption DEF Restart, RedemptionTypeOK, ChainTypeOK, chainVars, NoJob, Job, Places
  <1>4. CASE ChainNext /\ UNCHANGED <<row, pc, job, queue, outages>>
    <2>1. ChainTypeOK'
      BY <1>4, ChainTyped DEF RedemptionTypeOK, ChainMoves
    <2> QED  BY <1>4, <2>1 DEF RedemptionTypeOK
  <1> QED  BY <1>1, <1>2, <1>3, <1>4

\* Every step keeps the type.
LEMMA TypeStep ==
    ASSUME RedemptionTypeOK, OneCanonical, RowsHashed, [RedemptionNext]_redemptionVars
    PROVE  RedemptionTypeOK'
  <1>1. CASE UNCHANGED redemptionVars
    BY <1>1 DEF redemptionVars, RedemptionTypeOK, ChainTypeOK
  <1> QED  BY <1>1, TypeClient, TypeVerify, TypeTick, TypeRest DEF RedemptionNext

-----------------------------------------------------------------------------
(* What handlers know stays true while others move *)

\* A row's hash changes only when it had none or had a useless one.
RowsMoveOn ==
    \A r \in Redemptions :
        row'[r].tx = row[r].tx \/ row[r].tx = NoTx \/ Useless(row[r].tx, r)

\* A hash that is current or useless stays so, though rows and chain move on.
LEMMA CurrentStays ==
    ASSUME SafeInv, ChainMoves, RowsMoveOn, NEW r \in Redemptions, NEW t \in Txs,
           CurrentOrUseless(r, t)
    PROVE  CurrentOrUseless(r, t)'
  <1>1. CASE Useless(t, r)
    BY <1>1, UselessStays DEF SafeInv, RedemptionTypeOK, CurrentOrUseless
  <1>2. CASE row[r].tx = t /\ ~Useless(t, r)
    BY <1>2, ChainAssumption DEF RowsMoveOn, CurrentOrUseless
  <1> QED  BY <1>1, <1>2 DEF CurrentOrUseless

\* A handler that does not move keeps all it knows.
LEMMA JobKept ==
    ASSUME SafeInv, ChainMoves, RowsMoveOn, NEW p \in Processes,
           pc'[p] = pc[p], job'[p] = job[p]
    PROVE  JobInv(p)'
  <1>0. JobInv(p) /\ ChainTypeOK
    BY DEF SafeInv, RedemptionTypeOK
  <1>1. JobNamed(p)' /\ GoalKnown(p)'
    BY <1>0 DEF JobInv, JobNamed, GoalKnown
  <1>2. BlockKnown(p)'
    BY <1>0, FinalStays DEF JobInv, BlockKnown
  <1>3. EvidenceHeld(p)'
    BY <1>0 DEF JobInv, EvidenceHeld, Events
  <1>4. FinalitySeen(p)'
    <2>1. job[p].block \in minted => job[p].block.height \in Nat
      BY <1>0 DEF ChainTypeOK, Block
    <2>2. finalized \in Nat /\ finalized' >= finalized /\ finalized' \in Nat
      <3>1. ChainTypeOK'
        BY ChainTyped DEF SafeInv, RedemptionTypeOK
      <3> QED  BY <1>0, <3>1, FinalStays DEF ChainTypeOK
    <2>3. pc[p] \in {"recheck", "replacing", "crediting"} => job[p].block \in minted
      BY <1>0 DEF JobInv, BlockKnown, Looking
    <2> QED  BY <1>0, <2>1, <2>2, <2>3, FinalStays DEF JobInv, FinalitySeen, Final
  <1>5. HashCurrent(p)'
    <2> SUFFICES ASSUME Verifying(p)  PROVE CurrentOrUseless(job[p].r, job[p].tx)'
      BY DEF HashCurrent, Verifying, CurrentOrUseless, Useless, Final
    <2>1. job[p].r \in Redemptions /\ job[p].tx \in Txs /\ CurrentOrUseless(job[p].r, job[p].tx)
      BY <1>0 DEF JobInv, JobNamed, HashCurrent, Verifying, Looking
    <2> QED  BY <2>1, CurrentStays
  <1> QED  BY <1>1, <1>2, <1>3, <1>4, <1>5 DEF JobInv

\* A handler that has answered knows nothing.
LEMMA JobEnded ==
    ASSUME NEW p, pc'[p] = "idle"
    PROVE  JobInv(p)'
  BY DEF JobInv, JobNamed, BlockKnown, GoalKnown, EvidenceHeld, FinalitySeen, HashCurrent,
         Verifying, Looking

\* What the tick still has to verify stays current or useless.
LEMMA QueueKept ==
    ASSUME SafeInv, ChainMoves, RowsMoveOn, queue' \subseteq queue
    PROVE  QueueInv'
  <1>1. \A e \in queue : e[1] \in Redemptions /\ e[2] \in Txs
    BY DEF SafeInv, RedemptionTypeOK
  <1> QED  BY <1>1, CurrentStays DEF SafeInv, QueueInv

\* A credited redemption stays final.
CreditedFor(r) ==
    row[r].status = "credited" =>
        \E b \in minted : Final(b) /\ r \in Events(b) /\ b.tx = row[r].event /\ b.tx = row[r].tx

\* A credited row that nobody writes stays final.
LEMMA CreditKept ==
    ASSUME SafeInv, ChainMoves, NEW r \in Redemptions, row'[r] = row[r]
    PROVE  CreditedFor(r)'
  <1> SUFFICES ASSUME row[r].status = "credited"  PROVE CreditedFor(r)'
    BY DEF CreditedFor
  <1>1. PICK b \in minted :
            Final(b) /\ r \in Events(b) /\ b.tx = row[r].event /\ b.tx = row[r].tx
    BY DEF SafeInv, CreditedIsFinal
  <1>2. b \in minted' /\ b \in canon' /\ b.height <= finalized'
    BY <1>1, FinalStays DEF SafeInv, RedemptionTypeOK
  <1> QED  BY <1>1, <1>2 DEF CreditedFor, Final, Events

\* Nobody but p moves.
OthersWait(p) == \A q \in Processes \ {p} : pc'[q] = pc[q] /\ job'[q] = job[q]

\* A step of one handler keeps the invariant when what the handler knows
\* afterwards is true, and its write to the rows is sound.
LEMMA HandlerStep ==
    ASSUME SafeInv, RedemptionTypeOK', UNCHANGED chainVars, NEW p \in Processes, OthersWait(p),
           queue' \subseteq queue, RowsMoveOn, JobInv(p)', RowsHashed',
           \A r \in Redemptions : CreditedFor(r)'
    PROVE  SafeInv'
  <1>1. ChainMoves
    BY DEF ChainMoves
  <1>2. OneCanonical'
    BY <1>1, ChainTyped DEF SafeInv, RedemptionTypeOK
  <1>3. \A q \in Processes : JobInv(q)'
    BY <1>1, JobKept DEF OthersWait
  <1>4. QueueInv'
    BY <1>1, QueueKept
  <1>5. CreditedIsFinal'
    BY DEF CreditedFor, CreditedIsFinal
  <1> QED  BY <1>2, <1>3, <1>4, <1>5 DEF SafeInv

\* A step that only reads keeps the invariant when the reader knows the truth.
LEMMA ReadingStep ==
    ASSUME SafeInv, RedemptionTypeOK', UNCHANGED <<chainVars, row>>, NEW p \in Processes, OthersWait(p),
           queue' \subseteq queue, JobInv(p)'
    PROVE  SafeInv'
  <1>1. RowsMoveOn /\ RowsHashed'
    BY DEF SafeInv, RowsMoveOn, RowsHashed
  <1>2. \A r \in Redemptions : CreditedFor(r)'
    BY CreditKept DEF ChainMoves
  <1> QED  BY <1>1, <1>2, HandlerStep

\* A handler that answers leaves the others as they are.
LEMMA EndMoves ==
    ASSUME SafeInv, NEW p \in Processes, End(p)
    PROVE  OthersWait(p) /\ JobInv(p)'
  <1>1. pc'[p] = "idle" /\ OthersWait(p)
    BY DEF SafeInv, RedemptionTypeOK, End, OthersWait
  <1> QED  BY <1>1, JobEnded

\* Submissions, up to the hash they may replace.
LEMMA SafeSubmit ==
    ASSUME SafeInv, RedemptionTypeOK', NEW c \in Clients,
           NEW r \in Redemptions, NEW t \in Txs, Submit(c, r, t)
    PROVE  SafeInv'
  <1>0. c \in Processes
    BY DEF Processes
  <1>1. OthersWait(c)
    BY <1>0 DEF Submit, Goto, OthersWait, SafeInv, RedemptionTypeOK
  <1>2. /\ pc'[c] \in {"recording", "oldReceipt"}
        /\ job'[c].r = r /\ job'[c].tx = t
    BY <1>0 DEF Submit, Goto, Work, SafeInv, RedemptionTypeOK
  <1>3. JobInv(c)'
    BY <1>2 DEF JobInv, JobNamed, BlockKnown, GoalKnown, EvidenceHeld, FinalitySeen, HashCurrent,
                Verifying, Looking
  <1> QED  BY <1>0, <1>1, <1>3, ReadingStep DEF Submit

\* Reading the recorded receipt: only evidence of a useless hash goes on.
LEMMA SafeReadOldReceipt ==
    ASSUME SafeInv, RedemptionTypeOK', NEW c \in Clients, ReadOldReceipt(c)
    PROVE  SafeInv'
  <1>0. c \in Processes /\ JobInv(c) /\ job[c] \in Job
    BY DEF Processes, SafeInv, RedemptionTypeOK
  <1>1. PICK b \in Receipts(job[c].old) :
            IF b # NoBlock /\ job[c].r \notin Events(b)
            THEN Goto(c, "canonical") /\ Look(c, b, "replace")
            ELSE End(c)
    BY DEF ReadOldReceipt
  <1>2. OthersWait(c) /\ JobInv(c)'
    <2>1. CASE b # NoBlock /\ job[c].r \notin Events(b)
      <3>1. b \in minted /\ b.tx = job[c].old
        BY <2>1, ReceiptKnown DEF SafeInv
      <3>2. OthersWait(c)
        BY <1>1, <2>1, <1>0 DEF Goto, Look, OthersWait, SafeInv, RedemptionTypeOK
      <3>3. /\ pc'[c] = "canonical"
            /\ job'[c].r = job[c].r /\ job'[c].tx = job[c].tx /\ job'[c].old = job[c].old
            /\ job'[c].block = b /\ job'[c].goal = "replace"
        BY <1>1, <2>1, <1>0 DEF Goto, Look, Work, SafeInv, RedemptionTypeOK
      <3>4. job[c].r \in Redemptions /\ job[c].tx \in Txs
        BY <1>0 DEF ReadOldReceipt, JobInv, JobNamed
      <3>5. job'[c].block \in minted' /\ job'[c].block.tx = job'[c].old
            /\ job'[c].r \notin Events(b)
        BY <2>1, <3>1, <3>3 DEF ReadOldReceipt, chainVars
      <3>6. EvidenceHeld(c)'
        BY <3>3, <3>5 DEF EvidenceHeld, Events
      <3>7. JobInv(c)'
        BY <3>3, <3>4, <3>5, <3>6 DEF JobInv, JobNamed, BlockKnown, GoalKnown, FinalitySeen,
                                      HashCurrent, Verifying, Looking
      <3> QED  BY <3>2, <3>7
    <2>2. CASE ~(b # NoBlock /\ job[c].r \notin Events(b))
      BY <1>0, <1>1, <2>2, EndMoves
    <2> QED  BY <2>1, <2>2
  <1> QED  BY <1>0, <1>2, ReadingStep DEF ReadOldReceipt

\* A hash is replaced only on the strength of a final, useless transaction.
LEMMA ReplaceSound ==
    ASSUME SafeInv, NEW c \in Processes, pc[c] = "replacing"
    PROVE  Useless(job[c].old, job[c].r)
  <1>1. JobInv(c)
    BY DEF SafeInv
  <1>2. /\ job[c].block \in minted /\ Final(job[c].block)
        /\ job[c].block.tx = job[c].old /\ job[c].r \notin Events(job[c].block)
    BY <1>1 DEF JobInv, BlockKnown, GoalKnown, EvidenceHeld, FinalitySeen
  <1> QED  BY <1>2 DEF Useless

\* Replacing a hash turns whoever verifies the old one to a useless hash.
LEMMA SafeReplace ==
    ASSUME SafeInv, RedemptionTypeOK', NEW c \in Clients, Replace(c)
    PROVE  SafeInv'
  <1>0. c \in Processes /\ JobInv(c) /\ job[c] \in Job /\ RedemptionTypeOK
    BY DEF Processes, SafeInv, RedemptionTypeOK
  <1>1. job[c].r \in Redemptions /\ job[c].tx \in Txs
    BY <1>0 DEF Replace, JobInv, JobNamed
  <1>2. CASE SameHash(c)
    <2> DEFINE r0 == job[c].r
    <2>1. /\ row[r0].status = "pending" /\ row[r0].tx = job[c].old
          /\ row' = [row EXCEPT ![r0] =
                       [status |-> row[r0].status, tx |-> job[c].tx, event |-> row[r0].event]]
          /\ Goto(c, "recording") /\ job' = job
      BY <1>2 DEF Replace, SameHash
    <2>2. RowsMoveOn
      <3>1. Useless(job[c].old, r0)
        BY <1>0, ReplaceSound DEF Replace
      <3> QED  BY <1>0, <2>1, <3>1 DEF RowsMoveOn, RedemptionTypeOK
    <2>3. RowsHashed'
      BY <1>0, <1>1, <2>1 DEF RowsHashed, SafeInv, RedemptionTypeOK
    <2>4. ASSUME NEW r \in Redemptions  PROVE CreditedFor(r)'
      <3>1. CASE r = r0
        BY <1>0, <2>1, <3>1 DEF CreditedFor, RedemptionTypeOK
      <3>2. CASE r # r0
        BY <1>0, <2>1, <3>2, CreditKept DEF Replace, ChainMoves, RedemptionTypeOK
      <3> QED  BY <3>1, <3>2
    <2>5. OthersWait(c) /\ pc'[c] = "recording"
      BY <1>0, <2>1 DEF Goto, OthersWait, RedemptionTypeOK
    <2>6. JobInv(c)'
      BY <1>1, <2>1, <2>5 DEF JobInv, JobNamed, BlockKnown, GoalKnown, EvidenceHeld, FinalitySeen,
                              HashCurrent, Verifying, Looking
    <2> QED  BY <1>0, <2>2, <2>3, <2>4, <2>5, <2>6, HandlerStep DEF Replace
  <1>3. CASE ~SameHash(c)
    BY <1>0, <1>3, EndMoves, ReadingStep DEF Replace
  <1> QED  BY <1>2, <1>3

\* Recording a hash touches only a row that had none, or the same.
LEMMA SafeRecord ==
    ASSUME SafeInv, RedemptionTypeOK', NEW c \in Clients, Record(c)
    PROVE  SafeInv'
  <1>0. c \in Processes /\ JobInv(c) /\ job[c] \in Job /\ RedemptionTypeOK
    BY DEF Processes, SafeInv, RedemptionTypeOK
  <1>1. job[c].r \in Redemptions /\ job[c].tx \in Txs
    BY <1>0 DEF Record, JobInv, JobNamed
  <1> DEFINE r0 == job[c].r
             s == IF row[r0].status = "credited" THEN row[r0].status ELSE "pending"
  <1>2. CASE row[r0].tx \in {NoTx, job[c].tx}
    <2>1. row' = [row EXCEPT ![r0] = [status |-> s, tx |-> job[c].tx, event |-> row[r0].event]]
      BY <1>2 DEF Record
    <2>2. RowsMoveOn
      BY <1>0, <1>2, <2>1 DEF RowsMoveOn, RedemptionTypeOK
    <2>3. RowsHashed'
      BY <1>0, <1>1, <2>1 DEF RowsHashed, SafeInv, RedemptionTypeOK
    <2>4. ASSUME NEW r \in Redemptions  PROVE CreditedFor(r)'
      <3>1. CASE r = r0 /\ row[r].status = "credited"
        <4>1. row[r].tx # NoTx
          BY <3>1, EventsTx, ChainAssumption DEF SafeInv, CreditedIsFinal
        <4>2. row'[r] = [status |-> row[r].status, tx |-> row[r].tx, event |-> row[r].event]
          BY <1>0, <1>2, <2>1, <3>1, <4>1 DEF RedemptionTypeOK
        <4>3. row'[r] = row[r]
          BY <1>0, <4>2 DEF RedemptionTypeOK, Row
        <4> QED  BY <4>3, CreditKept DEF Record, ChainMoves
      <3>2. CASE r = r0 /\ row[r].status # "credited"
        BY <1>0, <2>1, <3>2 DEF CreditedFor, RedemptionTypeOK
      <3>3. CASE r # r0
        BY <1>0, <2>1, <3>3, CreditKept DEF Record, ChainMoves, RedemptionTypeOK
      <3> QED  BY <3>1, <3>2, <3>3
    <2>5. OthersWait(c) /\ JobInv(c)'
      <3>1. CASE row[r0].status = "credited"
        BY <1>0, <1>2, <3>1, EndMoves DEF Record
      <3>2. CASE row[r0].status # "credited"
        <4>1. pc' = [pc EXCEPT ![c] = "receipt"] /\ job' = job
          BY <1>2, <3>2 DEF Record, Goto
        <4>2. row'[r0].tx = job[c].tx
          BY <1>0, <1>1, <2>1 DEF RedemptionTypeOK
        <4>3. OthersWait(c) /\ pc'[c] = "receipt"
          BY <1>0, <4>1 DEF OthersWait, RedemptionTypeOK
        <4>4. CurrentOrUseless(job[c].r, job[c].tx)'
          BY <4>1, <4>2 DEF CurrentOrUseless
        <4>5. JobInv(c)'
          BY <1>1, <4>1, <4>3, <4>4 DEF JobInv, JobNamed, BlockKnown, GoalKnown, EvidenceHeld,
                                        FinalitySeen, HashCurrent, Looking
        <4> QED  BY <4>3, <4>5
      <3> QED  BY <3>1, <3>2
    <2> QED  BY <1>0, <2>2, <2>3, <2>4, <2>5, HandlerStep DEF Record
  <1>3. CASE row[r0].tx \notin {NoTx, job[c].tx}
    BY <1>0, <1>3, EndMoves, ReadingStep DEF Record
  <1> QED  BY <1>2, <1>3

\* The tick's list holds hashes of pending rows; each may be stale in its turn.
LEMMA SafeTick ==
    ASSUME SafeInv, RedemptionTypeOK', StartReconciling \/ TakeNext
    PROVE  SafeInv'
  <1>0. Ticker \in Processes /\ RedemptionTypeOK /\ JobInv(Ticker)
    BY DEF Processes, SafeInv
  <1>1. CASE StartReconciling
    <2>1. QueueInv'
      BY <1>1 DEF StartReconciling, QueueInv, PendingRows, CurrentOrUseless
    <2>2. ChainMoves /\ RowsMoveOn /\ pc' = pc /\ job' = job
      BY <1>1 DEF StartReconciling, ChainMoves, RowsMoveOn
    <2>3. \A q \in Processes : JobInv(q)'
      BY <2>2, JobKept
    <2>4. OneCanonical' /\ RowsHashed'
      BY <1>1, <2>2, ChainTyped DEF StartReconciling, SafeInv, RowsHashed, RedemptionTypeOK
    <2>5. CreditedIsFinal'
      BY <1>1, <2>2, CreditKept DEF StartReconciling, CreditedFor, CreditedIsFinal
    <2> QED  BY <2>1, <2>3, <2>4, <2>5 DEF SafeInv
  <1>2. CASE TakeNext
    <2>1. PICK e \in queue :
              /\ queue' = queue \ {e}
              /\ job' = [job EXCEPT ![Ticker] = Work(e[1], e[2], NoTx, NoBlock, "none")]
      BY <1>2 DEF TakeNext
    <2>2. OthersWait(Ticker)
      BY <1>0, <1>2, <2>1 DEF TakeNext, Goto, OthersWait, RedemptionTypeOK
    <2>3. pc'[Ticker] = "receipt" /\ job'[Ticker].r = e[1] /\ job'[Ticker].tx = e[2]
      BY <1>0, <1>2, <2>1 DEF TakeNext, Goto, Work, RedemptionTypeOK
    <2>4. e[1] \in Redemptions /\ e[2] \in Txs /\ CurrentOrUseless(e[1], e[2])
      BY <2>1 DEF SafeInv, QueueInv, RedemptionTypeOK
    <2>5. CurrentOrUseless(e[1], e[2])'
      BY <1>2, <2>4, CurrentStays DEF TakeNext, ChainMoves, RowsMoveOn
    <2>6. JobInv(Ticker)'
      BY <2>3, <2>4, <2>5 DEF JobInv, JobNamed, BlockKnown, GoalKnown, EvidenceHeld, FinalitySeen,
                              HashCurrent, CurrentOrUseless, Looking
    <2> QED  BY <1>0, <1>2, <2>1, <2>2, <2>6, ReadingStep DEF TakeNext
  <1> QED  BY <1>1, <1>2

-----------------------------------------------------------------------------
(* Verification, read by read *)

\* The receipt read for a hash is of that hash.
LEMMA KnowsReceipt ==
    ASSUME SafeInv, RedemptionTypeOK', NEW p \in Processes, ReadReceipt(p)
    PROVE  OthersWait(p) /\ JobInv(p)'
  <1>0. JobInv(p) /\ RedemptionTypeOK
    BY DEF SafeInv
  <1>1. PICK b \in Receipts(job[p].tx) :
            IF b = NoBlock THEN End(p)
            ELSE IF Treasury THEN Goto(p, "canonical") /\ Look(p, b, "judge")
            ELSE Goto(p, "judging") /\ Look(p, b, "credit")
    BY DEF ReadReceipt
  <1>2. CASE b = NoBlock
    BY <1>1, <1>2, EndMoves
  <1>3. CASE b # NoBlock
    <2>1. b \in minted /\ b \in minted' /\ b.tx = job[p].tx
      BY <1>0, <1>3, ReceiptKnown DEF ReadReceipt, chainVars
    <2>2. OthersWait(p)
      BY <1>0, <1>1, <1>3 DEF Goto, Look, OthersWait, RedemptionTypeOK
    <2>3. /\ \/ pc'[p] = "canonical" /\ job'[p].goal = "judge"
             \/ pc'[p] = "judging" /\ job'[p].goal = "credit"
          /\ job'[p].r = job[p].r /\ job'[p].tx = job[p].tx /\ job'[p].block = b
      BY <1>0, <1>1, <1>3 DEF Goto, Look, Work, RedemptionTypeOK
    <2>4. job[p].r \in Redemptions /\ job[p].tx \in Txs /\ CurrentOrUseless(job[p].r, job[p].tx)
      BY <1>0 DEF ReadReceipt, JobInv, JobNamed, HashCurrent, Verifying
    <2>5. CurrentOrUseless(job[p].r, job[p].tx)'
      <3>1. ChainMoves /\ RowsMoveOn
        BY DEF ReadReceipt, ChainMoves, RowsMoveOn
      <3>2. CurrentOrUseless(job[p].r, job[p].tx)
            => \A r \in Redemptions, t \in Txs :
                  r = job[p].r /\ t = job[p].tx => CurrentOrUseless(r, t)'
        BY <3>1, CurrentStays
      <3> QED  BY <2>3, <2>4, <3>2
    <2>6. JobInv(p)'
      BY <2>1, <2>3, <2>4, <2>5 DEF JobInv, JobNamed, BlockKnown, GoalKnown, EvidenceHeld,
                                    FinalitySeen, HashCurrent, Looking
    <2> QED  BY <2>2, <2>6
  <1> QED  BY <1>2, <1>3

\* From one read of finalizedReceipt to the next only finality is learned.
LEMMA KnowsMore ==
    ASSUME SafeInv, UNCHANGED <<chainVars, row>>, NEW p \in Processes, job' = job,
           \/ pc[p] = "canonical" /\ pc' = [pc EXCEPT ![p] = "finalized"]
           \/ /\ pc[p] = "finalized" /\ pc' = [pc EXCEPT ![p] = "recheck"]
              /\ finalized >= job[p].block.height
    PROVE  OthersWait(p) /\ JobInv(p)'
  <1>0. JobInv(p) /\ RedemptionTypeOK
    BY DEF SafeInv
  <1>1. OthersWait(p) /\ pc[p] \in Looking /\ pc'[p] \in Looking /\ pc'[p] # "canonical"
    BY <1>0 DEF OthersWait, RedemptionTypeOK, Looking
  <1>2. JobNamed(p)' /\ BlockKnown(p)' /\ GoalKnown(p)' /\ EvidenceHeld(p)'
    BY <1>0, <1>1 DEF JobInv, JobNamed, BlockKnown, GoalKnown, EvidenceHeld, Looking, chainVars
  <1>3. FinalitySeen(p)'
    BY <1>0, <1>1 DEF FinalitySeen, Looking, chainVars, RedemptionTypeOK
  <1>4. HashCurrent(p)'
    BY <1>0, <1>1 DEF JobInv, HashCurrent, Verifying, CurrentOrUseless, Useless, Final, Looking, chainVars
  <1> QED  BY <1>1, <1>2, <1>3, <1>4 DEF JobInv

\* The last look: what is canonical and below the tag is final.
LEMMA KnowsFinal ==
    ASSUME SafeInv, RedemptionTypeOK', NEW p \in Processes, Recheck(p)
    PROVE  OthersWait(p) /\ JobInv(p)'
  <1>0. JobInv(p) /\ RedemptionTypeOK /\ job[p] \in Job
    BY DEF SafeInv, RedemptionTypeOK
  <1>1. CASE ~StillCanonical(p)
    BY <1>1, EndMoves DEF Recheck
  <1>2. CASE StillCanonical(p)
    <2> DEFINE next == CASE job[p].goal = "replace" -> "replacing"
                         [] job[p].goal = "judge"   -> "judging"
                         [] OTHER                   -> "crediting"
    <2>1. pc' = [pc EXCEPT ![p] = next] /\ job' = job
      BY <1>2 DEF Recheck, Goto
    <2>2. /\ job[p].goal = "replace" => next = "replacing"
          /\ job[p].goal = "judge" => next = "judging"
          /\ job[p].goal = "credit" => next = "crediting"
      OBVIOUS
    <2>3. job[p].goal \in {"replace", "judge", "credit"}
      BY <1>0 DEF JobInv, GoalKnown, Recheck, Job, Looking
    <2> HIDE DEF next
    <2>4. /\ pc'[p] = next /\ OthersWait(p)
          /\ pc[p] = "recheck" /\ minted' = minted /\ canon' = canon /\ finalized' = finalized /\ row' = row
      BY <1>0, <2>1 DEF OthersWait, RedemptionTypeOK, Recheck, chainVars
    <2>5. job[p].block \in minted /\ Final(job[p].block)
      BY <1>0, <1>2, <2>4 DEF JobInv, BlockKnown, FinalitySeen, Final, StillCanonical, Looking,
                              RedemptionTypeOK, ChainTypeOK, Block
    <2>6. JobNamed(p)' /\ BlockKnown(p)' /\ GoalKnown(p)' /\ EvidenceHeld(p)'
      BY <1>0, <2>1, <2>2, <2>3, <2>4
         DEF JobInv, JobNamed, BlockKnown, GoalKnown, EvidenceHeld, Looking
    <2>7. FinalitySeen(p)'
      BY <2>1, <2>2, <2>3, <2>4, <2>5 DEF FinalitySeen, Final
    <2>8. HashCurrent(p)'
      BY <1>0, <2>1, <2>2, <2>3, <2>4
         DEF JobInv, HashCurrent, Verifying, CurrentOrUseless, Useless, Final, Looking
    <2> QED  BY <2>4, <2>6, <2>7, <2>8 DEF JobInv
  <1> QED  BY <1>1, <1>2

\* A handler goes on to credit only on a receipt with the row's own event.
LEMMA KnowsEvent ==
    ASSUME SafeInv, RedemptionTypeOK', NEW p \in Processes, Judge(p)
    PROVE  OthersWait(p) /\ JobInv(p)'
  <1>0. JobInv(p) /\ RedemptionTypeOK
    BY DEF SafeInv
  <1>1. CASE job[p].r \notin Events(job[p].block)
    BY <1>1, EndMoves DEF Judge
  <1>2. CASE job[p].r \in Events(job[p].block)
    <2>1. /\ pc' = [pc EXCEPT ![p] = "canonical"]
          /\ job' = [job EXCEPT ![p] =
                       Work(job[p].r, job[p].tx, job[p].old, job[p].block, "credit")]
          /\ pc[p] = "judging" /\ minted' = minted /\ canon' = canon /\ finalized' = finalized /\ row' = row
      BY <1>2 DEF Judge, Goto, Look, chainVars
    <2>2. /\ pc'[p] = "canonical" /\ OthersWait(p)
          /\ job'[p].r = job[p].r /\ job'[p].tx = job[p].tx
          /\ job'[p].block = job[p].block /\ job'[p].goal = "credit"
      BY <1>0, <2>1 DEF OthersWait, RedemptionTypeOK, Work
    <2>3. /\ job[p].r \in Redemptions /\ job[p].tx \in Txs /\ job[p].block \in minted
          /\ job[p].block.tx = job[p].tx /\ CurrentOrUseless(job[p].r, job[p].tx)
      BY <1>0, <2>1 DEF JobInv, JobNamed, BlockKnown, GoalKnown, EvidenceHeld, HashCurrent, Verifying
    <2>4. EvidenceHeld(p)'
      BY <1>2, <2>2, <2>3 DEF EvidenceHeld, Events
    <2>5. HashCurrent(p)'
      BY <2>1, <2>2, <2>3 DEF HashCurrent, CurrentOrUseless, Useless, Final
    <2>6. JobNamed(p)' /\ BlockKnown(p)' /\ GoalKnown(p)' /\ FinalitySeen(p)'
      BY <2>1, <2>2, <2>3 DEF JobNamed, BlockKnown, GoalKnown, FinalitySeen, Looking
    <2> QED  BY <2>2, <2>4, <2>5, <2>6 DEF JobInv
  <1> QED  BY <1>1, <1>2

\* Whoever reaches the crediting step holds the final redemption by the row's
\* own transaction: a replaced hash is useless, and a transaction is canonical
\* in one block only.
LEMMA CreditSound ==
    ASSUME SafeInv, NEW p \in Processes, pc[p] = "crediting"
    PROVE  /\ job[p].r \in Redemptions /\ job[p].block \in minted /\ Final(job[p].block)
           /\ job[p].r \in Events(job[p].block)
           /\ job[p].block.tx = job[p].tx /\ row[job[p].r].tx = job[p].tx
  <1>0. JobInv(p)
    BY DEF SafeInv
  <1>1. /\ job[p].r \in Redemptions /\ job[p].block \in minted /\ Final(job[p].block)
        /\ job[p].r \in Events(job[p].block)
        /\ job[p].block.tx = job[p].tx
        /\ CurrentOrUseless(job[p].r, job[p].tx)
    BY <1>0 DEF JobInv, JobNamed, BlockKnown, GoalKnown, EvidenceHeld, FinalitySeen, HashCurrent, Verifying
  <1>2. ~Useless(job[p].tx, job[p].r)
    <2> SUFFICES ASSUME NEW b \in minted, Final(b), b.tx = job[p].tx, job[p].r \notin Events(b)
                 PROVE  FALSE
      BY DEF Useless
    <2>1. job[p].tx # NoTx
      BY <1>1, EventsTx, ChainAssumption
    <2>2. b = job[p].block
      BY <1>1, <2>1 DEF SafeInv, OneCanonical, Final
    <2> QED  BY <1>1, <2>2
  <1> QED  BY <1>1, <1>2 DEF CurrentOrUseless

\* Crediting makes no row credited that is not final.
LEMMA SafeCredit ==
    ASSUME SafeInv, RedemptionTypeOK', NEW p \in Processes, Credit(p)
    PROVE  SafeInv'
  <1> DEFINE r0 == job[p].r
  <1>0. RedemptionTypeOK /\ OthersWait(p) /\ JobInv(p)'
    BY EndMoves DEF SafeInv, Credit
  <1>1. /\ r0 \in Redemptions /\ job[p].block \in minted /\ Final(job[p].block)
        /\ r0 \in Events(job[p].block)
        /\ job[p].block.tx = job[p].tx /\ row[r0].tx = job[p].tx
    BY CreditSound DEF Credit
  <1>2. CASE row[r0].status = "pending"
    <2>1. row' = [row EXCEPT ![r0] =
                    [status |-> "credited", tx |-> row[r0].tx, event |-> job[p].tx]]
      BY <1>2 DEF Credit
    <2>2. RowsMoveOn /\ RowsHashed'
      BY <1>0, <2>1 DEF RowsMoveOn, RowsHashed, SafeInv, RedemptionTypeOK
    <2>3. ASSUME NEW r \in Redemptions  PROVE CreditedFor(r)'
      <3>1. CASE r = r0
        <4>1. row'[r].tx = job[p].tx /\ row'[r].event = job[p].tx
          BY <1>0, <1>1, <2>1, <3>1 DEF RedemptionTypeOK
        <4>2. PICK b \in minted : b = job[p].block
          BY <1>1
        <4>3. /\ b \in minted' /\ Final(b)' /\ r \in Events(b)
              /\ b.tx = job[p].tx
          BY <1>1, <3>1, <4>2 DEF Credit, chainVars, Final
        <4> QED  BY <4>1, <4>3 DEF CreditedFor, Events
      <3>2. CASE r # r0
        BY <1>0, <2>1, <3>2, CreditKept DEF Credit, ChainMoves, RedemptionTypeOK
      <3> QED  BY <3>1, <3>2
    <2> QED  BY <1>0, <2>2, <2>3, HandlerStep DEF Credit
  <1>3. CASE row[r0].status # "pending"
    BY <1>0, <1>3, ReadingStep DEF Credit
  <1> QED  BY <1>2, <1>3

\* Each step of a verification keeps the invariant.
LEMMA SafeVerify ==
    ASSUME SafeInv, RedemptionTypeOK', NEW p \in Processes, Verify(p)
    PROVE  SafeInv'
  <1>1. CASE ReadReceipt(p)
    BY <1>1, KnowsReceipt, ReadingStep DEF ReadReceipt
  <1>2. CASE CheckCanonical(p)
    <2>1. OthersWait(p) /\ JobInv(p)'
      <3>1. CASE job[p].block \in canon
        BY <1>2, <3>1, KnowsMore DEF CheckCanonical, Goto
      <3>2. CASE job[p].block \notin canon
        BY <1>2, <3>2, EndMoves DEF CheckCanonical
      <3> QED  BY <3>1, <3>2
    <2> QED  BY <1>2, <2>1, ReadingStep DEF CheckCanonical
  <1>3. CASE CheckFinalized(p)
    <2>1. OthersWait(p) /\ JobInv(p)'
      <3>1. CASE ReachesFinality(p)
        BY <1>3, <3>1, KnowsMore DEF CheckFinalized, Goto, ReachesFinality
      <3>2. CASE ~ReachesFinality(p)
        BY <1>3, <3>2, EndMoves DEF CheckFinalized
      <3> QED  BY <3>1, <3>2
    <2> QED  BY <1>3, <2>1, ReadingStep DEF CheckFinalized
  <1>4. CASE Recheck(p)
    <2>1. UNCHANGED <<chainVars, row, queue>>
      BY <1>4 DEF Recheck
    <2> QED  BY <1>4, <2>1, KnowsFinal, ReadingStep
  <1>5. CASE Judge(p)
    BY <1>5, KnowsEvent, ReadingStep DEF Judge
  <1>6. CASE Credit(p)
    BY <1>6, SafeCredit
  <1> QED  BY <1>1, <1>2, <1>3, <1>4, <1>5, <1>6 DEF Verify

\* Intents, failed calls, restarts and the chain keep the invariant.
LEMMA SafeRest ==
    ASSUME SafeInv, RedemptionTypeOK',
           \/ \E r \in Redemptions : Start(r)
           \/ \E p \in Processes : CallFails(p)
           \/ Restart
           \/ ChainNext /\ UNCHANGED <<row, pc, job, queue, outages>>
           \/ UNCHANGED redemptionVars
    PROVE  SafeInv'
  <1>0. RedemptionTypeOK
    BY DEF SafeInv
  <1>1. ASSUME NEW p \in Processes, CallFails(p)  PROVE SafeInv'
    BY <1>1, EndMoves, ReadingStep DEF CallFails
  <1>2. CASE Restart
    <2>1. \A p \in Processes : JobInv(p)'
      BY <1>2, JobEnded DEF Restart
    <2>2. ChainMoves /\ RowsMoveOn /\ row' = row
      BY <1>2 DEF Restart, ChainMoves, RowsMoveOn
    <2>3. OneCanonical' /\ RowsHashed' /\ QueueInv'
      BY <1>0, <1>2, <2>2, ChainTyped DEF Restart, RedemptionTypeOK, SafeInv, RowsHashed, QueueInv
    <2>4. CreditedIsFinal'
      BY <2>2, CreditKept DEF CreditedFor, CreditedIsFinal
    <2> QED  BY <2>1, <2>3, <2>4 DEF SafeInv
  <1>3. ASSUME NEW r0 \in Redemptions, Start(r0)  PROVE SafeInv'
    <2>1. /\ row[r0].status = "none" /\ UNCHANGED <<chainVars, pc, job, queue>>
          /\ row' = [row EXCEPT ![r0] = [status |-> "created", tx |-> NoTx, event |-> NoTx]]
      BY <1>3 DEF Start
    <2>2. row[r0].tx = NoTx
      BY <2>1 DEF SafeInv, RowsHashed
    <2>3. ChainMoves /\ RowsMoveOn
      BY <1>0, <2>1, <2>2 DEF RowsMoveOn, ChainMoves, RedemptionTypeOK
    <2>4. OneCanonical' /\ RowsHashed'
      BY <1>0, <2>1, <2>3, ChainTyped DEF SafeInv, RowsHashed, RedemptionTypeOK
    <2>5. (\A q \in Processes : JobInv(q)') /\ QueueInv'
      BY <2>1, <2>3, JobKept, QueueKept
    <2>6. ASSUME NEW r \in Redemptions  PROVE CreditedFor(r)'
      <3>1. CASE r = r0
        BY <1>0, <2>1, <3>1 DEF CreditedFor, RedemptionTypeOK
      <3>2. CASE r # r0
        BY <1>0, <2>1, <2>3, <3>2, CreditKept DEF RedemptionTypeOK
      <3> QED  BY <3>1, <3>2
    <2> QED  BY <2>4, <2>5, <2>6 DEF SafeInv, CreditedFor, CreditedIsFinal
  <1>4. CASE ChainMoves /\ UNCHANGED <<row, pc, job, queue>>
    <2>1. RowsMoveOn /\ RowsHashed'
      BY <1>4 DEF RowsMoveOn, RowsHashed, SafeInv
    <2>2. OneCanonical'
      BY <1>0, <1>4, ChainTyped DEF SafeInv, RedemptionTypeOK
    <2>3. (\A q \in Processes : JobInv(q)') /\ QueueInv'
      BY <1>4, <2>1, JobKept, QueueKept
    <2>4. CreditedIsFinal'
      BY <1>4, CreditKept DEF CreditedFor, CreditedIsFinal
    <2> QED  BY <2>1, <2>2, <2>3, <2>4 DEF SafeInv
  <1>5. ChainNext \/ UNCHANGED redemptionVars => ChainMoves
    BY DEF ChainMoves, redemptionVars, chainVars
  <1> QED  BY <1>1, <1>2, <1>3, <1>4, <1>5 DEF redemptionVars

-----------------------------------------------------------------------------
(* Theorems *)

\* Every step keeps the invariant.
LEMMA SafeStep ==
    ASSUME SafeInv, [RedemptionNext]_redemptionVars
    PROVE  SafeInv'
  <1>1. RedemptionTypeOK'
    BY TypeStep DEF SafeInv
  <1> QED  BY <1>1, SafeSubmit, SafeReadOldReceipt, SafeReplace, SafeRecord, SafeTick, SafeVerify,
              SafeRest DEF RedemptionNext

\* The empty service satisfies it.
LEMMA SafeInit == RedemptionInit => SafeInv
  <1> SUFFICES ASSUME RedemptionInit  PROVE SafeInv
    OBVIOUS
  <1>1. NoJob \in Job /\ [status |-> "none", tx |-> NoTx, event |-> NoTx] \in Row
    BY DEF NoJob, Job, Row
  <1>2. RedemptionTypeOK
    BY <1>1, RedemptionAssumption DEF RedemptionInit, ChainInit, RedemptionTypeOK, ChainTypeOK, Places
  <1>3. \A p \in Processes : JobInv(p)
    BY DEF RedemptionInit, JobInv, JobNamed, BlockKnown, GoalKnown, EvidenceHeld, FinalitySeen, HashCurrent,
           Verifying, Looking
  <1> QED  BY <1>2, <1>3 DEF RedemptionInit, ChainInit, SafeInv, OneCanonical, RowsHashed, QueueInv,
                             CreditedIsFinal

\* Whatever reorganizations, races, failed calls and restarts happen, every
\* await of every handler means what SafeInv says.
THEOREM Safe == RedemptionSpec => []SafeInv
  BY SafeInit, SafeStep, PTL DEF RedemptionSpec

\* The redemption state keeps its type.
THEOREM RedemptionTypeCorrect == RedemptionSpec => []RedemptionTypeOK
  <1>1. SafeInv => RedemptionTypeOK
    BY DEF SafeInv
  <1> QED  BY <1>1, Safe, PTL

\* Credit is granted only for a redemption that is final on the canonical chain,
\* by the transaction the row names.
THEOREM OnlyFinalIsCredited == RedemptionSpec => []CreditedIsFinal
  <1>1. SafeInv => CreditedIsFinal
    BY DEF SafeInv
  <1> QED  BY <1>1, Safe, PTL

\* A recorded hash is displaced only when its transaction is final and redeemed
\* nothing for the row, however submissions race.
THEOREM OnlyUselessIsReplaced == RedemptionSpec => NoBurnDiscarded
  <1> DEFINE Displaced ==
        \A r \in Redemptions : row'[r].tx # row[r].tx /\ row[r].tx # NoTx => Useless(row[r].tx, r)
  <1>1. SafeInv /\ [RedemptionNext]_redemptionVars => [Displaced]_redemptionVars
    <2> SUFFICES ASSUME SafeInv, RedemptionNext  PROVE Displaced
      OBVIOUS
    <2>0. RedemptionTypeOK
      BY DEF SafeInv
    <2>1. ASSUME NEW c \in Clients, Replace(c)  PROVE Displaced
      <3>1. c \in Processes
        BY DEF Processes
      <3>2. SameHash(c) => Useless(row[job[c].r].tx, job[c].r)
        BY <2>1, <3>1, ReplaceSound DEF Replace, SameHash
      <3> QED  BY <2>0, <2>1, <3>2 DEF Replace, RedemptionTypeOK
    <2>2. ASSUME NEW c \in Clients, Record(c)  PROVE Displaced
      BY <2>0, <2>2 DEF Record, RedemptionTypeOK
    <2>3. ASSUME NEW p \in Processes, Credit(p)  PROVE Displaced
      BY <2>0, <2>3 DEF Credit, RedemptionTypeOK
    <2>4. ASSUME NEW r \in Redemptions, Start(r)  PROVE Displaced
      BY <2>0, <2>4 DEF Start, RedemptionTypeOK, SafeInv, RowsHashed
    <2>5. CASE row' = row
      BY <2>5
    <2>6. ASSUME NEW p \in Processes, Verify(p), ~Credit(p)  PROVE row' = row
      BY <2>6 DEF Verify, ReadReceipt, CheckCanonical, CheckFinalized, Recheck, Judge
    <2>7. \/ \E c \in Clients : \/ \E r \in Redemptions, t \in Txs : Submit(c, r, t)
                               \/ ReadOldReceipt(c)
          \/ StartReconciling \/ TakeNext \/ Restart
          \/ \E p \in Processes : CallFails(p)
          \/ ChainNext /\ UNCHANGED <<row, pc, job, queue, outages>>
          => row' = row
      BY DEF Submit, ReadOldReceipt, StartReconciling, TakeNext, Restart, CallFails
    <2> QED  BY <2>1, <2>2, <2>3, <2>4, <2>5, <2>6, <2>7 DEF RedemptionNext
  <1>2. Displaced =>
          \A r \in Redemptions : row'[r].tx # row[r].tx /\ row[r].tx # NoTx =>
              \E b \in minted : Final(b) /\ b.tx = row[r].tx /\ r \notin Events(b)
    BY DEF Useless
  <1> HIDE DEF Displaced
  <1> QED  BY <1>1, <1>2, Safe, PTL DEF RedemptionSpec, NoBurnDiscarded
=============================================================================
