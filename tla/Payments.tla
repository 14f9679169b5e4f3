------------------------------ MODULE Payments ------------------------------
(***************************************************************************)
(* Payments, refunds and disputes of one account: the webhooks of          *)
(* RCH/service/server.mjs, the decisions of payments/core.mjs and          *)
(* payments/plus.mjs, and applyPayment and applyReversal of store.mjs and  *)
(* plus-sqlite.mjs.                                                        *)
(*                                                                         *)
(* A provider notifies each payment and each reversal at least once, in    *)
(* any order, and again until it is acknowledged; the acknowledgement may  *)
(* be lost.  A notification is recorded in one transaction, once: what it  *)
(* did is the `status` of its row.                                         *)
(***************************************************************************)
EXTENDS Credit, FiniteSets, Functions

CONSTANTS
    Payments,       \* provider payment objects: invoices, sessions, captures
    Reversals,      \* provider refund and dispute objects
    PaymentOf,      \* PaymentOf[p]: [kind, amount, periodEnd, subscription]
    ReversalOf,     \* ReversalOf[x]: [of, amount]
    BasicPrice, PlusPrice,
    TopUpMin, TopUpMax, Ceiling,
    BasicSpan, PlusSpan, \* how far ahead a paid period may end
    MaxTime,        \* bound: the clock
    MaxConsumed,    \* bound: credit spent on requests
    HandGrants,     \* [kind, expires] an operator may grant by hand
    ByHand          \* the version of such a grant

PaymentKinds == {"basic", "plus", "top_up"}

ASSUME PaymentsAssumption ==
    /\ \A p \in Payments : /\ PaymentOf[p].kind \in PaymentKinds
                           /\ PaymentOf[p].amount \in Nat \ {0}
                           /\ PaymentOf[p].periodEnd \in Nat
    /\ \A x \in Reversals : /\ ReversalOf[x].of \in Payments
                            /\ ReversalOf[x].amount \in Nat \ {0}
    /\ ByHand \notin Payments /\ Payments \cap Reversals = {}
    /\ IsFiniteSet(Payments) /\ IsFiniteSet(Reversals)
    /\ HandGrants \subseteq [kind : {"basic", "plus", "other"}, expires : Nat]
    /\ BasicSpan \in Nat /\ PlusSpan \in Nat /\ Ceiling \in Nat /\ MaxTime \in Nat

VARIABLES
    now,
    usd,        \* the USD wallet
    consumed,   \* credit spent on requests (history)
    plan,       \* the account's plan: [kind, expires, version]
    paid,       \* paid[p]: the status of the payment's row
    taken,      \* taken[x]: the reversal's row, [status, applied]
    outbox      \* notifications the provider has not seen acknowledged

vars == <<now, usd, consumed, plan, paid, taken, outbox>>

RowStatus == {"none", "applied", "superseded", "expired", "rejected"}

TypeOK ==
    /\ now \in 0..MaxTime
    /\ usd \in Wallet
    /\ consumed \in Nat
    /\ plan \in [kind : {"none", "basic", "plus", "other"}, expires : Nat,
                 version : Payments \cup {ByHand}]
    /\ paid \in [Payments -> RowStatus]
    /\ taken \in [Reversals -> [status : RowStatus, applied : Nat]]
    /\ outbox \subseteq Payments \cup Reversals

Init ==
    /\ now = 0
    /\ usd = EmptyWallet
    /\ consumed = 0
    /\ plan = [kind |-> "none", expires |-> 0, version |-> ByHand]
    /\ paid = [p \in Payments |-> "none"]
    /\ taken = [x \in Reversals |-> [status |-> "none", applied |-> 0]]
    /\ outbox = Payments \cup Reversals

-----------------------------------------------------------------------------
(* Decisions *)

Live == plan.expires > now

RecordedReversals(p) == {x \in Reversals : ReversalOf[x].of = p /\ taken[x].status # "none"}

\* What the provider returned of p in all, and what was taken back.
Amounts == [x \in Reversals |-> ReversalOf[x].amount]
Applied == [x \in Reversals |-> taken[x].applied]

Requested(p) == SumFunctionOnSet(Amounts, RecordedReversals(p))
AppliedBack(p) == SumFunctionOnSet(Applied, RecordedReversals(p))

\* Slip: an older invoice replaces the current period.
LastInvoiceWins(p) ==
    CASE PaymentOf[p].amount # BasicPrice -> "rejected"
      [] PaymentOf[p].periodEnd <= now -> "expired"
      [] PaymentOf[p].periodEnd > now + BasicSpan -> "rejected"
      [] plan.kind \notin {"basic", "none"} /\ Live -> "rejected"
      [] OTHER -> "applied"

\* decideSubscriptionPayment, in its order; "applied" is a grant.
BasicDecision(p) ==
    CASE PaymentOf[p].amount # BasicPrice -> "rejected"
      [] PaymentOf[p].periodEnd <= now -> "expired"
      [] PaymentOf[p].periodEnd > now + BasicSpan -> "rejected"
      [] plan.kind \notin {"basic", "none"} /\ Live -> "rejected"
      [] plan.kind = "basic" /\ plan.expires >= PaymentOf[p].periodEnd -> "superseded"
      [] OTHER -> "applied"

\* The Plus plan is the one a recorded payment granted, for its very period.
PlusVerified ==
    /\ plan.kind = "plus" /\ plan.version # ByHand
    /\ paid[plan.version] = "applied"
    /\ plan.expires = PaymentOf[plan.version].periodEnd

PlusDecision(p) ==
    CASE PaymentOf[p].amount # PlusPrice -> "rejected"
      [] PaymentOf[p].periodEnd <= now -> "expired"
      [] PaymentOf[p].periodEnd > now + PlusSpan -> "rejected"
      [] plan.kind # "none" /\ ~PlusVerified /\ Live -> "rejected"
      [] PlusVerified /\ plan.expires >= PaymentOf[p].periodEnd -> "superseded"
      [] OTHER -> "applied"

TopUpDecision(p) ==
    CASE PaymentOf[p].amount < TopUpMin \/ PaymentOf[p].amount > TopUpMax -> "rejected"
      [] Deposit(usd, PaymentOf[p].amount, FALSE).prepaid > Ceiling -> "rejected"
      [] OTHER -> "applied"

\* Slip: earlier reversals of the payment are forgotten.
LeftOfOriginal(p) == PaymentOf[p].amount

\* What is left of a payment to take back.
LeftOf(p) == PaymentOf[p].amount - AppliedBack(p)

\* Slip: only a single full refund counts as full.
FullAtOnce(x) == ReversalOf[x].amount >= PaymentOf[ReversalOf[x].of].amount

\* With x, the provider has returned all of the payment.
FullWith(x) ==
    Requested(ReversalOf[x].of) + ReversalOf[x].amount >= PaymentOf[ReversalOf[x].of].amount

-----------------------------------------------------------------------------
(* Notifications *)

\* The provider sees the acknowledgement, or loses it and will notify again.
Acknowledge(e) == outbox' \in {outbox, outbox \ {e}}

\* The plan a paid period grants; a reversal of that period ends it now.
Granted(p) ==
    [kind |-> PaymentOf[p].kind, expires |-> PaymentOf[p].periodEnd, version |-> p]

EndedNow == [kind |-> plan.kind, expires |-> now, version |-> plan.version]

\* applyPayment for a Basic invoice or sale.
RecordBasic(p) ==
    /\ p \in outbox /\ paid[p] = "none" /\ PaymentOf[p].kind = "basic"
    /\ paid' = [paid EXCEPT ![p] = BasicDecision(p)]
    /\ plan' = IF BasicDecision(p) = "applied" THEN Granted(p) ELSE plan
    /\ Acknowledge(p)
    /\ UNCHANGED <<now, usd, consumed, taken>>

\* PlusSqliteLedger.applyPayment; a second live subscription is a conflict, and
\* the notification stays with the provider.
RecordPlus(p) ==
    /\ p \in outbox /\ paid[p] = "none" /\ PaymentOf[p].kind = "plus"
    /\ ~ /\ Live /\ plan.version # ByHand
         /\ PaymentOf[plan.version].kind = "plus"
         /\ PaymentOf[plan.version].subscription # PaymentOf[p].subscription
    /\ paid' = [paid EXCEPT ![p] = PlusDecision(p)]
    /\ plan' = IF PlusDecision(p) = "applied" THEN Granted(p) ELSE plan
    /\ Acknowledge(p)
    /\ UNCHANGED <<now, usd, consumed, taken>>

RecordTopUp(p) ==
    /\ p \in outbox /\ paid[p] = "none" /\ PaymentOf[p].kind = "top_up"
    /\ paid' = [paid EXCEPT ![p] = TopUpDecision(p)]
    /\ usd' = IF TopUpDecision(p) = "applied"
              THEN Deposit(usd, PaymentOf[p].amount, FALSE) ELSE usd
    /\ Acknowledge(p)
    /\ UNCHANGED <<now, consumed, plan, taken>>

Take(x, status, applied) ==
    taken' = [taken EXCEPT ![x] = [status |-> status, applied |-> applied]]

\* decideReversal of a top-up: at most what is left of it, the rest of the
\* account's credit it cannot cover becoming debt.
ReverseTopUp(x) ==
    LET p == ReversalOf[x].of
        n == Least(ReversalOf[x].amount, LeftOf(p))
    IN  /\ PaymentOf[p].kind = "top_up"
        /\ \/ /\ paid[p] # "applied" \/ LeftOf(p) <= 0
              /\ Take(x, "superseded", 0) /\ UNCHANGED usd
           \/ /\ paid[p] = "applied" /\ LeftOf(p) > 0
              /\ TakeBack(usd, n).debt > Ceiling
              /\ Take(x, "rejected", 0) /\ UNCHANGED usd
           \/ /\ paid[p] = "applied" /\ LeftOf(p) > 0
              /\ TakeBack(usd, n).debt <= Ceiling
              /\ Take(x, "applied", n) /\ usd' = TakeBack(usd, n)
        /\ UNCHANGED plan

\* A paid period ends only when all of it was returned and it is the current one.
ReversePeriod(x) ==
    LET p      == ReversalOf[x].of
        late   == IF PaymentOf[p].kind = "plus" THEN "rejected" ELSE "superseded"
        n      == Excess(Least(ReversalOf[x].amount, LeftOf(p)), 0)
        worth  == IF PaymentOf[p].kind = "plus" THEN 0 ELSE n
    IN  /\ PaymentOf[p].kind # "top_up"
        /\ \/ /\ paid[p] # "applied"
              /\ Take(x, late, 0) /\ UNCHANGED plan
           \/ /\ paid[p] = "applied" /\ (~FullWith(x) \/ plan.version # p)
              /\ Take(x, "rejected", 0) /\ UNCHANGED plan
           \/ /\ paid[p] = "applied" /\ FullWith(x) /\ plan.version = p /\ ~Live
              /\ Take(x, late, 0) /\ UNCHANGED plan
           \/ /\ paid[p] = "applied" /\ FullWith(x) /\ plan.version = p /\ Live
              /\ Take(x, "applied", worth) /\ plan' = EndedNow
        /\ UNCHANGED usd

\* applyReversal, once the original payment is in the ledger.
RecordReversal(x) ==
    /\ x \in outbox /\ taken[x].status = "none"
    /\ paid[ReversalOf[x].of] # "none"
    /\ ReverseTopUp(x) \/ ReversePeriod(x)
    /\ Acknowledge(x)
    /\ UNCHANGED <<now, consumed, paid>>

\* A row exists for the provider's object.
Recorded(e) == IF e \in Payments THEN paid[e] # "none" ELSE taken[e].status # "none"

\* Slip: every notification of a REACH object is acknowledged.
AnswersAlways(e) == TRUE

\* 200 for what is recorded; a reversal that arrives before its payment is
\* answered 503 and notified again.
Answers200(e) == Recorded(e)

\* A notification that changes no row.
Repeat(e) ==
    /\ e \in outbox
    /\ Recorded(e) \/ (e \in Reversals /\ paid[ReversalOf[e].of] = "none")
    /\ outbox' = IF Answers200(e) THEN outbox \ {e} ELSE outbox
    /\ UNCHANGED <<now, usd, consumed, plan, paid, taken>>

-----------------------------------------------------------------------------
(* The rest of the account, seen from here *)

Tick ==
    /\ now < MaxTime
    /\ now' = now + 1
    /\ UNCHANGED <<usd, consumed, plan, paid, taken, outbox>>

\* Requests spend credit, and settle beyond it into debt.
Consume ==
    /\ consumed < MaxConsumed
    /\ consumed' = consumed + 1
    /\ usd' = TakeBack(usd, 1)
    /\ UNCHANGED <<now, plan, paid, taken, outbox>>

\* grantPlan from the operator's tool.
GrantByHand(g) ==
    /\ g.expires > now
    /\ plan' = [kind |-> g.kind, expires |-> g.expires, version |-> ByHand]
    /\ UNCHANGED <<now, usd, consumed, paid, taken, outbox>>

Notify(e) ==
    \/ e \in Payments /\ (RecordBasic(e) \/ RecordPlus(e) \/ RecordTopUp(e))
    \/ e \in Reversals /\ RecordReversal(e)
    \/ Repeat(e)

Next ==
    \/ \E e \in outbox : Notify(e)
    \/ Tick
    \/ Consume
    \/ \E g \in HandGrants : GrantByHand(g)

Spec == Init /\ [][Next]_vars

-----------------------------------------------------------------------------
(* Properties *)

\* Whatever the order and number of notifications: the balance is what applied
\* top-ups gave, less what applied reversals took and requests spent.
CreditMatchesRows ==
    usd.prepaid - usd.debt + consumed =
        SumFunctionOnSet([p \in Payments |-> PaymentOf[p].amount],
                         {p \in Payments : PaymentOf[p].kind = "top_up" /\ paid[p] = "applied"})
        - SumFunctionOnSet(Applied,
                           {x \in Reversals : PaymentOf[ReversalOf[x].of].kind = "top_up"})

\* Refunds and disputes of one top-up take back what the provider returned, and
\* never more than the top-up gave.
TopUpNet ==
    \A p \in Payments :
        /\ PaymentOf[p].kind = "top_up" /\ paid[p] = "applied"
        /\ \A x \in RecordedReversals(p) : taken[x].status # "rejected"
        => AppliedBack(p) = Least(PaymentOf[p].amount, Requested(p))

\* A late or repeated invoice never shortens a newer paid period: a live plan
\* that a payment granted ends early only by a full reversal of that payment, or
\* when an operator grants another plan.
PaidPeriodKept ==
    [][ plan.version # ByHand /\ Live /\ plan'.expires < plan.expires
        => \/ plan'.version = ByHand
           \/ /\ plan'.version = plan.version
              /\ Requested(plan.version)' >= PaymentOf[plan.version].amount ]_vars

\* A current period that was returned in full, in one refund or several, gives
\* no access.
FullReversalEnds ==
    plan.version # ByHand /\ Live
        => Requested(plan.version) < PaymentOf[plan.version].amount

\* A notification that the provider stops sending has been recorded: a refund
\* that overtakes its payment is not lost.
AcknowledgedIsRecorded ==
    \A e \in (Payments \cup Reversals) \ outbox : Recorded(e)
=============================================================================
