------------------------------- MODULE Ledger -------------------------------
(***************************************************************************)
(* The credit ledger of the RCH account service (AccountStore in           *)
(* RCH/service/store.mjs with PlusSqliteLedger in plus-sqlite.mjs): what a *)
(* model request holds, and what its completion charges or gives back.     *)
(*                                                                         *)
(* Every operation of the code is one transaction, so it is one action     *)
(* here; an operation that fails or replays an earlier answer changes      *)
(* nothing and is a stuttering step.  Rows are indexed by account and      *)
(* Idempotency-Key (UNIQUE(account_id,request_id) in the code).  Time      *)
(* appears only as plan[a].live, the truth of plan_expires > now.  Credit  *)
(* that arrives or is reversed is an environment action here: payments and *)
(* redemptions have modules of their own.                                  *)
(***************************************************************************)
EXTENDS Credit, FiniteSets, Functions

CONSTANTS
    Accounts,
    Keys,           \* Idempotency-Keys clients send
    Inputs,         \* (model, fingerprint) pairs a key may arrive with
    Versions,       \* grant IDs; each is used once
    PlanTerms,      \* what a grant may give: [kind, metered, tokens]
    IncludedLimit,  \* requests in a Basic period (1500)
    Overage,        \* USD price of a request outside it (10000 micros)
    Ceiling,        \* safeCount's bound on a balance
    UsdAmounts,     \* worst-case costs a metered USD request may hold
    TokenAmounts,   \* token amounts a metered request may hold
    Usages,         \* measured usage a settlement may report
    UsdCredits,     \* sizes of top-ups, redemptions and reversals in USD
    TokenCredits,   \* sizes of redemptions in tokens
    NoInput, NoVersion

PlanKinds == {"none", "basic", "plus", "unpaidPlus", "other"}

ASSUME AmountsAssumption ==
    /\ IncludedLimit \in Nat
    /\ Overage \in Nat \ {0}
    /\ Ceiling \in Nat
    /\ UsdAmounts \subseteq Nat \ {0}
    /\ TokenAmounts \subseteq Nat \ {0}
    /\ Usages \subseteq Nat
    /\ UsdCredits \subseteq Nat \ {0}
    /\ TokenCredits \subseteq Nat \ {0}

ASSUME NamesAssumption ==
    /\ IsFiniteSet(Keys)
    /\ NoInput \notin Inputs
    /\ NoVersion \notin Versions
    /\ PlanTerms \subseteq [kind : PlanKinds, metered : BOOLEAN, tokens : Nat]

VARIABLES
    plan,       \* plan[a]: the account's plan columns
    granted,    \* grant IDs in the grants table
    usd,        \* usd[a]: the USD wallet
    tok,        \* tok[a]: the token wallet
    included,   \* included[a]: tokens left of the current grant
    reversible, \* reversible[a]: top-ups applied and not yet reversed
    completed,  \* completed[a][v]: request_periods.completed
    req,        \* req[a][k]: the request_reservations row
    res,        \* res[a][k]: the reservations row (metered usage)
    plus        \* plus[a][k]: the plus_requests row

balances == <<usd, tok, included, reversible>>
holds == <<req, res, plus>>
vars == <<plan, granted, usd, tok, included, reversible, completed, req, res, plus>>

-----------------------------------------------------------------------------
(* Rows *)

Status == {"none", "reserved", "uncertain", "released", "settled"}
OpenStatus == {"reserved", "uncertain"}

\* Only a hold whose request certainly did not complete may be given back.
Returnable == {"reserved"}

\* Holds that occupy a place of a Basic period.
Occupying == OpenStatus

Plan == [kind : PlanKinds, metered : BOOLEAN, tokens : Nat, live : BOOLEAN,
         version : Versions \cup {NoVersion}]

RequestRow == [status : Status, input : Inputs \cup {NoInput}, included : BOOLEAN,
               version : Versions \cup {NoVersion}, rch : Nat]

UsageRow == [status : Status, input : Inputs \cup {NoInput},
             currency : {"tokens", "USD"}, inc : Nat, pre : Nat,
             version : Versions \cup {NoVersion}, rch : Nat, charged : Nat]

PlusRow == [status : Status, input : Inputs \cup {NoInput}]

NoPlan == [kind |-> "none", metered |-> FALSE, tokens |-> 0, live |-> FALSE,
           version |-> NoVersion]

NoRequestRow == [status |-> "none", input |-> NoInput, included |-> FALSE,
                 version |-> NoVersion, rch |-> 0]

NoUsageRow == [status |-> "none", input |-> NoInput, currency |-> "tokens",
               inc |-> 0, pre |-> 0, version |-> NoVersion, rch |-> 0, charged |-> 0]

NoPlusRow == [status |-> "none", input |-> NoInput]

\* A row whose status column is updated; settling also records the usage.
RequestIn(row, s) == [status |-> s, input |-> row.input, included |-> row.included,
                      version |-> row.version, rch |-> row.rch]

UsageIn(row, s, charged) ==
    [status |-> s, input |-> row.input, currency |-> row.currency, inc |-> row.inc,
     pre |-> row.pre, version |-> row.version, rch |-> row.rch, charged |-> charged]

PlusIn(row, s) == [status |-> s, input |-> row.input]

\* What a usage row holds in all; `amount` in the code.
Held(row) == row.inc + row.pre

\* charge_usd_micros of a request row.
ChargeOf(row) == IF row.included THEN 0 ELSE Overage

TypeOK ==
    /\ plan \in [Accounts -> Plan]
    /\ granted \subseteq Versions
    /\ usd \in [Accounts -> Wallet]
    /\ tok \in [Accounts -> Wallet]
    /\ included \in [Accounts -> Nat]
    /\ reversible \in [Accounts -> Nat]
    /\ completed \in [Accounts -> [Versions -> 0..IncludedLimit]]
    /\ req \in [Accounts -> [Keys -> RequestRow]]
    /\ res \in [Accounts -> [Keys -> UsageRow]]
    /\ plus \in [Accounts -> [Keys -> PlusRow]]

Init ==
    /\ plan = [a \in Accounts |-> NoPlan]
    /\ granted = {}
    /\ usd = [a \in Accounts |-> EmptyWallet]
    /\ tok = [a \in Accounts |-> EmptyWallet]
    /\ included = [a \in Accounts |-> 0]
    /\ reversible = [a \in Accounts |-> 0]
    /\ completed = [a \in Accounts |-> [v \in Versions |-> 0]]
    /\ req = [a \in Accounts |-> [k \in Keys |-> NoRequestRow]]
    /\ res = [a \in Accounts |-> [k \in Keys |-> NoUsageRow]]
    /\ plus = [a \in Accounts |-> [k \in Keys |-> NoPlusRow]]

-----------------------------------------------------------------------------
(* Questions the operations ask *)

OnPlus(a) == plan[a].kind \in {"plus", "unpaidPlus"}

\* plusActive and a recorded payment for this very period.
PlusActive(a) == plan[a].kind = "plus" /\ plan[a].live

\* basicRequestPeriod; the period is named by the grant that opened it.
BasicActive(a) == plan[a].kind = "basic" /\ plan[a].live

Outstanding(a, v) ==
    {k \in Keys : /\ req[a][k].status \in Occupying
                  /\ req[a][k].included
                  /\ req[a][k].version = v}

Remaining(a) ==
    IncludedLimit - completed[a][plan[a].version]
                  - Cardinality(Outstanding(a, plan[a].version))

\* The key is new in this table, or its earlier hold was given back unused.
Reusable(row, i) ==
    \/ row.status = "none"
    \/ row.status = "released" /\ row.input = i

\* No subscription request of the account has used the key.
FreeOfRequests(a, k) == plus[a][k].status = "none" /\ req[a][k].status = "none"

\* A metered request is entitled to plan tokens.
PlanEntitled(a) == plan[a].live /\ plan[a].metered

\* Slip: any live plan will do.
AnyLivePlan(a, row) == plan[a].live

\* The plan a usage row drew on is still the account's live plan.
SamePlan(a, row) == plan[a].live /\ plan[a].version = row.version

-----------------------------------------------------------------------------
(* Subscription requests: reserveRequest, settleRequest, releaseRequest and  *)
(* markRequestUncertain.  Each asks the Plus ledger first.                   *)

\* PlusSqliteLedger.reserve: no quota, no charge, only the key is recorded.
ReservePlus(a, k, i) ==
    /\ plus[a][k].status # "none" \/ OnPlus(a)
    /\ Reusable(plus[a][k], i)
    /\ PlusActive(a)
    /\ usd[a].debt = 0
    /\ res[a][k].status = "none"
    /\ req[a][k].status = "none"
    /\ plus' = [plus EXCEPT ![a][k] = [status |-> "reserved", input |-> i]]
    /\ UNCHANGED <<plan, granted, balances, completed, req, res>>

\* An included Basic request holds one of the period's places; any other
\* request holds the overage price.
ReserveRequest(a, k, i) ==
    LET inc    == BasicActive(a) /\ Remaining(a) > 0
        charge == IF inc THEN 0 ELSE Overage
    IN  /\ plus[a][k].status = "none" /\ ~OnPlus(a)
        /\ res[a][k].status = "none"
        /\ Reusable(req[a][k], i)
        /\ usd[a].debt = 0
        /\ inc \/ usd[a].prepaid >= charge
        /\ usd' = [usd EXCEPT ![a] = Spend(@, charge)]
        /\ req' = [req EXCEPT ![a][k] =
                     [status |-> "reserved", input |-> i, included |-> inc,
                      version |-> IF inc THEN plan[a].version ELSE NoVersion,
                      rch |-> Least(charge, usd[a].rch)]]
        /\ UNCHANGED <<plan, granted, tok, included, reversible, completed, res, plus>>

SettlePlus(a, k) ==
    /\ plus[a][k].status \in OpenStatus
    /\ plus' = [plus EXCEPT ![a][k] = PlusIn(@, "settled")]
    /\ UNCHANGED <<plan, granted, balances, completed, req, res>>

\* An included completion is counted, and the count may not pass the limit.
SettleRequest(a, k) ==
    LET row == req[a][k]
    IN  /\ plus[a][k].status = "none"
        /\ row.status \in OpenStatus
        /\ row.included => completed[a][row.version] < IncludedLimit
        /\ completed' = IF row.included
                        THEN [completed EXCEPT ![a][row.version] = @ + 1]
                        ELSE completed
        /\ req' = [req EXCEPT ![a][k] = RequestIn(@, "settled")]
        /\ UNCHANGED <<plan, granted, balances, res, plus>>

ReleasePlus(a, k) ==
    /\ plus[a][k].status \in Returnable
    /\ plus' = [plus EXCEPT ![a][k] = PlusIn(@, "released")]
    /\ UNCHANGED <<plan, granted, balances, completed, req, res>>

ReleaseRequest(a, k) ==
    LET row == req[a][k]
    IN  /\ plus[a][k].status = "none"
        /\ row.status \in Returnable
        /\ ChargeOf(row) > 0 => usd[a].prepaid + ChargeOf(row) <= Ceiling
        /\ usd' = IF ChargeOf(row) > 0
                  THEN [usd EXCEPT ![a] = Return(@, ChargeOf(row), row.rch)]
                  ELSE usd
        /\ req' = [req EXCEPT ![a][k] = RequestIn(@, "released")]
        /\ UNCHANGED <<plan, granted, tok, included, reversible, completed, res, plus>>

MarkPlusUncertain(a, k) ==
    /\ plus[a][k].status = "reserved"
    /\ plus' = [plus EXCEPT ![a][k] = PlusIn(@, "uncertain")]
    /\ UNCHANGED <<plan, granted, balances, completed, req, res>>

MarkRequestUncertain(a, k) ==
    /\ plus[a][k].status = "none"
    /\ req[a][k].status = "reserved"
    /\ req' = [req EXCEPT ![a][k] = RequestIn(@, "uncertain")]
    /\ UNCHANGED <<plan, granted, balances, completed, res, plus>>

-----------------------------------------------------------------------------
(* Metered requests: reserve, reserveUsd, settle, markUncertain and release  *)

\* A USD hold is all prepaid; the code keeps it in the column `amount`.
ReserveUsd(a, k, i, n) ==
    /\ FreeOfRequests(a, k)
    /\ Reusable(res[a][k], i)
    /\ res[a][k].status = "released" => res[a][k].currency = "USD"
    /\ usd[a].debt = 0
    /\ usd[a].prepaid >= n
    /\ usd' = [usd EXCEPT ![a] = Spend(@, n)]
    /\ res' = [res EXCEPT ![a][k] =
                 [status |-> "reserved", input |-> i, currency |-> "USD",
                  inc |-> 0, pre |-> n, version |-> NoVersion,
                  rch |-> Least(n, usd[a].rch), charged |-> 0]]
    /\ UNCHANGED <<plan, granted, tok, included, reversible, completed, req, plus>>

\* Plan tokens are held first, prepaid tokens for the rest.
ReserveTokens(a, k, i, n) ==
    LET fromPlan == IF PlanEntitled(a) THEN Least(included[a], n) ELSE 0
    IN  /\ FreeOfRequests(a, k)
        /\ Reusable(res[a][k], i)
        /\ res[a][k].status = "released" => res[a][k].currency = "tokens"
        /\ PlanEntitled(a) \/ tok[a].prepaid # 0
        /\ tok[a].debt = 0
        /\ fromPlan + tok[a].prepaid >= n
        /\ included' = [included EXCEPT ![a] = @ - fromPlan]
        /\ tok' = [tok EXCEPT ![a] = Spend(@, n - fromPlan)]
        /\ res' = [res EXCEPT ![a][k] =
                     [status |-> "reserved", input |-> i, currency |-> "tokens",
                      inc |-> fromPlan, pre |-> n - fromPlan,
                      version |-> plan[a].version,
                      rch |-> Least(n - fromPlan, tok[a].rch), charged |-> 0]]
        /\ UNCHANGED <<plan, granted, usd, reversible, completed, req, plus>>

\* `usage` of the row becomes the measured cost.
Settled(a, k, actual) ==
    [res EXCEPT ![a][k] = UsageIn(@, "settled", actual)]

\* Real cost replaces the hold; a shortfall is debt.
SettleUsdUsage(a, k, actual) ==
    LET row == res[a][k]
        w   == SettleUsd(usd[a], row.pre, row.rch, actual)
    IN  /\ row.status \in OpenStatus /\ row.currency = "USD"
        /\ w.prepaid <= Ceiling /\ w.debt <= Ceiling
        /\ usd' = [usd EXCEPT ![a] = w]
        /\ res' = Settled(a, k, actual)
        /\ UNCHANGED <<plan, granted, tok, included, reversible, completed, req, plus>>

\* Usage within the hold: unused plan tokens return to the plan they came
\* from and to no other; unused prepaid tokens always return.
SettleTokensWithin(a, k, actual) ==
    LET row     == res[a][k]
        usedInc == Least(actual, row.inc)
        usedPre == Excess(actual, row.inc)
    IN  /\ row.status \in OpenStatus /\ row.currency = "tokens"
        /\ actual <= Held(row)
        /\ included' = IF SamePlan(a, row)
                       THEN [included EXCEPT ![a] = @ + (row.inc - usedInc)]
                       ELSE included
        /\ tok' = [tok EXCEPT ![a] =
                     Return(@, row.pre - usedPre, Excess(row.rch, usedPre))]
        /\ res' = Settled(a, k, actual)
        /\ UNCHANGED <<plan, granted, usd, reversible, completed, req, plus>>

\* Usage beyond the hold: more plan tokens while that plan is live, then
\* prepaid tokens, then debt.
SettleTokensOver(a, k, actual) ==
    LET row      == res[a][k]
        over     == actual - Held(row)
        fromPlan == IF SamePlan(a, row) /\ plan[a].metered
                    THEN Least(over, included[a]) ELSE 0
        fromPre  == Least(over - fromPlan, tok[a].prepaid)
    IN  /\ row.status \in OpenStatus /\ row.currency = "tokens"
        /\ actual > Held(row)
        /\ included' = [included EXCEPT ![a] = @ - fromPlan]
        /\ tok' = [tok EXCEPT ![a] =
                     Owe(Spend(@, fromPre), over - fromPlan - fromPre)]
        /\ res' = Settled(a, k, actual)
        /\ UNCHANGED <<plan, granted, usd, reversible, completed, req, plus>>

MarkUncertain(a, k) ==
    /\ res[a][k].status = "reserved"
    /\ res' = [res EXCEPT ![a][k] = UsageIn(@, "uncertain", 0)]
    /\ UNCHANGED <<plan, granted, balances, completed, req, plus>>

ReleaseUsd(a, k) ==
    LET row == res[a][k]
    IN  /\ row.status \in Returnable /\ row.currency = "USD"
        /\ usd[a].prepaid + row.pre <= Ceiling
        /\ usd' = [usd EXCEPT ![a] = Return(@, row.pre, row.rch)]
        /\ res' = [res EXCEPT ![a][k] = UsageIn(@, "released", 0)]
        /\ UNCHANGED <<plan, granted, tok, included, reversible, completed, req, plus>>

ReleaseTokens(a, k) ==
    LET row == res[a][k]
    IN  /\ row.status \in Returnable /\ row.currency = "tokens"
        /\ included' = IF SamePlan(a, row)
                       THEN [included EXCEPT ![a] = @ + row.inc]
                       ELSE included
        /\ tok' = [tok EXCEPT ![a] = Return(@, row.pre, row.rch)]
        /\ res' = [res EXCEPT ![a][k] = UsageIn(@, "released", 0)]
        /\ UNCHANGED <<plan, granted, usd, reversible, completed, req, plus>>

-----------------------------------------------------------------------------
(* Plans and arriving credit *)

\* A grant replaces the plan and its allowance; a repeated grant ID does not.
GrantPlan(a, v, t) ==
    /\ v \notin granted
    /\ granted' = granted \cup {v}
    /\ plan' = [plan EXCEPT ![a] = [kind |-> t.kind, metered |-> t.metered,
                                   tokens |-> t.tokens, live |-> TRUE,
                                   version |-> v]]
    /\ included' = [included EXCEPT ![a] = t.tokens]
    /\ UNCHANGED <<usd, tok, reversible, completed, holds>>

\* The paid period runs out, or a full reversal sets plan_expires to now.
PlanEnds(a) ==
    /\ plan[a].live
    /\ plan' = [plan EXCEPT ![a] = [kind |-> @.kind, metered |-> @.metered,
                                   tokens |-> @.tokens, live |-> FALSE,
                                   version |-> @.version]]
    /\ UNCHANGED <<granted, balances, completed, holds>>

\* creditRedemption (fromRch) or a top-up, the first time its object is seen.
CreditUsd(a, n, fromRch) ==
    /\ Deposit(usd[a], n, fromRch).prepaid <= Ceiling
    /\ usd' = [usd EXCEPT ![a] = Deposit(@, n, fromRch)]
    /\ reversible' = [reversible EXCEPT ![a] = @ + IF fromRch THEN 0 ELSE n]
    /\ UNCHANGED <<plan, granted, tok, included, completed, holds>>

CreditTokens(a, n) ==
    /\ Deposit(tok[a], n, TRUE).prepaid <= Ceiling
    /\ tok' = [tok EXCEPT ![a] = Deposit(@, n, TRUE)]
    /\ UNCHANGED <<plan, granted, usd, included, reversible, completed, holds>>

\* A refund or dispute of a top-up, capped at what is left of it.
ReverseUsd(a, n) ==
    /\ n <= reversible[a]
    /\ TakeBack(usd[a], n).debt <= Ceiling
    /\ usd' = [usd EXCEPT ![a] = TakeBack(@, n)]
    /\ reversible' = [reversible EXCEPT ![a] = @ - n]
    /\ UNCHANGED <<plan, granted, tok, included, completed, holds>>

-----------------------------------------------------------------------------

RequestStep(a, k) ==
    \/ \E i \in Inputs : ReservePlus(a, k, i) \/ ReserveRequest(a, k, i)
    \/ SettlePlus(a, k)
    \/ SettleRequest(a, k)
    \/ ReleasePlus(a, k)
    \/ ReleaseRequest(a, k)
    \/ MarkPlusUncertain(a, k)
    \/ MarkRequestUncertain(a, k)

UsageStep(a, k) ==
    \/ \E i \in Inputs, n \in UsdAmounts : ReserveUsd(a, k, i, n)
    \/ \E i \in Inputs, n \in TokenAmounts : ReserveTokens(a, k, i, n)
    \/ \E actual \in Usages : \/ SettleUsdUsage(a, k, actual)
                             \/ SettleTokensWithin(a, k, actual)
                             \/ SettleTokensOver(a, k, actual)
    \/ MarkUncertain(a, k)
    \/ ReleaseUsd(a, k)
    \/ ReleaseTokens(a, k)

AccountStep(a) ==
    \/ \E v \in Versions, t \in PlanTerms : GrantPlan(a, v, t)
    \/ PlanEnds(a)
    \/ \E n \in UsdCredits : \/ \E fromRch \in BOOLEAN : CreditUsd(a, n, fromRch)
                            \/ ReverseUsd(a, n)
    \/ \E n \in TokenCredits : CreditTokens(a, n)

Next == \E a \in Accounts : AccountStep(a) \/ \E k \in Keys : RequestStep(a, k) \/ UsageStep(a, k)

Spec == Init /\ [][Next]_vars

-----------------------------------------------------------------------------
(* Properties *)

\* RCH provenance: the credit shown as redeemed RCH (rch_usd, rch_tokens) is
\* always covered by the balance, however holds, over-runs, reversals and
\* refunds interleave; createApiKey admits an account on the strength of it.
RchBacked == \A a \in Accounts : Backed(usd[a]) /\ Backed(tok[a])

\* A Basic period never promises more than its included requests: completed
\* ones and those still running, across renewals, retries and late settlements.
PeriodWithinLimit ==
    \A a \in Accounts, v \in Versions :
        completed[a][v] + Cardinality(Outstanding(a, v)) <= IncludedLimit

\* A key of an account is billed in one way only: the three tables are kept
\* apart by look-ups, not by a database constraint.
OneTablePerKey ==
    \A a \in Accounts, k \in Keys :
        /\ req[a][k].status # "none" => res[a][k].status = "none"
        /\ plus[a][k].status # "none" => res[a][k].status = "none" /\ req[a][k].status = "none"

\* The open holds that drew from the account's current grant.
Drawn(a) == {k \in Keys : /\ res[a][k].status \in OpenStatus
                          /\ res[a][k].version = plan[a].version}

\* Late refunds from an older plan cannot inflate a newer one: what is left of
\* the current grant and what open holds drew from it never exceed the grant.
PlanAllowanceBounded ==
    \A a \in Accounts :
        included[a] + SumFunctionOnSet([k \in Keys |-> res[a][k].inc], Drawn(a))
            <= plan[a].tokens

\* What a row stands for in USD: the amount it holds, or what it was charged.
UsageWorth(row) ==
    IF row.currency # "USD" THEN 0
    ELSE CASE row.status \in OpenStatus -> row.pre
           [] row.status = "settled" -> row.charged
           [] OTHER -> 0

RequestWorth(row) ==
    IF row.status \in OpenStatus \cup {"settled"} THEN ChargeOf(row) ELSE 0

\* Everything of account a's USD credit: free, owed, held and charged.
UsdWorth(a) ==
    usd[a].prepaid - usd[a].debt
        + SumFunction([k \in Keys |-> UsageWorth(res[a][k]) + RequestWorth(req[a][k])])

\* No request operation mints or loses USD: reserving, settling (also above the
\* hold, also into debt), releasing and re-reserving only move credit between
\* free, held, charged and owed.
UsdConserved ==
    [][holds' # holds => \A a \in Accounts : UsdWorth(a)' = UsdWorth(a)]_vars

\* What completed work has cost account a.
UsdCharged(a) ==
    SumFunction([k \in Keys |->
        (IF res[a][k].currency = "USD" THEN res[a][k].charged ELSE 0)
        + (IF req[a][k].status = "settled" THEN ChargeOf(req[a][k]) ELSE 0)])

\* payments.md says of a reversed top-up that the amount leaves the balance and
\* "credit already spent becomes debt": when nothing is held, debt is at most
\* what completed work was charged.
DebtIsSpentCredit ==
    \A a \in Accounts :
        (\A k \in Keys : /\ req[a][k].status \notin OpenStatus
                         /\ res[a][k].status \notin OpenStatus)
        => usd[a].debt <= UsdCharged(a)

\* The three tables together give each key one life (module Holds).
HoldStatus(a, k) ==
    IF plus[a][k].status # "none" THEN plus[a][k].status
    ELSE IF req[a][k].status # "none" THEN req[a][k].status
    ELSE res[a][k].status

Promise == INSTANCE Holds WITH
    Pair <- Accounts \X Keys,
    hold <- [p \in Accounts \X Keys |-> HoldStatus(p[1], p[2])]

\* Whatever table bills it, a key is opened, doubted, charged once and final, or
\* given back; an uncertain hold is never given back.
PromiseKept == Promise!HoldsSpec
=============================================================================
