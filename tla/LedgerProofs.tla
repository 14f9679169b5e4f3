---------------------------- MODULE LedgerProofs ----------------------------
(***************************************************************************)
(* Proofs about the credit ledger, for any accounts, keys, prices and      *)
(* limits.                                                                 *)
(***************************************************************************)
EXTENDS Ledger, CreditProofs, FiniteSetTheorems

-----------------------------------------------------------------------------
(* Type correctness: one lemma per table an operation writes.              *)

\* Reservations write well-formed rows and leave well-formed balances.
LEMMA TypeReserve ==
    ASSUME TypeOK, NEW a \in Accounts, NEW k \in Keys, NEW i \in Inputs,
           \/ ReservePlus(a, k, i)
           \/ ReserveRequest(a, k, i)
           \/ \E n \in UsdAmounts : ReserveUsd(a, k, i, n)
           \/ \E n \in TokenAmounts : ReserveTokens(a, k, i, n)
    PROVE  TypeOK'
  <1> USE AmountsAssumption
  <1>1. CASE ReservePlus(a, k, i)
    BY <1>1 DEF TypeOK, ReservePlus, balances, PlusRow, Status
  <1>2. CASE ReserveRequest(a, k, i)
    <2> DEFINE inc    == BasicActive(a) /\ Remaining(a) > 0
               charge == IF inc THEN 0 ELSE Overage
    <2>1. /\ charge \in Nat /\ charge <= usd[a].prepaid
          /\ Least(charge, usd[a].rch) \in Nat
          /\ inc \in BOOLEAN
          /\ (IF inc THEN plan[a].version ELSE NoVersion) \in Versions \cup {NoVersion}
      BY <1>2 DEF TypeOK, ReserveRequest, Wallet, Least, Plan
    <2>2. usd' \in [Accounts -> Wallet]
      BY <1>2, <2>1, SpendWallet DEF TypeOK, ReserveRequest
    <2>3. req' \in [Accounts -> [Keys -> RequestRow]]
      BY <1>2, <2>1 DEF TypeOK, ReserveRequest, RequestRow, Status
    <2> QED  BY <1>2, <2>2, <2>3 DEF TypeOK, ReserveRequest
  <1>3. ASSUME NEW n \in UsdAmounts, ReserveUsd(a, k, i, n)  PROVE TypeOK'
    <2>1. n \in Nat /\ n <= usd[a].prepaid /\ Least(n, usd[a].rch) \in Nat
      BY <1>3 DEF TypeOK, ReserveUsd, Wallet, Least
    <2>2. usd' \in [Accounts -> Wallet]
      BY <1>3, <2>1, SpendWallet DEF TypeOK, ReserveUsd
    <2>3. res' \in [Accounts -> [Keys -> UsageRow]]
      BY <1>3, <2>1 DEF TypeOK, ReserveUsd, UsageRow, Status
    <2> QED  BY <1>3, <2>2, <2>3 DEF TypeOK, ReserveUsd
  <1>4. ASSUME NEW n \in TokenAmounts, ReserveTokens(a, k, i, n)  PROVE TypeOK'
    <2> DEFINE fromPlan == IF PlanEntitled(a) THEN Least(included[a], n) ELSE 0
    <2>1. n \in Nat /\ included[a] \in Nat /\ tok[a] \in Wallet
      BY <1>4 DEF TypeOK
    <2>2. fromPlan \in Nat /\ fromPlan <= n /\ fromPlan <= included[a]
      BY <2>1 DEF Least
    <2>3. n - fromPlan \in Nat /\ n - fromPlan <= tok[a].prepaid
      BY <1>4, <2>1, <2>2 DEF ReserveTokens, Wallet
    <2>4. included' \in [Accounts -> Nat]
      BY <1>4, <2>1, <2>2 DEF TypeOK, ReserveTokens
    <2>5. tok' \in [Accounts -> Wallet]
      BY <1>4, <2>1, <2>3, SpendWallet DEF TypeOK, ReserveTokens
    <2>6. Least(n - fromPlan, tok[a].rch) \in Nat /\ plan[a].version \in Versions \cup {NoVersion}
      BY <2>1, <2>3 DEF TypeOK, Wallet, Least, Plan
    <2>7. res' \in [Accounts -> [Keys -> UsageRow]]
      BY <1>4, <2>2, <2>3, <2>6 DEF TypeOK, ReserveTokens, UsageRow, Status
    <2> QED  BY <1>4, <2>4, <2>5, <2>7 DEF TypeOK, ReserveTokens
  <1> QED  BY <1>1, <1>2, <1>3, <1>4

\* Completions, doubts and returns of subscription requests.
LEMMA TypeRequest ==
    ASSUME TypeOK, NEW a \in Accounts, NEW k \in Keys,
           \/ SettlePlus(a, k) \/ ReleasePlus(a, k) \/ MarkPlusUncertain(a, k)
           \/ SettleRequest(a, k) \/ ReleaseRequest(a, k) \/ MarkRequestUncertain(a, k)
    PROVE  TypeOK'
  <1> USE AmountsAssumption
  <1>1. CASE SettlePlus(a, k) \/ ReleasePlus(a, k) \/ MarkPlusUncertain(a, k)
    <2>1. PICK s \in Status : plus' = [plus EXCEPT ![a][k] = PlusIn(@, s)]
      BY <1>1 DEF SettlePlus, ReleasePlus, MarkPlusUncertain, Status
    <2>2. PlusIn(plus[a][k], s) \in PlusRow
      BY DEF TypeOK, PlusRow, PlusIn
    <2>3. plus' \in [Accounts -> [Keys -> PlusRow]]
      BY <2>1, <2>2 DEF TypeOK
    <2> QED  BY <1>1, <2>3 DEF TypeOK, SettlePlus, ReleasePlus, MarkPlusUncertain, balances
  <1>2. CASE SettleRequest(a, k)
    <2>1. completed' \in [Accounts -> [Versions -> 0..IncludedLimit]]
      <3> DEFINE v == req[a][k].version
      <3>1. CASE completed' = completed
        BY <3>1 DEF TypeOK
      <3>2. CASE completed' = [completed EXCEPT ![a][v] = @ + 1] /\ v \in Versions
        BY <1>2, <3>2 DEF TypeOK, SettleRequest
      <3>3. CASE completed' = [completed EXCEPT ![a][v] = @ + 1] /\ v \notin Versions
        BY <3>3 DEF TypeOK
      <3> QED  BY <1>2, <3>1, <3>2, <3>3 DEF SettleRequest
    <2>2. req' \in [Accounts -> [Keys -> RequestRow]]
      BY <1>2 DEF TypeOK, SettleRequest, RequestRow, RequestIn, Status
    <2> QED  BY <1>2, <2>1, <2>2 DEF TypeOK, SettleRequest, balances
  <1>3. CASE ReleaseRequest(a, k)
    <2>1. usd' \in [Accounts -> Wallet]
      BY <1>3, ReturnWallet DEF TypeOK, ReleaseRequest, ChargeOf, RequestRow
    <2>2. req' \in [Accounts -> [Keys -> RequestRow]]
      BY <1>3 DEF TypeOK, ReleaseRequest, RequestRow, RequestIn, Status
    <2> QED  BY <1>3, <2>1, <2>2 DEF TypeOK, ReleaseRequest
  <1>4. CASE MarkRequestUncertain(a, k)
    BY <1>4 DEF TypeOK, MarkRequestUncertain, balances, RequestRow, RequestIn, Status
  <1> QED  BY <1>1, <1>2, <1>3, <1>4

\* Completions, doubts and returns of metered requests.
LEMMA TypeUsage ==
    ASSUME TypeOK, NEW a \in Accounts, NEW k \in Keys,
           \/ \E actual \in Usages : \/ SettleUsdUsage(a, k, actual)
                                     \/ SettleTokensWithin(a, k, actual)
                                     \/ SettleTokensOver(a, k, actual)
           \/ MarkUncertain(a, k) \/ ReleaseUsd(a, k) \/ ReleaseTokens(a, k)
    PROVE  TypeOK'
  <1> USE AmountsAssumption
  <1> DEFINE row == res[a][k]
  <1>1. /\ row \in UsageRow /\ row.inc \in Nat /\ row.pre \in Nat /\ row.rch \in Nat
        /\ usd[a] \in Wallet /\ tok[a] \in Wallet /\ tok[a].prepaid \in Nat
        /\ included[a] \in Nat
    BY DEF TypeOK, UsageRow, Wallet
  <1>2. ASSUME NEW actual \in Usages, SettleUsdUsage(a, k, actual)  PROVE TypeOK'
    <2>1. actual \in Nat
      OBVIOUS
    <2>2. usd' \in [Accounts -> Wallet]
      BY <1>1, <1>2, <2>1, SettleUsdWallet DEF TypeOK, SettleUsdUsage
    <2>3. res' \in [Accounts -> [Keys -> UsageRow]]
      BY <1>2, <2>1, SMTT(30) DEF TypeOK, SettleUsdUsage, Settled, UsageIn, UsageRow, Status
    <2> QED  BY <1>2, <2>2, <2>3 DEF TypeOK, SettleUsdUsage
  <1>3. ASSUME NEW actual \in Usages, SettleTokensWithin(a, k, actual)  PROVE TypeOK'
    <2> DEFINE usedInc == Least(actual, row.inc)
               usedPre == Excess(actual, row.inc)
    <2>1. actual \in Nat
      OBVIOUS
    <2>2. /\ row.inc - usedInc \in Nat /\ row.pre - usedPre \in Nat
          /\ Excess(row.rch, usedPre) \in Nat
      BY <1>1, <1>3, <2>1 DEF SettleTokensWithin, Held, Least, Excess
    <2>3. included' \in [Accounts -> Nat]
      BY <1>1, <1>3, <2>2 DEF TypeOK, SettleTokensWithin
    <2>4. tok' \in [Accounts -> Wallet]
      BY <1>1, <1>3, <2>2, ReturnWallet DEF TypeOK, SettleTokensWithin
    <2>5. res' \in [Accounts -> [Keys -> UsageRow]]
      BY <1>3, <2>1, SMTT(30) DEF TypeOK, SettleTokensWithin, Settled, UsageIn, UsageRow, Status
    <2> QED  BY <1>3, <2>3, <2>4, <2>5 DEF TypeOK, SettleTokensWithin
  <1>4. ASSUME NEW actual \in Usages, SettleTokensOver(a, k, actual)  PROVE TypeOK'
    <2> DEFINE over     == actual - Held(row)
               fromPlan == IF SamePlan(a, row) /\ plan[a].metered
                           THEN Least(over, included[a]) ELSE 0
               fromPre  == Least(over - fromPlan, tok[a].prepaid)
    <2>1. actual \in Nat /\ over \in Nat
      BY <1>1, <1>4, SMTT(30) DEF SettleTokensOver, Held
    <2>2. fromPlan \in Nat /\ fromPlan <= included[a] /\ over - fromPlan \in Nat
      BY <1>1, <2>1 DEF Least
    <2>3. /\ fromPre \in Nat /\ fromPre <= tok[a].prepaid
          /\ over - fromPlan - fromPre \in Nat
      BY <1>1, <2>1, <2>2 DEF Least
    <2>4. included' \in [Accounts -> Nat]
      BY <1>1, <1>4, <2>2 DEF TypeOK, SettleTokensOver
    <2>5. Owe(Spend(tok[a], fromPre), over - fromPlan - fromPre) \in Wallet
      <3>1. Spend(tok[a], fromPre) \in Wallet
        BY <1>1, <2>3, SpendWallet
      <3> HIDE DEF fromPlan, fromPre
      <3> QED  BY <3>1, <2>3 DEF Owe, Wallet
    <2>6. tok' \in [Accounts -> Wallet]
      BY <1>1, <1>4, <2>5 DEF TypeOK, SettleTokensOver
    <2>7. res' \in [Accounts -> [Keys -> UsageRow]]
      BY <1>4, <2>1, SMTT(30) DEF TypeOK, SettleTokensOver, Settled, UsageIn, UsageRow, Status
    <2> QED  BY <1>4, <2>4, <2>6, <2>7 DEF TypeOK, SettleTokensOver
  <1>5. CASE MarkUncertain(a, k)
    BY <1>5 DEF TypeOK, MarkUncertain, balances, UsageIn, UsageRow, Status
  <1>6. CASE ReleaseUsd(a, k)
    <2>1. usd' \in [Accounts -> Wallet]
      BY <1>1, <1>6, ReturnWallet DEF TypeOK, ReleaseUsd
    <2>2. res' \in [Accounts -> [Keys -> UsageRow]]
      BY <1>6 DEF TypeOK, ReleaseUsd, UsageIn, UsageRow, Status
    <2> QED  BY <1>6, <2>1, <2>2 DEF TypeOK, ReleaseUsd
  <1>7. CASE ReleaseTokens(a, k)
    <2>1. tok' \in [Accounts -> Wallet]
      BY <1>1, <1>7, ReturnWallet DEF TypeOK, ReleaseTokens
    <2>2. res' \in [Accounts -> [Keys -> UsageRow]]
      BY <1>7 DEF TypeOK, ReleaseTokens, UsageIn, UsageRow, Status
    <2>3. included' \in [Accounts -> Nat]
      BY <1>1, <1>7 DEF TypeOK, ReleaseTokens
    <2> QED  BY <1>7, <2>1, <2>2, <2>3 DEF TypeOK, ReleaseTokens
  <1> QED  BY <1>2, <1>3, <1>4, <1>5, <1>6, <1>7

\* Grants, expiries, arriving credit and reversals.
LEMMA TypeAccount ==
    ASSUME TypeOK, NEW a \in Accounts, AccountStep(a)
    PROVE  TypeOK'
  <1> USE AmountsAssumption
  <1>1. ASSUME NEW v \in Versions, NEW t \in PlanTerms, GrantPlan(a, v, t)  PROVE TypeOK'
    BY <1>1, NamesAssumption DEF TypeOK, GrantPlan, holds, Plan
  <1>2. CASE PlanEnds(a)
    BY <1>2 DEF TypeOK, PlanEnds, balances, holds, Plan
  <1>3. ASSUME NEW n \in UsdCredits, NEW fromRch \in BOOLEAN, CreditUsd(a, n, fromRch)
        PROVE  TypeOK'
    <2>1. usd' \in [Accounts -> Wallet]
      BY <1>3, DepositWallet DEF TypeOK, CreditUsd
    <2>2. reversible' \in [Accounts -> Nat]
      BY <1>3 DEF TypeOK, CreditUsd
    <2> QED  BY <1>3, <2>1, <2>2 DEF TypeOK, CreditUsd, holds
  <1>4. ASSUME NEW n \in UsdCredits, ReverseUsd(a, n)  PROVE TypeOK'
    <2>1. usd' \in [Accounts -> Wallet]
      BY <1>4, TakeBackWallet DEF TypeOK, ReverseUsd
    <2>2. reversible' \in [Accounts -> Nat]
      BY <1>4 DEF TypeOK, ReverseUsd
    <2> QED  BY <1>4, <2>1, <2>2 DEF TypeOK, ReverseUsd, holds
  <1>5. ASSUME NEW n \in TokenCredits, CreditTokens(a, n)  PROVE TypeOK'
    <2>1. tok' \in [Accounts -> Wallet]
      BY <1>5, DepositWallet DEF TypeOK, CreditTokens
    <2> QED  BY <1>5, <2>1 DEF TypeOK, CreditTokens, holds
  <1> QED  BY <1>1, <1>2, <1>3, <1>4, <1>5 DEF AccountStep

\* The empty ledger is well typed.
LEMMA TypeInit == Init => TypeOK
  BY AmountsAssumption DEF Init, TypeOK, NoPlan, Plan, PlanKinds, EmptyWallet, Wallet,
        NoRequestRow, RequestRow, NoUsageRow, UsageRow, NoPlusRow, PlusRow, Status

\* The ledger's tables keep their types and no balance, debt, allowance or
\* period count ever becomes negative or passes its limit.
THEOREM TypeCorrect == Spec => []TypeOK
  <1>1. TypeOK /\ [Next]_vars => TypeOK'
    <2> SUFFICES ASSUME TypeOK, [Next]_vars  PROVE TypeOK'
      OBVIOUS
    <2>1. CASE UNCHANGED vars
      BY <2>1 DEF TypeOK, vars
    <2>2. ASSUME NEW a \in Accounts, AccountStep(a)  PROVE TypeOK'
      BY <2>2, TypeAccount
    <2>3. ASSUME NEW a \in Accounts, NEW k \in Keys, RequestStep(a, k)  PROVE TypeOK'
      BY <2>3, TypeReserve, TypeRequest DEF RequestStep
    <2>4. ASSUME NEW a \in Accounts, NEW k \in Keys, UsageStep(a, k)  PROVE TypeOK'
      BY <2>4, TypeReserve, TypeUsage DEF UsageStep
    <2> QED  BY <2>1, <2>2, <2>3, <2>4 DEF Next
  <1> QED  BY TypeInit, <1>1, PTL DEF Spec

-----------------------------------------------------------------------------
(* RCH provenance.  RchBacked is not inductive: giving a hold back adds the *)
(* RCH part its row recorded, so that part must be within what is returned. *)

\* What each hold recorded as RCH credit is part of what it took.
HoldsBacked ==
    \A a \in Accounts, k \in Keys : /\ req[a][k].rch <= ChargeOf(req[a][k])
                                   /\ res[a][k].rch <= res[a][k].pre

ProvenanceInv == TypeOK /\ HoldsBacked /\ RchBacked

\* An operation that changes one USD wallet into a backed one keeps RchBacked.
LEMMA UsdBacked ==
    ASSUME TypeOK, RchBacked, NEW a \in Accounts, NEW w, Backed(w),
           usd' = [usd EXCEPT ![a] = w], tok' = tok
    PROVE  RchBacked'
  BY DEF RchBacked, TypeOK

\* The same for a token wallet.
LEMMA TokBacked ==
    ASSUME TypeOK, RchBacked, NEW a \in Accounts, NEW w, Backed(w),
           tok' = [tok EXCEPT ![a] = w], usd' = usd
    PROVE  RchBacked'
  BY DEF RchBacked, TypeOK

\* Every wallet of a reachable state is well formed and covered.
LEMMA WalletsBacked ==
    ASSUME ProvenanceInv, NEW a \in Accounts
    PROVE  /\ usd[a] \in Wallet /\ Backed(usd[a])
           /\ tok[a] \in Wallet /\ Backed(tok[a])
  BY DEF ProvenanceInv, TypeOK, RchBacked

\* Subscription requests keep RCH credit covered.
LEMMA ProvenanceRequest ==
    ASSUME ProvenanceInv, NEW a \in Accounts, NEW k \in Keys, RequestStep(a, k)
    PROVE  HoldsBacked' /\ RchBacked'
  <1> USE AmountsAssumption DEF ProvenanceInv
  <1>0. usd[a] \in Wallet /\ Backed(usd[a])
    BY WalletsBacked
  <1>1. ASSUME NEW i \in Inputs, ReserveRequest(a, k, i)  PROVE HoldsBacked' /\ RchBacked'
    <2> DEFINE charge == IF BasicActive(a) /\ Remaining(a) > 0 THEN 0 ELSE Overage
    <2>1. charge \in Nat /\ charge <= usd[a].prepaid
      BY <1>0, <1>1 DEF ReserveRequest, Wallet
    <2>2. Backed(Spend(usd[a], charge))
      BY <1>0, <2>1, SpendWallet
    <2>3. RchBacked'
      BY <1>1, <2>2, UsdBacked DEF ReserveRequest
    <2>4. Least(charge, usd[a].rch) <= charge
      BY <1>0, <2>1 DEF Least, Wallet
    <2>5. HoldsBacked'
      BY <1>1, <2>4 DEF HoldsBacked, ReserveRequest, ChargeOf, TypeOK
    <2> QED  BY <2>3, <2>5
  <1>2. CASE SettleRequest(a, k)
    BY <1>2 DEF HoldsBacked, RchBacked, SettleRequest, balances, RequestIn, ChargeOf, TypeOK
  <1>3. CASE ReleaseRequest(a, k)
    <2> DEFINE row == req[a][k]
    <2>1. row.rch \in Nat /\ ChargeOf(row) \in Nat /\ row.rch <= ChargeOf(row)
      BY DEF HoldsBacked, TypeOK, RequestRow, ChargeOf
    <2>2. Backed(Return(usd[a], ChargeOf(row), row.rch))
      BY <1>0, <2>1, ReturnWallet
    <2>3. RchBacked'
      BY <1>3, <2>2, UsdBacked DEF ReleaseRequest, RchBacked
    <2>4. HoldsBacked'
      BY <1>3 DEF HoldsBacked, ReleaseRequest, RequestIn, ChargeOf, TypeOK
    <2> QED  BY <2>3, <2>4
  <1>4. CASE MarkRequestUncertain(a, k)
    BY <1>4 DEF HoldsBacked, RchBacked, MarkRequestUncertain, balances, RequestIn, ChargeOf, TypeOK
  <1>5. ASSUME \/ \E i \in Inputs : ReservePlus(a, k, i)
               \/ SettlePlus(a, k) \/ ReleasePlus(a, k) \/ MarkPlusUncertain(a, k)
        PROVE  HoldsBacked' /\ RchBacked'
    <2>1. UNCHANGED <<usd, tok, req, res>>
      BY <1>5 DEF ReservePlus, SettlePlus, ReleasePlus, MarkPlusUncertain, balances
    <2> QED  BY <2>1 DEF HoldsBacked, RchBacked
  <1> QED  BY <1>1, <1>2, <1>3, <1>4, <1>5 DEF RequestStep

\* Metered requests do, also when usage exceeds the hold.
LEMMA ProvenanceUsage ==
    ASSUME ProvenanceInv, NEW a \in Accounts, NEW k \in Keys, UsageStep(a, k)
    PROVE  HoldsBacked' /\ RchBacked'
  <1> USE AmountsAssumption DEF ProvenanceInv
  <1> DEFINE row == res[a][k]
  <1>0. /\ usd[a] \in Wallet /\ Backed(usd[a])
        /\ tok[a] \in Wallet /\ Backed(tok[a]) /\ tok[a].prepaid \in Nat
        /\ row.inc \in Nat /\ row.pre \in Nat /\ row.rch \in Nat /\ row.rch <= row.pre
        /\ included[a] \in Nat
    BY WalletsBacked DEF TypeOK, UsageRow, HoldsBacked, Wallet
  <1>1. ASSUME NEW i \in Inputs, NEW n \in UsdAmounts, ReserveUsd(a, k, i, n)
        PROVE  HoldsBacked' /\ RchBacked'
    <2>1. n \in Nat /\ n <= usd[a].prepaid
      BY <1>1 DEF ReserveUsd
    <2>2. Backed(Spend(usd[a], n)) /\ Least(n, usd[a].rch) <= n
      BY <1>0, <2>1, SpendWallet DEF Least, Wallet
    <2>3. RchBacked'
      BY <1>1, <2>2, UsdBacked DEF ReserveUsd
    <2>4. HoldsBacked'
      BY <1>1, <2>2 DEF HoldsBacked, ReserveUsd, TypeOK
    <2> QED  BY <2>3, <2>4
  <1>2. ASSUME NEW i \in Inputs, NEW n \in TokenAmounts, ReserveTokens(a, k, i, n)
        PROVE  HoldsBacked' /\ RchBacked'
    <2> DEFINE fromPlan == IF PlanEntitled(a) THEN Least(included[a], n) ELSE 0
    <2>1. n \in Nat /\ fromPlan \in Nat /\ fromPlan <= n
      BY <1>0 DEF Least
    <2>2. n - fromPlan \in Nat /\ n - fromPlan <= tok[a].prepaid
      BY <1>0, <1>2, <2>1 DEF ReserveTokens
    <2>3. Backed(Spend(tok[a], n - fromPlan)) /\ Least(n - fromPlan, tok[a].rch) <= n - fromPlan
      BY <1>0, <2>2, SpendWallet DEF Least, Wallet
    <2>4. RchBacked'
      BY <1>2, <2>3, TokBacked DEF ReserveTokens
    <2>5. HoldsBacked'
      BY <1>2, <2>3 DEF HoldsBacked, ReserveTokens, TypeOK
    <2> QED  BY <2>4, <2>5
  <1>3. ASSUME NEW actual \in Usages, SettleUsdUsage(a, k, actual)
        PROVE  HoldsBacked' /\ RchBacked'
    <2>1. Backed(SettleUsd(usd[a], row.pre, row.rch, actual))
      BY <1>0, SettleUsdWallet
    <2>2. RchBacked'
      BY <1>3, <2>1, UsdBacked DEF SettleUsdUsage
    <2>3. HoldsBacked'
      BY <1>3 DEF HoldsBacked, SettleUsdUsage, Settled, UsageIn, TypeOK
    <2> QED  BY <2>2, <2>3
  <1>4. ASSUME NEW actual \in Usages, SettleTokensWithin(a, k, actual)
        PROVE  HoldsBacked' /\ RchBacked'
    <2> DEFINE usedPre == Excess(actual, row.inc)
    <2>1. /\ row.pre - usedPre \in Nat /\ Excess(row.rch, usedPre) \in Nat
          /\ Excess(row.rch, usedPre) <= row.pre - usedPre
      BY <1>0, <1>4 DEF SettleTokensWithin, Held, Excess
    <2>2. Backed(Return(tok[a], row.pre - usedPre, Excess(row.rch, usedPre)))
      BY <1>0, <2>1, ReturnWallet
    <2>3. RchBacked'
      BY <1>4, <2>2, TokBacked DEF SettleTokensWithin
    <2>4. HoldsBacked'
      BY <1>4 DEF HoldsBacked, SettleTokensWithin, Settled, UsageIn, TypeOK
    <2> QED  BY <2>3, <2>4
  <1>5. ASSUME NEW actual \in Usages, SettleTokensOver(a, k, actual)
        PROVE  HoldsBacked' /\ RchBacked'
    <2> DEFINE over     == actual - Held(row)
               fromPlan == IF SamePlan(a, row) /\ plan[a].metered
                           THEN Least(over, included[a]) ELSE 0
               fromPre  == Least(over - fromPlan, tok[a].prepaid)
    <2>1. over - fromPlan \in Nat
      BY <1>0, <1>5 DEF SettleTokensOver, Held, Least
    <2>2. fromPre \in Nat /\ fromPre <= tok[a].prepaid
      BY <1>0, <2>1 DEF Least
    <2>3. Backed(Spend(tok[a], fromPre))
      BY <1>0, <2>2, SpendWallet
    <2>4. Backed(Owe(Spend(tok[a], fromPre), over - fromPlan - fromPre))
      BY <2>3 DEF Owe, Backed
    <2>5. RchBacked'
      BY <1>5, <2>4, TokBacked DEF SettleTokensOver
    <2>6. HoldsBacked'
      BY <1>5 DEF HoldsBacked, SettleTokensOver, Settled, UsageIn, TypeOK
    <2> QED  BY <2>5, <2>6
  <1>6. CASE MarkUncertain(a, k)
    BY <1>6 DEF HoldsBacked, RchBacked, MarkUncertain, balances, UsageIn, TypeOK
  <1>7. CASE ReleaseUsd(a, k)
    <2>1. RchBacked'
      BY <1>0, <1>7, ReturnWallet, UsdBacked DEF ReleaseUsd
    <2>2. HoldsBacked'
      BY <1>7 DEF HoldsBacked, ReleaseUsd, UsageIn, TypeOK
    <2> QED  BY <2>1, <2>2
  <1>8. CASE ReleaseTokens(a, k)
    <2>1. RchBacked'
      BY <1>0, <1>8, ReturnWallet, TokBacked DEF ReleaseTokens
    <2>2. HoldsBacked'
      BY <1>8 DEF HoldsBacked, ReleaseTokens, UsageIn, TypeOK
    <2> QED  BY <2>1, <2>2
  <1> QED  BY <1>1, <1>2, <1>3, <1>4, <1>5, <1>6, <1>7, <1>8 DEF UsageStep

\* Grants, deposits and reversals do.
LEMMA ProvenanceAccount ==
    ASSUME ProvenanceInv, NEW a \in Accounts, AccountStep(a)
    PROVE  HoldsBacked' /\ RchBacked'
  <1> USE AmountsAssumption DEF ProvenanceInv
  <1>0. /\ usd[a] \in Wallet /\ Backed(usd[a])
        /\ tok[a] \in Wallet /\ Backed(tok[a])
    BY WalletsBacked
  <1>1. UNCHANGED <<req, res>>
    BY DEF AccountStep, GrantPlan, PlanEnds, CreditUsd, CreditTokens, ReverseUsd, holds
  <1>2. HoldsBacked'
    BY <1>1 DEF HoldsBacked
  <1>3. ASSUME \/ \E v \in Versions, t \in PlanTerms : GrantPlan(a, v, t)
               \/ PlanEnds(a)
        PROVE  RchBacked'
    BY <1>3 DEF GrantPlan, PlanEnds, balances, RchBacked
  <1>4. ASSUME NEW n \in UsdCredits, NEW fromRch \in BOOLEAN, CreditUsd(a, n, fromRch)
        PROVE  RchBacked'
    BY <1>0, <1>4, DepositWallet, UsdBacked DEF CreditUsd
  <1>5. ASSUME NEW n \in UsdCredits, ReverseUsd(a, n)  PROVE RchBacked'
    BY <1>0, <1>5, TakeBackWallet, UsdBacked DEF ReverseUsd
  <1>6. ASSUME NEW n \in TokenCredits, CreditTokens(a, n)  PROVE RchBacked'
    BY <1>0, <1>6, DepositWallet, TokBacked DEF CreditTokens
  <1> QED  BY <1>2, <1>3, <1>4, <1>5, <1>6 DEF AccountStep

\* RCH credit is always covered by the balance it belongs to, whatever holds,
\* over-runs, reversals and refunds of any size are in flight.
THEOREM ProvenanceKept == Spec => []RchBacked
  <1>1. Init => ProvenanceInv
    BY TypeInit, AmountsAssumption DEF ProvenanceInv, Init, HoldsBacked, RchBacked, Backed, EmptyWallet,
                      NoRequestRow, NoUsageRow, ChargeOf
  <1>2. ProvenanceInv /\ TypeOK' /\ [Next]_vars => ProvenanceInv'
    <2> SUFFICES ASSUME ProvenanceInv, TypeOK', [Next]_vars  PROVE HoldsBacked' /\ RchBacked'
      BY DEF ProvenanceInv
    <2>1. CASE UNCHANGED vars
      BY <2>1 DEF ProvenanceInv, HoldsBacked, RchBacked, vars
    <2> QED  BY <2>1, ProvenanceRequest, ProvenanceUsage, ProvenanceAccount DEF Next
  <1>3. ProvenanceInv => RchBacked
    BY DEF ProvenanceInv
  <1> QED  BY <1>1, <1>2, <1>3, TypeCorrect, PTL DEF Spec

-----------------------------------------------------------------------------
(* Basic periods.  A completion may be counted in a period other than the   *)
(* current one, so every included row must name a period that was granted.  *)

\* Included rows and plans name a grant.
PeriodsNamed ==
    /\ \A a \in Accounts : plan[a].kind # "none" => plan[a].version \in Versions
    /\ \A a \in Accounts, k \in Keys : req[a][k].included => req[a][k].version \in Versions

PeriodInv == TypeOK /\ PeriodsNamed /\ PeriodWithinLimit

\* The running requests of a period can be counted.
LEMMA OutstandingFinite ==
    ASSUME NEW a \in Accounts, NEW v
    PROVE  IsFiniteSet(Outstanding(a, v)) /\ Cardinality(Outstanding(a, v)) \in Nat
  <1>1. Outstanding(a, v) \subseteq Keys
    BY DEF Outstanding
  <1> QED  BY <1>1, NamesAssumption, FS_Subset, FS_CardinalityType

\* Rows that leave no new place occupied and no completion counted keep the bound.
LEMMA FewerPlaces ==
    ASSUME PeriodInv, completed' = completed,
           \A b \in Accounts, v \in Versions : Outstanding(b, v)' \subseteq Outstanding(b, v)
    PROVE  PeriodWithinLimit'
  <1> SUFFICES ASSUME NEW b \in Accounts, NEW v \in Versions
               PROVE  completed'[b][v] + Cardinality(Outstanding(b, v)') <= IncludedLimit
    BY DEF PeriodWithinLimit
  <1>1. /\ Cardinality(Outstanding(b, v)') <= Cardinality(Outstanding(b, v))
        /\ Cardinality(Outstanding(b, v)') \in Nat /\ Cardinality(Outstanding(b, v)) \in Nat
    BY OutstandingFinite, FS_Subset, FS_CardinalityType
  <1>2. completed[b][v] \in Nat /\ completed[b][v] + Cardinality(Outstanding(b, v)) <= IncludedLimit
    BY DEF PeriodInv, PeriodWithinLimit, TypeOK
  <1> QED  BY <1>1, <1>2, AmountsAssumption

\* A new included request takes one of the places that remain.
LEMMA PeriodReserve ==
    ASSUME PeriodInv, NEW a \in Accounts, NEW k \in Keys, NEW i \in Inputs,
           ReserveRequest(a, k, i)
    PROVE  PeriodWithinLimit'
  <1> USE DEF PeriodInv
  <1> DEFINE inc == BasicActive(a) /\ Remaining(a) > 0
  <1>0. PICK p : p = plan[a].version
    OBVIOUS
  <1>1. k \notin Outstanding(a, p)
    BY DEF ReserveRequest, Reusable, Outstanding, Occupying, OpenStatus
  <1>2. CASE ~inc
    <2>1. \A b \in Accounts, v \in Versions : Outstanding(b, v)' \subseteq Outstanding(b, v)
      BY <1>2 DEF ReserveRequest, Outstanding, TypeOK
    <2> QED  BY <2>1, FewerPlaces DEF ReserveRequest
  <1>3. CASE inc
    <2>0. p \in Versions
      BY <1>0, <1>3 DEF PeriodsNamed, BasicActive
    <2>1. /\ Outstanding(a, p)' = Outstanding(a, p) \cup {k}
          /\ \A b \in Accounts, v \in Versions :
                b # a \/ v # p => Outstanding(b, v)' \subseteq Outstanding(b, v)
      BY <1>0, <1>3, ZenonT(40) DEF ReserveRequest, Outstanding, Occupying, OpenStatus, TypeOK
    <2>2. Cardinality(Outstanding(a, p)') = Cardinality(Outstanding(a, p)) + 1
      BY <1>1, <2>1, OutstandingFinite, FS_AddElement
    <2>3. completed[a][p] \in Nat /\ Cardinality(Outstanding(a, p)) \in Nat
      BY <2>0, OutstandingFinite DEF TypeOK
    <2>4. completed'[a][p] + Cardinality(Outstanding(a, p)') <= IncludedLimit
      BY <1>0, <1>3, <2>2, <2>3, AmountsAssumption DEF Remaining, ReserveRequest
    <2>5. ASSUME NEW b \in Accounts, NEW v \in Versions, b # a \/ v # p
          PROVE  completed'[b][v] + Cardinality(Outstanding(b, v)') <= IncludedLimit
      <3>1. /\ Cardinality(Outstanding(b, v)') <= Cardinality(Outstanding(b, v))
            /\ Cardinality(Outstanding(b, v)') \in Nat /\ Cardinality(Outstanding(b, v)) \in Nat
        BY <2>1, <2>5, OutstandingFinite, FS_Subset, FS_CardinalityType
      <3>2. completed'[b][v] \in Nat /\ completed'[b][v] + Cardinality(Outstanding(b, v)) <= IncludedLimit
        BY DEF PeriodWithinLimit, TypeOK, ReserveRequest
      <3> QED  BY <3>1, <3>2, AmountsAssumption
    <2> QED  BY <2>4, <2>5 DEF PeriodWithinLimit
  <1> QED  BY <1>2, <1>3

\* A completion moves one place from running to completed, in its own period.
LEMMA PeriodSettle ==
    ASSUME PeriodInv, NEW a \in Accounts, NEW k \in Keys, SettleRequest(a, k)
    PROVE  PeriodWithinLimit'
  <1> USE DEF PeriodInv
  <1>0. PICK p : p = req[a][k].version
    OBVIOUS
  <1>1. \A b \in Accounts, v \in Versions : Outstanding(b, v)' \subseteq Outstanding(b, v)
    BY DEF SettleRequest, Outstanding, Occupying, OpenStatus, RequestIn, TypeOK
  <1>2. CASE ~req[a][k].included
    BY <1>1, <1>2, FewerPlaces DEF SettleRequest
  <1>3. CASE req[a][k].included
    <2>0. p \in Versions
      BY <1>0, <1>3 DEF PeriodsNamed
    <2>1. k \in Outstanding(a, p) /\ Outstanding(a, p)' = Outstanding(a, p) \ {k}
      BY <1>0, <1>3 DEF SettleRequest, Outstanding, Occupying, OpenStatus, RequestIn, TypeOK
    <2>2. Cardinality(Outstanding(a, p)') = Cardinality(Outstanding(a, p)) - 1
      BY <2>1, OutstandingFinite, FS_RemoveElement
    <2>3. completed' = [completed EXCEPT ![a][p] = @ + 1]
      BY <1>0, <1>3 DEF SettleRequest
    <2> SUFFICES ASSUME NEW b \in Accounts, NEW v \in Versions
                 PROVE  completed'[b][v] + Cardinality(Outstanding(b, v)') <= IncludedLimit
      BY DEF PeriodWithinLimit
    <2>4. /\ completed[b][v] \in Nat /\ Cardinality(Outstanding(b, v)) \in Nat
          /\ completed[b][v] + Cardinality(Outstanding(b, v)) <= IncludedLimit
      BY OutstandingFinite DEF TypeOK, PeriodWithinLimit
    <2>5. CASE b = a /\ v = p
      <3>1. completed'[b][v] = completed[b][v] + 1
        BY <2>3, <2>5, <2>0 DEF TypeOK
      <3> QED  BY <2>2, <2>4, <2>5, <3>1, AmountsAssumption
    <2>6. CASE b # a \/ v # p
      <3>1. completed'[b][v] = completed[b][v]
        BY <2>3, <2>6, <2>0 DEF TypeOK
      <3>2. /\ Cardinality(Outstanding(b, v)') <= Cardinality(Outstanding(b, v))
            /\ Cardinality(Outstanding(b, v)') \in Nat
        BY <1>1, OutstandingFinite, FS_Subset, FS_CardinalityType
      <3> QED  BY <2>4, <3>1, <3>2, AmountsAssumption
    <2> QED  BY <2>5, <2>6
  <1> QED  BY <1>2, <1>3

\* Every other step leaves the places alone or frees one.
LEMMA PeriodOther ==
    ASSUME PeriodInv,
           \/ UNCHANGED vars
           \/ \E a \in Accounts : AccountStep(a)
           \/ \E a \in Accounts, k \in Keys :
                 \/ UsageStep(a, k)
                 \/ ReleaseRequest(a, k) \/ MarkRequestUncertain(a, k)
                 \/ \E i \in Inputs : ReservePlus(a, k, i)
                 \/ SettlePlus(a, k) \/ ReleasePlus(a, k) \/ MarkPlusUncertain(a, k)
    PROVE  PeriodWithinLimit'
  <1> USE DEF PeriodInv
  <1>1. ASSUME NEW a \in Accounts, NEW k \in Keys, ReleaseRequest(a, k)
        PROVE  PeriodWithinLimit'
    <2>1. \A b \in Accounts, v \in Versions : Outstanding(b, v)' \subseteq Outstanding(b, v)
      BY <1>1 DEF ReleaseRequest, Outstanding, Occupying, OpenStatus, RequestIn, TypeOK
    <2> QED  BY <1>1, <2>1, FewerPlaces DEF ReleaseRequest
  <1>2. ASSUME NEW a \in Accounts, NEW k \in Keys, MarkRequestUncertain(a, k)
        PROVE  PeriodWithinLimit'
    <2>1. \A b \in Accounts, v \in Versions : Outstanding(b, v)' \subseteq Outstanding(b, v)
      BY <1>2 DEF MarkRequestUncertain, Outstanding, Occupying, OpenStatus, RequestIn, TypeOK
    <2> QED  BY <1>2, <2>1, FewerPlaces DEF MarkRequestUncertain
  <1>3. ASSUME UNCHANGED <<completed, req>>  PROVE PeriodWithinLimit'
    BY <1>3 DEF PeriodWithinLimit, Outstanding
  <1>4. ASSUME NEW a \in Accounts, NEW k \in Keys, UsageStep(a, k)
        PROVE  UNCHANGED <<completed, req>>
    BY <1>4 DEF UsageStep, ReserveUsd, ReserveTokens, SettleUsdUsage, SettleTokensWithin,
                SettleTokensOver, MarkUncertain, ReleaseUsd, ReleaseTokens
  <1>5. ASSUME NEW a \in Accounts, AccountStep(a)
        PROVE  UNCHANGED <<completed, req>>
    BY <1>5 DEF AccountStep, GrantPlan, PlanEnds, CreditUsd, CreditTokens, ReverseUsd, holds
  <1>6. ASSUME NEW a \in Accounts, NEW k \in Keys,
               \/ \E i \in Inputs : ReservePlus(a, k, i)
               \/ SettlePlus(a, k) \/ ReleasePlus(a, k) \/ MarkPlusUncertain(a, k)
        PROVE  UNCHANGED <<completed, req>>
    BY <1>6 DEF ReservePlus, SettlePlus, ReleasePlus, MarkPlusUncertain
  <1> QED  BY <1>1, <1>2, <1>3, <1>4, <1>5, <1>6 DEF vars

\* Included rows go on naming a grant.
LEMMA PeriodsStayNamed ==
    ASSUME PeriodInv, [Next]_vars
    PROVE  PeriodsNamed'
  <1> USE DEF PeriodInv
  <1>1. CASE UNCHANGED <<plan, req>>
    BY <1>1 DEF PeriodsNamed
  <1>2. ASSUME NEW a \in Accounts, NEW v \in Versions, NEW t \in PlanTerms, GrantPlan(a, v, t)
        PROVE  PeriodsNamed'
    BY <1>2 DEF GrantPlan, holds, PeriodsNamed, TypeOK
  <1>3. ASSUME NEW a \in Accounts, PlanEnds(a)  PROVE PeriodsNamed'
    BY <1>3 DEF PlanEnds, holds, PeriodsNamed, TypeOK
  <1>4. ASSUME NEW a \in Accounts, NEW k \in Keys, NEW i \in Inputs, ReserveRequest(a, k, i)
        PROVE  PeriodsNamed'
    BY <1>4 DEF ReserveRequest, BasicActive, PeriodsNamed, TypeOK
  <1>5. ASSUME NEW a \in Accounts, NEW k \in Keys,
               SettleRequest(a, k) \/ ReleaseRequest(a, k) \/ MarkRequestUncertain(a, k)
        PROVE  PeriodsNamed'
    <2>1. plan' = plan /\ \E s \in Status : req' = [req EXCEPT ![a][k] = RequestIn(@, s)]
      BY <1>5 DEF SettleRequest, ReleaseRequest, MarkRequestUncertain, Status
    <2> QED  BY <2>1 DEF PeriodsNamed, RequestIn, TypeOK
  <1>6. ASSUME NEW a \in Accounts, NEW k \in Keys,
               \/ UsageStep(a, k) \/ \E i \in Inputs : ReservePlus(a, k, i)
               \/ SettlePlus(a, k) \/ ReleasePlus(a, k) \/ MarkPlusUncertain(a, k)
        PROVE  UNCHANGED <<plan, req>>
    BY <1>6 DEF UsageStep, ReserveUsd, ReserveTokens, SettleUsdUsage, SettleTokensWithin,
                SettleTokensOver, MarkUncertain, ReleaseUsd, ReleaseTokens,
                ReservePlus, SettlePlus, ReleasePlus, MarkPlusUncertain
  <1>7. ASSUME NEW a \in Accounts, AccountStep(a)
        PROVE  \/ UNCHANGED <<plan, req>>
               \/ PlanEnds(a)
               \/ \E v \in Versions, t \in PlanTerms : GrantPlan(a, v, t)
    BY <1>7 DEF AccountStep, CreditUsd, CreditTokens, ReverseUsd, holds
  <1> QED  BY <1>1, <1>2, <1>3, <1>4, <1>5, <1>6, <1>7 DEF Next, RequestStep, vars

\* However renewals, retries and late completions interleave, a Basic period
\* never promises more than its included requests.
THEOREM PeriodBounded == Spec => []PeriodWithinLimit
  <1>1. Init => PeriodInv
    <2> SUFFICES ASSUME Init  PROVE PeriodInv
      OBVIOUS
    <2>1. PeriodsNamed
      BY DEF Init, PeriodsNamed, NoPlan, NoRequestRow
    <2>2. \A a \in Accounts, v \in Versions : Outstanding(a, v) = {} /\ completed[a][v] = 0
      BY DEF Init, Outstanding, Occupying, OpenStatus, NoRequestRow
    <2>3. PeriodWithinLimit
      BY <2>2, FS_EmptySet, AmountsAssumption DEF PeriodWithinLimit
    <2> QED  BY <2>1, <2>3, TypeInit DEF PeriodInv
  <1>2. PeriodInv /\ TypeOK' /\ [Next]_vars => PeriodInv'
    <2> SUFFICES ASSUME PeriodInv, TypeOK', [Next]_vars  PROVE PeriodWithinLimit'
      BY PeriodsStayNamed DEF PeriodInv
    <2> QED  BY PeriodReserve, PeriodSettle, PeriodOther DEF Next, RequestStep
  <1>3. PeriodInv => PeriodWithinLimit
    BY DEF PeriodInv
  <1> QED  BY <1>1, <1>2, <1>3, TypeCorrect, PTL DEF Spec

-----------------------------------------------------------------------------
(* One table per key, and one life per key.                                 *)

\* The status columns of one key, and how a step may change them: at most one
\* key moves, in one table, the other tables having no row for it.
Moves(a, k, from, to) ==
    \/ /\ plus[a][k].status = from
       /\ from = "none" => req[a][k].status = "none" /\ res[a][k].status = "none"
       /\ \E row : row.status = to /\ plus' = [plus EXCEPT ![a][k] = row]
       /\ UNCHANGED <<req, res>>
    \/ /\ req[a][k].status = from
       /\ plus[a][k].status = "none"
       /\ from = "none" => res[a][k].status = "none"
       /\ \E row : row.status = to /\ req' = [req EXCEPT ![a][k] = row]
       /\ UNCHANGED <<plus, res>>
    \/ /\ res[a][k].status = from
       /\ from = "none" => plus[a][k].status = "none" /\ req[a][k].status = "none"
       /\ \E row : row.status = to /\ res' = [res EXCEPT ![a][k] = row]
       /\ UNCHANGED <<plus, req>>

\* The life Holds allows.
Allowed(from, to) ==
    \/ from \in {"none", "released"} /\ to = "reserved"
    \/ from = "reserved" /\ to \in {"uncertain", "released"}
    \/ from \in OpenStatus /\ to = "settled"

\* A subscription request moves one key, between statuses the promise allows.
LEMMA RequestMoves ==
    ASSUME NEW a \in Accounts, NEW k \in Keys, RequestStep(a, k)
    PROVE  \E from, to \in Status : Allowed(from, to) /\ Moves(a, k, from, to)
  <1> USE DEF Status, OpenStatus, Allowed
  <1>1. ASSUME NEW i \in Inputs, ReservePlus(a, k, i)
        PROVE  \E from \in {"none", "released"} : Moves(a, k, from, "reserved")
    BY <1>1 DEF ReservePlus, Reusable, Moves
  <1>2. ASSUME NEW i \in Inputs, ReserveRequest(a, k, i)
        PROVE  \E from \in {"none", "released"} : Moves(a, k, from, "reserved")
    BY <1>2 DEF ReserveRequest, Reusable, Moves
  <1>3. CASE SettlePlus(a, k)
    BY <1>3 DEF SettlePlus, PlusIn, Moves
  <1>4. CASE SettleRequest(a, k)
    BY <1>4 DEF SettleRequest, RequestIn, Moves
  <1>5. CASE ReleasePlus(a, k)
    BY <1>5 DEF ReleasePlus, Returnable, PlusIn, Moves
  <1>6. CASE ReleaseRequest(a, k)
    BY <1>6 DEF ReleaseRequest, Returnable, RequestIn, Moves
  <1>7. CASE MarkPlusUncertain(a, k)
    BY <1>7 DEF MarkPlusUncertain, PlusIn, Moves
  <1>8. CASE MarkRequestUncertain(a, k)
    BY <1>8 DEF MarkRequestUncertain, RequestIn, Moves
  <1> QED  BY <1>1, <1>2, <1>3, <1>4, <1>5, <1>6, <1>7, <1>8 DEF RequestStep

\* So does a metered request.
LEMMA UsageMoves ==
    ASSUME NEW a \in Accounts, NEW k \in Keys, UsageStep(a, k)
    PROVE  \E from, to \in Status : Allowed(from, to) /\ Moves(a, k, from, to)
  <1> USE DEF Status, OpenStatus, Allowed
  <1>1. ASSUME NEW i \in Inputs, NEW n \in UsdAmounts, ReserveUsd(a, k, i, n)
        PROVE  \E from \in {"none", "released"} : Moves(a, k, from, "reserved")
    BY <1>1 DEF ReserveUsd, FreeOfRequests, Reusable, Moves
  <1>2. ASSUME NEW i \in Inputs, NEW n \in TokenAmounts, ReserveTokens(a, k, i, n)
        PROVE  \E from \in {"none", "released"} : Moves(a, k, from, "reserved")
    BY <1>2 DEF ReserveTokens, FreeOfRequests, Reusable, Moves
  <1>3. ASSUME NEW actual \in Usages,
               \/ SettleUsdUsage(a, k, actual)
               \/ SettleTokensWithin(a, k, actual)
               \/ SettleTokensOver(a, k, actual)
        PROVE  \E from \in OpenStatus : Moves(a, k, from, "settled")
    BY <1>3 DEF SettleUsdUsage, SettleTokensWithin, SettleTokensOver, Settled, UsageIn, Moves
  <1>4. CASE MarkUncertain(a, k)
    BY <1>4 DEF MarkUncertain, UsageIn, Moves
  <1>5. CASE ReleaseUsd(a, k)
    BY <1>5 DEF ReleaseUsd, Returnable, UsageIn, Moves
  <1>6. CASE ReleaseTokens(a, k)
    BY <1>6 DEF ReleaseTokens, Returnable, UsageIn, Moves
  <1> QED  BY <1>1, <1>2, <1>3, <1>4, <1>5, <1>6 DEF UsageStep

\* Plans and credit move no hold.
LEMMA AccountMovesNone ==
    ASSUME NEW a \in Accounts, AccountStep(a)
    PROVE  UNCHANGED holds
  BY DEF AccountStep, GrantPlan, PlanEnds, CreditUsd, CreditTokens, ReverseUsd

\* Whatever plan, product and currency its requests ask for, an account's key is
\* billed in one table only.
THEOREM OneTable == Spec => []OneTablePerKey
  <1>1. Init => OneTablePerKey
    BY DEF Init, OneTablePerKey, NoPlusRow, NoRequestRow, NoUsageRow
  <1>2. TypeOK /\ OneTablePerKey /\ [Next]_vars => OneTablePerKey'
    <2> SUFFICES ASSUME TypeOK, OneTablePerKey, [Next]_vars  PROVE OneTablePerKey'
      OBVIOUS
    <2>1. ASSUME UNCHANGED holds  PROVE OneTablePerKey'
      BY <2>1 DEF OneTablePerKey, holds
    <2>2. ASSUME NEW a \in Accounts, NEW k \in Keys, NEW from \in Status, NEW to \in Status,
                 Allowed(from, to), Moves(a, k, from, to)
          PROVE  OneTablePerKey'
      <3>1. ASSUME NEW row, row.status = to, UNCHANGED <<req, res>>,
                   plus' = [plus EXCEPT ![a][k] = row],
                   req[a][k].status = "none", res[a][k].status = "none"
            PROVE  OneTablePerKey'
        BY <3>1 DEF OneTablePerKey, TypeOK
      <3>2. ASSUME NEW row, row.status = to, UNCHANGED <<plus, res>>,
                   req' = [req EXCEPT ![a][k] = row],
                   plus[a][k].status = "none", res[a][k].status = "none"
            PROVE  OneTablePerKey'
        BY <3>2 DEF OneTablePerKey, TypeOK
      <3>3. ASSUME NEW row, row.status = to, UNCHANGED <<plus, req>>,
                   res' = [res EXCEPT ![a][k] = row],
                   plus[a][k].status = "none", req[a][k].status = "none"
            PROVE  OneTablePerKey'
        BY <3>3 DEF OneTablePerKey, TypeOK
      <3> QED  BY <2>2, <3>1, <3>2, <3>3 DEF Moves, OneTablePerKey
    <2> QED  BY <2>1, <2>2, RequestMoves, UsageMoves, AccountMovesNone DEF Next, vars, holds
  <1> QED  BY <1>1, <1>2, TypeCorrect, PTL DEF Spec

\* A row that moves moves the hold of its key alike, and no other hold.
LEMMA StatusMoves ==
    ASSUME TypeOK, OneTablePerKey, OneTablePerKey', NEW a \in Accounts, NEW k \in Keys,
           NEW from \in Status, NEW to \in Status, Allowed(from, to), Moves(a, k, from, to)
    PROVE  /\ HoldStatus(a, k) = from /\ HoldStatus(a, k)' = to
           /\ \A b \in Accounts, l \in Keys :
                b # a \/ l # k => HoldStatus(b, l)' = HoldStatus(b, l)
  <1>1. from # "none" \/ /\ plus[a][k].status = "none"
                         /\ req[a][k].status = "none" /\ res[a][k].status = "none"
    BY DEF Moves
  <1>2. HoldStatus(a, k) = from
    BY <1>1 DEF HoldStatus, Moves, OneTablePerKey
  <1>3. HoldStatus(a, k)' = to
    BY <1>1 DEF HoldStatus, Moves, OneTablePerKey, Allowed, TypeOK
  <1>4. ASSUME NEW b \in Accounts, NEW l \in Keys, b # a \/ l # k
        PROVE  HoldStatus(b, l)' = HoldStatus(b, l)
    BY <1>4 DEF HoldStatus, Moves, TypeOK
  <1> QED  BY <1>2, <1>3, <1>4

\* The three tables together implement the life of a hold that the gateway
\* relies on (module Holds).
THEOREM LedgerKeepsPromise == Spec => PromiseKept
  <1> DEFINE Hold == [p \in Accounts \X Keys |-> HoldStatus(p[1], p[2])]
  <1>1. Init => Promise!HoldsInit
    BY DEF Init, Promise!HoldsInit, HoldStatus, NoPlusRow, NoRequestRow, NoUsageRow
  <1>2. TypeOK /\ OneTablePerKey /\ OneTablePerKey' /\ [Next]_vars
            => [Promise!HoldsNext]_Hold
    <2> SUFFICES ASSUME TypeOK, OneTablePerKey, OneTablePerKey', [Next]_vars
                 PROVE  Promise!HoldsNext \/ Hold' = Hold
      OBVIOUS
    <2>1. ASSUME UNCHANGED holds  PROVE Hold' = Hold
      BY <2>1 DEF holds, HoldStatus
    <2>2. ASSUME NEW a \in Accounts, NEW k \in Keys, NEW from \in Status, NEW to \in Status,
                 Allowed(from, to), Moves(a, k, from, to)
          PROVE  Promise!HoldsNext
      <3> DEFINE p == <<a, k>>
      <3>1. p \in Accounts \X Keys
        OBVIOUS
      <3>2. /\ HoldStatus(a, k) = from /\ HoldStatus(a, k)' = to
            /\ \A b \in Accounts, l \in Keys :
                 b # a \/ l # k => HoldStatus(b, l)' = HoldStatus(b, l)
        BY <2>2, StatusMoves
      <3>3. Hold[p] = from /\ Hold' = [Hold EXCEPT ![p] = to]
        <4>1. Hold[p] = from
          BY <3>2
        <4>2. ASSUME NEW q \in Accounts \X Keys
              PROVE  Hold'[q] = IF q = p THEN to ELSE Hold[q]
          <5>1. q[1] \in Accounts /\ q[2] \in Keys /\ (q = p <=> q[1] = a /\ q[2] = k)
            OBVIOUS
          <5> QED  BY <3>2, <5>1
        <4> QED  BY <4>1, <4>2
      <3> HIDE DEF Hold, p
      <3>4. Promise!Open(p) \/ Promise!Doubt(p) \/ Promise!Charge(p) \/ Promise!GiveBack(p)
        BY <2>2, <3>3 DEF Allowed, OpenStatus, Hold, Promise!Open, Promise!Doubt,
             Promise!Charge, Promise!GiveBack, Promise!OpenStatus
      <3> QED  BY <3>1, <3>4 DEF Promise!HoldsNext
    <2> QED  BY <2>1, <2>2, RequestMoves, UsageMoves, AccountMovesNone DEF Next, vars, holds
  <1> QED  BY <1>1, <1>2, TypeCorrect, OneTable, PTL DEF Spec, PromiseKept, Promise!HoldsSpec

\* A key that was charged in one table is never charged or opened in another, whatever its
\* client retries and whichever plan the account has by then; work of unknown outcome is
\* not given back (reserve, reserveUsd, reserveRequest and their look-ups in store.mjs).
THEOREM OutcomesAreFinal == Spec => Promise!OutcomeIsFinal
  <1> DEFINE Hold == [p \in Accounts \X Keys |-> HoldStatus(p[1], p[2])]
             Final == \A p \in Accounts \X Keys :
                         /\ Hold[p] = "settled" => Hold'[p] = "settled"
                         /\ Hold[p] = "uncertain" => Hold'[p] \in {"uncertain", "settled"}
  <1>1. [Promise!HoldsNext]_Hold => [Final]_Hold
    <2> SUFFICES ASSUME Promise!HoldsNext  PROVE Final
      OBVIOUS
    <2>1. PICK p \in Accounts \X Keys :
             Promise!Open(p) \/ Promise!Doubt(p) \/ Promise!Charge(p) \/ Promise!GiveBack(p)
      BY DEF Promise!HoldsNext
    <2>2. \E to \in {"reserved", "uncertain", "settled", "released"} :
             /\ Hold' = [Hold EXCEPT ![p] = to]
             /\ Hold[p] # "settled"
             /\ Hold[p] = "uncertain" => to = "settled"
      BY <2>1 DEF Promise!Open, Promise!Doubt, Promise!Charge, Promise!GiveBack,
                  Promise!OpenStatus
    <2>3. DOMAIN Hold = Accounts \X Keys
      OBVIOUS
    <2> HIDE DEF Hold
    <2> QED  BY <2>2, <2>3
  <1> QED  BY <1>1, LedgerKeepsPromise, PTL
           DEF PromiseKept, Promise!HoldsSpec, Promise!OutcomeIsFinal

-----------------------------------------------------------------------------
(* Conservation of USD.  An operation changes one row and one wallet; what  *)
(* the wallet gains, the row loses, and the sum over the other rows stays.  *)

\* The summands of UsdWorth.
Worths(a) == [k \in Keys |-> UsageWorth(res[a][k]) + RequestWorth(req[a][k])]

\* The worth of a row is a number.
LEMMA WorthType ==
    /\ \A row \in UsageRow : UsageWorth(row) \in Nat
    /\ \A row \in RequestRow : RequestWorth(row) \in Nat
  BY AmountsAssumption DEF UsageRow, RequestRow, UsageWorth, RequestWorth, ChargeOf

\* An operation on one key that moves value between its rows and the wallet.
LEMMA OneKeyMoves ==
    ASSUME TypeOK, TypeOK', NEW a \in Accounts, NEW k \in Keys,
           \A b \in Accounts, l \in Keys :
              b # a \/ l # k => res'[b][l] = res[b][l] /\ req'[b][l] = req[b][l],
           \A b \in Accounts : b # a => usd'[b] = usd[b],
           usd'[a].prepaid - usd'[a].debt + UsageWorth(res'[a][k]) + RequestWorth(req'[a][k])
             = usd[a].prepaid - usd[a].debt + UsageWorth(res[a][k]) + RequestWorth(req[a][k])
    PROVE  \A b \in Accounts : UsdWorth(b)' = UsdWorth(b)
  <1>1. IsFiniteSet(Keys)
    BY NamesAssumption
  <1>2. TAKE b \in Accounts
  <1>3. /\ UsdWorth(b) = usd[b].prepaid - usd[b].debt + SumFunctionOnSet(Worths(b), Keys)
        /\ UsdWorth(b)' = usd'[b].prepaid - usd'[b].debt + SumFunctionOnSet(Worths(b)', Keys)
    BY DEF UsdWorth, Worths, SumFunction
  <1>4. \A l \in Keys : /\ Worths(b)[l] = UsageWorth(res[b][l]) + RequestWorth(req[b][l])
                        /\ Worths(b)'[l] = UsageWorth(res'[b][l]) + RequestWorth(req'[b][l])
                        /\ Worths(b)[l] \in Int /\ Worths(b)'[l] \in Int
    <2>1. ASSUME NEW l \in Keys
          PROVE  /\ UsageWorth(res[b][l]) \in Nat /\ RequestWorth(req[b][l]) \in Nat
                 /\ UsageWorth(res'[b][l]) \in Nat /\ RequestWorth(req'[b][l]) \in Nat
      BY WorthType DEF TypeOK
    <2> QED  BY <2>1 DEF Worths
  <1>5. CASE b # a
    <2>1. \A l \in Keys : Worths(b)'[l] = Worths(b)[l]
      BY <1>4, <1>5
    <2>2. SumFunctionOnSet(Worths(b)', Keys) = SumFunctionOnSet(Worths(b), Keys)
      BY <1>1, <2>1, SumSame
    <2> QED  BY <1>3, <1>5, <2>2
  <1>6. CASE b = a
    <2>1. \A l \in Keys \ {k} : Worths(b)'[l] = Worths(b)[l]
      BY <1>4, <1>6
    <2>2. SumFunctionOnSet(Worths(b)', Keys)
            = SumFunctionOnSet(Worths(b), Keys) + Worths(b)'[k] - Worths(b)[k]
      BY <1>1, <1>4, <2>1, SumChanged
    <2>3. SumFunctionOnSet(Worths(b), Keys) \in Int
      BY <1>1, <1>4, SumType
    <2>4. /\ usd[a].prepaid \in Int /\ usd[a].debt \in Int
          /\ usd'[a].prepaid \in Int /\ usd'[a].debt \in Int
          /\ UsageWorth(res[a][k]) \in Int /\ RequestWorth(req[a][k]) \in Int
          /\ UsageWorth(res'[a][k]) \in Int /\ RequestWorth(req'[a][k]) \in Int
      BY WorthType DEF TypeOK, Wallet
    <2>5. SumFunctionOnSet(Worths(b)', Keys)
            = SumFunctionOnSet(Worths(b), Keys)
              + (UsageWorth(res'[a][k]) + RequestWorth(req'[a][k]))
              - (UsageWorth(res[a][k]) + RequestWorth(req[a][k]))
      BY <1>4, <1>6, <2>2
    <2>6. usd'[a].prepaid - usd'[a].debt + SumFunctionOnSet(Worths(b)', Keys)
            = usd[a].prepaid - usd[a].debt + SumFunctionOnSet(Worths(b), Keys)
      BY <2>3, <2>4, <2>5
    <2> QED  BY <1>3, <1>6, <2>6
  <1> QED  BY <1>5, <1>6

\* The same for an operation on a subscription row.
LEMMA RequestRowMoves ==
    ASSUME TypeOK, TypeOK', NEW a \in Accounts, NEW k \in Keys, NEW w, NEW row,
           usd' = [usd EXCEPT ![a] = w], req' = [req EXCEPT ![a][k] = row], res' = res,
           w.prepaid - w.debt + RequestWorth(row)
             = usd[a].prepaid - usd[a].debt + RequestWorth(req[a][k])
    PROVE  \A b \in Accounts : UsdWorth(b)' = UsdWorth(b)
  <1>1. /\ usd'[a] = w /\ req'[a][k] = row
        /\ \A b \in Accounts, l \in Keys : b # a \/ l # k => req'[b][l] = req[b][l]
        /\ \A b \in Accounts : b # a => usd'[b] = usd[b]
        /\ usd[a] \in Wallet /\ w \in Wallet
    BY DEF TypeOK
  <1>2. /\ UsageWorth(res[a][k]) \in Nat /\ RequestWorth(req[a][k]) \in Nat
        /\ RequestWorth(row) \in Nat
    BY <1>1, WorthType DEF TypeOK
  <1>3. usd'[a].prepaid - usd'[a].debt + UsageWorth(res'[a][k]) + RequestWorth(req'[a][k])
          = usd[a].prepaid - usd[a].debt + UsageWorth(res[a][k]) + RequestWorth(req[a][k])
    BY <1>1, <1>2 DEF Wallet
  <1> QED  BY <1>1, <1>3, OneKeyMoves

\* And on a metered row.
LEMMA UsageRowMoves ==
    ASSUME TypeOK, TypeOK', NEW a \in Accounts, NEW k \in Keys, NEW w, NEW row,
           usd' = [usd EXCEPT ![a] = w], res' = [res EXCEPT ![a][k] = row], req' = req,
           w.prepaid - w.debt + UsageWorth(row)
             = usd[a].prepaid - usd[a].debt + UsageWorth(res[a][k])
    PROVE  \A b \in Accounts : UsdWorth(b)' = UsdWorth(b)
  <1>1. /\ usd'[a] = w /\ res'[a][k] = row
        /\ \A b \in Accounts, l \in Keys : b # a \/ l # k => res'[b][l] = res[b][l]
        /\ \A b \in Accounts : b # a => usd'[b] = usd[b]
        /\ usd[a] \in Wallet /\ w \in Wallet
    BY DEF TypeOK
  <1>2. /\ UsageWorth(res[a][k]) \in Nat /\ RequestWorth(req[a][k]) \in Nat
        /\ UsageWorth(row) \in Nat
    BY <1>1, WorthType DEF TypeOK
  <1>3. usd'[a].prepaid - usd'[a].debt + UsageWorth(res'[a][k]) + RequestWorth(req'[a][k])
          = usd[a].prepaid - usd[a].debt + UsageWorth(res[a][k]) + RequestWorth(req[a][k])
    BY <1>1, <1>2 DEF Wallet
  <1> QED  BY <1>1, <1>3, OneKeyMoves

\* Subscription requests conserve USD: an overage price is held, charged or
\* returned whole.
LEMMA RequestConserves ==
    ASSUME TypeOK, TypeOK', NEW a \in Accounts, NEW k \in Keys, RequestStep(a, k)
    PROVE  \A b \in Accounts : UsdWorth(b)' = UsdWorth(b)
  <1> USE AmountsAssumption
  <1> DEFINE old == req[a][k]
             goal == \A b \in Accounts : UsdWorth(b)' = UsdWorth(b)
  <1>0. usd[a] \in Wallet /\ usd = [usd EXCEPT ![a] = usd[a]] /\ old \in RequestRow
    BY DEF TypeOK
  <1>1. ASSUME NEW i \in Inputs, ReserveRequest(a, k, i)  PROVE goal
    <2>1. PICK inc \in BOOLEAN : inc = (BasicActive(a) /\ Remaining(a) > 0)
      OBVIOUS
    <2> DEFINE charge == IF inc THEN 0 ELSE Overage
               row == [status |-> "reserved", input |-> i, included |-> inc,
                       version |-> IF inc THEN plan[a].version ELSE NoVersion,
                       rch |-> Least(charge, usd[a].rch)]
    <2>2. /\ usd' = [usd EXCEPT ![a] = Spend(usd[a], charge)]
          /\ req' = [req EXCEPT ![a][k] = row] /\ res' = res
      BY <1>1, <2>1 DEF ReserveRequest, TypeOK
    <2>3. RequestWorth(row) = charge
      BY DEF RequestWorth, OpenStatus, ChargeOf
    <2>4. RequestWorth(old) = 0
      BY <1>1 DEF ReserveRequest, Reusable, RequestWorth, OpenStatus
    <2>5. Spend(usd[a], charge).prepaid - Spend(usd[a], charge).debt + charge
            = usd[a].prepaid - usd[a].debt
      BY <1>0 DEF Wallet, Spend
    <2> HIDE DEF row, charge
    <2>6. Spend(usd[a], charge).prepaid - Spend(usd[a], charge).debt + RequestWorth(row)
            = usd[a].prepaid - usd[a].debt + RequestWorth(old)
      BY <1>0, <2>3, <2>4, <2>5 DEF Wallet
    <2> QED  BY <2>2, <2>6, RequestRowMoves
  <1>2. ASSUME SettleRequest(a, k) \/ MarkRequestUncertain(a, k)  PROVE goal
    <2>1. PICK s \in {"settled", "uncertain"} : req' = [req EXCEPT ![a][k] = RequestIn(old, s)]
      BY <1>2 DEF SettleRequest, MarkRequestUncertain, TypeOK
    <2>2. usd' = [usd EXCEPT ![a] = usd[a]] /\ res' = res
      BY <1>0, <1>2 DEF SettleRequest, MarkRequestUncertain, balances
    <2>3. RequestWorth(RequestIn(old, s)) = RequestWorth(old)
      BY <1>2 DEF SettleRequest, MarkRequestUncertain, RequestWorth, RequestIn, OpenStatus, ChargeOf
    <2> QED  BY <2>1, <2>2, <2>3, RequestRowMoves
  <1>3. ASSUME ReleaseRequest(a, k)  PROVE goal
    <2> DEFINE row == RequestIn(old, "released")
    <2>1. RequestWorth(row) = 0 /\ RequestWorth(old) = ChargeOf(old) /\ ChargeOf(old) \in Nat
      BY <1>0, <1>3 DEF ReleaseRequest, Returnable, RequestWorth, RequestIn, OpenStatus,
         ChargeOf, RequestRow
    <2>2. req' = [req EXCEPT ![a][k] = row] /\ res' = res
      BY <1>3 DEF ReleaseRequest
    <2> HIDE DEF row
    <2>3. CASE ChargeOf(old) > 0
      <3> DEFINE w == Return(usd[a], ChargeOf(old), old.rch)
      <3>1. usd' = [usd EXCEPT ![a] = w]
        BY <1>3, <2>3 DEF ReleaseRequest
      <3>2. w.prepaid - w.debt + RequestWorth(row)
              = usd[a].prepaid - usd[a].debt + RequestWorth(old)
        BY <1>0, <2>1 DEF Return, Wallet
      <3> HIDE DEF w
      <3> QED  BY <2>2, <3>1, <3>2, RequestRowMoves
    <2>4. CASE ~(ChargeOf(old) > 0)
      <3>1. usd' = [usd EXCEPT ![a] = usd[a]]
        BY <1>0, <1>3, <2>4 DEF ReleaseRequest
      <3>2. usd[a].prepaid - usd[a].debt + RequestWorth(row)
              = usd[a].prepaid - usd[a].debt + RequestWorth(old)
        BY <2>1, <2>4
      <3> QED  BY <2>2, <3>1, <3>2, RequestRowMoves
    <2> QED  BY <2>3, <2>4
  <1>4. ASSUME \/ \E i \in Inputs : ReservePlus(a, k, i)
               \/ SettlePlus(a, k) \/ ReleasePlus(a, k) \/ MarkPlusUncertain(a, k)
        PROVE  goal
    <2>1. usd' = usd /\ req' = req /\ res' = res
      BY <1>4 DEF ReservePlus, SettlePlus, ReleasePlus, MarkPlusUncertain, balances
    <2> QED  BY <2>1 DEF UsdWorth
  <1> QED  BY <1>1, <1>2, <1>3, <1>4 DEF RequestStep

\* Metered requests conserve USD: a settlement charges what was measured, also
\* above the hold and into debt, and a token request moves no USD.
LEMMA UsageConserves ==
    ASSUME TypeOK, TypeOK', NEW a \in Accounts, NEW k \in Keys, UsageStep(a, k)
    PROVE  \A b \in Accounts : UsdWorth(b)' = UsdWorth(b)
  <1> USE AmountsAssumption
  <1> DEFINE old == res[a][k]
             goal == \A b \in Accounts : UsdWorth(b)' = UsdWorth(b)
  <1>0. usd[a] \in Wallet /\ usd = [usd EXCEPT ![a] = usd[a]] /\ old \in UsageRow
    BY DEF TypeOK
  <1>1. ASSUME NEW i \in Inputs, NEW n \in UsdAmounts, ReserveUsd(a, k, i, n)  PROVE goal
    <2> DEFINE row == [status |-> "reserved", input |-> i, currency |-> "USD",
                       inc |-> 0, pre |-> n, version |-> NoVersion,
                       rch |-> Least(n, usd[a].rch), charged |-> 0]
    <2>1. /\ usd' = [usd EXCEPT ![a] = Spend(usd[a], n)]
          /\ res' = [res EXCEPT ![a][k] = row] /\ req' = req
      BY <1>1 DEF ReserveUsd, TypeOK
    <2>2. UsageWorth(row) = n /\ UsageWorth(old) = 0
      BY <1>1 DEF ReserveUsd, Reusable, UsageWorth, OpenStatus
    <2>3. Spend(usd[a], n).prepaid - Spend(usd[a], n).debt + n = usd[a].prepaid - usd[a].debt
      BY <1>0 DEF Wallet, Spend
    <2> HIDE DEF row
    <2>4. Spend(usd[a], n).prepaid - Spend(usd[a], n).debt + UsageWorth(row)
            = usd[a].prepaid - usd[a].debt + UsageWorth(old)
      BY <1>0, <2>2, <2>3 DEF Wallet
    <2> QED  BY <2>1, <2>4, UsageRowMoves
  <1>2. ASSUME NEW i \in Inputs, NEW n \in TokenAmounts, ReserveTokens(a, k, i, n)  PROVE goal
    <2> DEFINE row == res'[a][k]
    <2>1. /\ res' = [res EXCEPT ![a][k] = row] /\ row.currency = "tokens"
          /\ usd' = usd /\ req' = req
      BY <1>2 DEF ReserveTokens, TypeOK
    <2>2. UsageWorth(row) = 0 /\ UsageWorth(old) = 0
      BY <1>2, <2>1 DEF ReserveTokens, Reusable, UsageWorth, OpenStatus
    <2> QED  BY <1>0, <2>1, <2>2, UsageRowMoves
  <1>3. ASSUME NEW actual \in Usages, SettleUsdUsage(a, k, actual)  PROVE goal
    <2> DEFINE w == SettleUsd(usd[a], old.pre, old.rch, actual)
               row == UsageIn(old, "settled", actual)
    <2>1. /\ usd' = [usd EXCEPT ![a] = w]
          /\ res' = [res EXCEPT ![a][k] = row] /\ req' = req
      BY <1>3 DEF SettleUsdUsage, Settled
    <2>2. UsageWorth(row) = actual /\ UsageWorth(old) = old.pre
      BY <1>3 DEF SettleUsdUsage, UsageIn, UsageWorth, OpenStatus
    <2>3. w.prepaid - w.debt = usd[a].prepaid - usd[a].debt + old.pre - actual /\ w \in Wallet
      <3>1. old.pre \in Nat /\ old.rch \in Nat /\ actual \in Nat /\ usd[a] \in Wallet
        BY <1>0 DEF UsageRow
      <3>2. \A u \in Wallet : \A amount, heldRch \in Nat :
               /\ SettleUsd(u, amount, heldRch, actual) \in Wallet
               /\ SettleUsd(u, amount, heldRch, actual).prepaid
                    - SettleUsd(u, amount, heldRch, actual).debt
                    = u.prepaid - u.debt + amount - actual
        <4> SUFFICES ASSUME NEW u \in Wallet, NEW amount \in Nat, NEW heldRch \in Nat
                     PROVE  /\ SettleUsd(u, amount, heldRch, actual) \in Wallet
                            /\ SettleUsd(u, amount, heldRch, actual).prepaid
                                 - SettleUsd(u, amount, heldRch, actual).debt
                                 = u.prepaid - u.debt + amount - actual
          OBVIOUS
        <4> actual \in Nat
          BY <3>1
        <4> QED  BY SettleUsdWallet
      <3> QED  BY <3>1, <3>2
    <2> HIDE DEF row, w
    <2>4. w.prepaid - w.debt + UsageWorth(row)
            = usd[a].prepaid - usd[a].debt + UsageWorth(old)
      BY <1>0, <2>2, <2>3 DEF Wallet, UsageRow
    <2> QED  BY <2>1, <2>4, UsageRowMoves
  <1>4. ASSUME NEW actual \in Usages,
               SettleTokensWithin(a, k, actual) \/ SettleTokensOver(a, k, actual)
        PROVE  goal
    <2>1. /\ usd' = usd /\ req' = req /\ old.currency = "tokens"
          /\ res' = [res EXCEPT ![a][k] = UsageIn(old, "settled", actual)]
      BY <1>4 DEF SettleTokensWithin, SettleTokensOver, Settled
    <2>2. UsageWorth(UsageIn(old, "settled", actual)) = 0 /\ UsageWorth(old) = 0
      BY <2>1 DEF UsageIn, UsageWorth
    <2> QED  BY <1>0, <2>1, <2>2, UsageRowMoves
  <1>5. ASSUME MarkUncertain(a, k)  PROVE goal
    <2>1. /\ usd' = usd /\ req' = req
          /\ res' = [res EXCEPT ![a][k] = UsageIn(old, "uncertain", 0)]
      BY <1>5 DEF MarkUncertain, balances
    <2>2. UsageWorth(UsageIn(old, "uncertain", 0)) = UsageWorth(old)
      BY <1>5 DEF MarkUncertain, UsageIn, UsageWorth, OpenStatus
    <2> QED  BY <1>0, <2>1, <2>2, UsageRowMoves
  <1>6. ASSUME ReleaseUsd(a, k)  PROVE goal
    <2> DEFINE w == Return(usd[a], old.pre, old.rch)
               row == UsageIn(old, "released", 0)
    <2>1. /\ usd' = [usd EXCEPT ![a] = w]
          /\ res' = [res EXCEPT ![a][k] = row] /\ req' = req
      BY <1>6 DEF ReleaseUsd
    <2>2. UsageWorth(row) = 0 /\ UsageWorth(old) = old.pre
      BY <1>6 DEF ReleaseUsd, Returnable, UsageIn, UsageWorth, OpenStatus
    <2>3. w.prepaid - w.debt + UsageWorth(row)
            = usd[a].prepaid - usd[a].debt + UsageWorth(old)
      BY <1>0, <2>2 DEF Wallet, Return, UsageRow
    <2> HIDE DEF row, w
    <2> QED  BY <2>1, <2>3, UsageRowMoves
  <1>7. ASSUME ReleaseTokens(a, k)  PROVE goal
    <2>1. /\ usd' = usd /\ req' = req /\ old.currency = "tokens"
          /\ res' = [res EXCEPT ![a][k] = UsageIn(old, "released", 0)]
      BY <1>7 DEF ReleaseTokens
    <2>2. UsageWorth(UsageIn(old, "released", 0)) = 0 /\ UsageWorth(old) = 0
      BY <2>1 DEF UsageIn, UsageWorth
    <2> QED  BY <1>0, <2>1, <2>2, UsageRowMoves
  <1> QED  BY <1>1, <1>2, <1>3, <1>4, <1>5, <1>6, <1>7 DEF UsageStep

\* Whatever the prices, keys and interleavings: reserving, settling (also above
\* the hold and into debt), doubting, releasing and reserving again only move
\* USD between free, held, charged and owed.
THEOREM UsdIsConserved == Spec => UsdConserved
  <1>1. TypeOK /\ TypeOK' /\ [Next]_vars
          => [holds' # holds => \A a \in Accounts : UsdWorth(a)' = UsdWorth(a)]_vars
    <2> SUFFICES ASSUME TypeOK, TypeOK', Next, holds' # holds
                 PROVE  \A a \in Accounts : UsdWorth(a)' = UsdWorth(a)
      OBVIOUS
    <2> QED  BY RequestConserves, UsageConserves, AccountMovesNone DEF Next
  <1> QED  BY <1>1, TypeCorrect, PTL DEF Spec, UsdConserved

-----------------------------------------------------------------------------
(* The allowance of a grant.  PlanAllowanceBounded is not inductive: a new  *)
(* grant must find no hold that already bears its ID.                       *)

\* Plans and holds bear the IDs of recorded grants.
VersionsGranted ==
    \A a \in Accounts : /\ plan[a].version \in granted \cup {NoVersion}
                        /\ \A k \in Keys : res[a][k].version \in granted \cup {NoVersion}

AllowanceInv == TypeOK /\ VersionsGranted /\ PlanAllowanceBounded

\* The plan tokens a hold drew, as the summands of PlanAllowanceBounded, and
\* what one row has drawn from the current grant.
Incs(a) == [k \in Keys |-> res[a][k].inc]

Share(a, k) == IF k \in Drawn(a) THEN res[a][k].inc ELSE 0

\* What one row adds to a sum, and the rest.
LEMMA SumSplit ==
    ASSUME NEW f, NEW S, IsFiniteSet(S), \A x \in S : f[x] \in Int, NEW e
    PROVE  /\ SumFunctionOnSet(f, S)
                = (IF e \in S THEN f[e] ELSE 0) + SumFunctionOnSet(f, S \ {e})
           /\ SumFunctionOnSet(f, S \ {e}) \in Int
  <1>1. SumFunctionOnSet(f, S \ {e}) \in Int
    BY FS_Subset, SumType
  <1>2. CASE e \in S
    BY <1>1, <1>2, SumWithout
  <1>3. CASE e \notin S
    <2>1. S \ {e} = S
      BY <1>3
    <2>2. SumFunctionOnSet(f, S \ {e}) = SumFunctionOnSet(f, S)
      BY <2>1
    <2> QED  BY <1>1, <1>3, <2>2
  <1> QED  BY <1>1, <1>2, <1>3

\* An operation on one metered row returns to the allowance at most what the
\* row had drawn from the current grant.
LEMMA AllowanceRow ==
    ASSUME AllowanceInv, TypeOK', NEW a \in Accounts, NEW k \in Keys,
           plan' = plan,
           \A b \in Accounts, l \in Keys : b # a \/ l # k => res'[b][l] = res[b][l],
           \A b \in Accounts : b # a => included'[b] = included[b],
           included'[a] + Share(a, k)' <= included[a] + Share(a, k)
    PROVE  PlanAllowanceBounded'
  <1> USE DEF AllowanceInv
  <1>1. SUFFICES ASSUME NEW b \in Accounts
                 PROVE  included'[b] + SumFunctionOnSet(Incs(b)', Drawn(b)') <= plan'[b].tokens
    BY DEF PlanAllowanceBounded, Incs
  <1>2. included[b] + SumFunctionOnSet(Incs(b), Drawn(b)) <= plan[b].tokens
    BY DEF PlanAllowanceBounded, Incs
  <1>3. CASE b # a
    <2>1. \A l \in Keys : res'[b][l] = res[b][l]
      BY <1>3
    <2>2. Incs(b)' = Incs(b) /\ Drawn(b)' = Drawn(b)
      BY <2>1 DEF Incs, Drawn
    <2> QED  BY <1>2, <1>3, <2>2
  <1>4. CASE b = a
    <2>1. \A l \in Keys : l # k => res'[a][l] = res[a][l]
      OBVIOUS
    <2>2. Drawn(a)' \ {k} = Drawn(a) \ {k}
      BY <2>1 DEF Drawn
    <2>3. IsFiniteSet(Drawn(a) \ {k})
      BY NamesAssumption, FS_Subset DEF Drawn
    <2>4. \A l \in Drawn(a) \ {k} : Incs(a)'[l] = Incs(a)[l]
      BY <2>1 DEF Incs, Drawn
    <2>5. SumFunctionOnSet(Incs(a)', Drawn(a)' \ {k}) = SumFunctionOnSet(Incs(a), Drawn(a) \ {k})
      <3>1. SumFunctionOnSet(Incs(a)', Drawn(a) \ {k}) = SumFunctionOnSet(Incs(a), Drawn(a) \ {k})
        BY <2>3, <2>4, SumSame
      <3> QED  BY <2>2, <3>1
    <2>6. /\ SumFunctionOnSet(Incs(a), Drawn(a))
               = Share(a, k) + SumFunctionOnSet(Incs(a), Drawn(a) \ {k})
          /\ SumFunctionOnSet(Incs(a), Drawn(a) \ {k}) \in Int
          /\ Share(a, k) \in Nat
      <3>1. IsFiniteSet(Drawn(a)) /\ Drawn(a) \subseteq Keys
        BY NamesAssumption, FS_Subset DEF Drawn
      <3>2. \A l \in Keys : Incs(a)[l] = res[a][l].inc /\ res[a][l].inc \in Nat
        BY DEF Incs, TypeOK, UsageRow
      <3>3. \A l \in Drawn(a) : Incs(a)[l] \in Int
        BY <3>1, <3>2
      <3> QED  BY <3>1, <3>2, <3>3, SumSplit DEF Share
    <2>7. /\ SumFunctionOnSet(Incs(a)', Drawn(a)')
               = Share(a, k)' + SumFunctionOnSet(Incs(a)', Drawn(a)' \ {k})
          /\ Share(a, k)' \in Nat
      <3>1. IsFiniteSet(Drawn(a)') /\ Drawn(a)' \subseteq Keys
        BY NamesAssumption, FS_Subset DEF Drawn
      <3>2. \A l \in Keys : Incs(a)'[l] = res'[a][l].inc /\ res'[a][l].inc \in Nat
        BY DEF Incs, TypeOK, UsageRow
      <3>3. \A l \in Drawn(a)' : Incs(a)'[l] \in Int
        BY <3>1, <3>2
      <3> QED  BY <3>1, <3>2, <3>3, SumSplit DEF Share
    <2>8. included[a] \in Nat /\ included'[a] \in Nat /\ plan[a].tokens \in Nat
      BY DEF TypeOK, Plan
    <2> QED  BY <1>2, <1>4, <2>5, <2>6, <2>7, <2>8
  <1> QED  BY <1>3, <1>4

\* What an operation leaves of a row's share: all of it, or nothing.
LEMMA ShareIs ==
    ASSUME TypeOK, NEW a \in Accounts, NEW k \in Keys
    PROVE  /\ Share(a, k) \in Nat /\ included[a] \in Nat
           /\ res[a][k].inc \in Nat
           /\ res[a][k].status \notin OpenStatus => Share(a, k) = 0
           /\ res[a][k].status \in OpenStatus /\ res[a][k].version = plan[a].version
                => Share(a, k) = res[a][k].inc
  BY DEF Share, Drawn, TypeOK, UsageRow

\* Metered requests keep the allowance: what a hold draws, a return gives back
\* at most once and only to the grant it came from.
LEMMA AllowanceUsage ==
    ASSUME AllowanceInv, TypeOK', NEW a \in Accounts, NEW k \in Keys, UsageStep(a, k)
    PROVE  PlanAllowanceBounded'
  <1> USE AmountsAssumption DEF AllowanceInv
  <1> DEFINE old == res[a][k]
  <1>0. /\ Share(a, k) \in Nat /\ included[a] \in Nat /\ old.inc \in Nat /\ old.pre \in Nat
        /\ old.status \notin OpenStatus => Share(a, k) = 0
        /\ old.status \in OpenStatus /\ old.version = plan[a].version
             => Share(a, k) = old.inc
    BY ShareIs DEF TypeOK, UsageRow
  <1>1. ASSUME plan' = plan
        PROVE  /\ res'[a][k].status \notin OpenStatus => Share(a, k)' = 0
               /\ Share(a, k)' \in {0, res'[a][k].inc}
               /\ res'[a][k].status \in OpenStatus /\ old.status \in OpenStatus
                    /\ res'[a][k].inc = old.inc /\ res'[a][k].version = old.version
                    => Share(a, k)' = Share(a, k)
    BY <1>1 DEF Share, Drawn
  <1> DEFINE Others == \A b \in Accounts, l \in Keys : b # a \/ l # k => res'[b][l] = res[b][l]
  <1>2. ASSUME NEW i \in Inputs, NEW n \in UsdAmounts, ReserveUsd(a, k, i, n)
        PROVE  PlanAllowanceBounded'
    <2> DEFINE row == [status |-> "reserved", input |-> i, currency |-> "USD",
                       inc |-> 0, pre |-> n, version |-> NoVersion,
                       rch |-> Least(n, usd[a].rch), charged |-> 0]
    <2>1. res'[a][k] = row /\ Others /\ plan' = plan /\ included' = included
      BY <1>2 DEF ReserveUsd, TypeOK
    <2>2. Share(a, k)' = 0
      BY <1>1, <2>1
    <2> HIDE DEF row
    <2> QED  BY <1>0, <2>1, <2>2, AllowanceRow
  <1>3. ASSUME NEW i \in Inputs, NEW n \in TokenAmounts, ReserveTokens(a, k, i, n)
        PROVE  PlanAllowanceBounded'
    <2>1. PICK d : d = IF PlanEntitled(a) THEN Least(included[a], n) ELSE 0
      OBVIOUS
    <2>2. d \in Nat /\ d <= included[a]
      <3>1. n \in Nat
        OBVIOUS
      <3> QED  BY <1>0, <2>1, <3>1 DEF Least
    <2> DEFINE row == [status |-> "reserved", input |-> i, currency |-> "tokens",
                       inc |-> d, pre |-> n - d, version |-> plan[a].version,
                       rch |-> Least(n - d, tok[a].rch), charged |-> 0]
    <2>3. /\ res'[a][k] = row /\ Others /\ plan' = plan
          /\ included' = [included EXCEPT ![a] = @ - d]
      BY <1>3, <2>1 DEF ReserveTokens, TypeOK
    <2>4. Share(a, k)' \in {0, d}
      BY <1>1, <2>3
    <2>5. old.status \notin OpenStatus
      BY <1>3 DEF ReserveTokens, Reusable, OpenStatus
    <2>6. /\ included'[a] = included[a] - d
          /\ \A b \in Accounts : b # a => included'[b] = included[b]
      BY <2>3 DEF TypeOK
    <2> HIDE DEF row
    <2> QED  BY <1>0, <2>2, <2>3, <2>4, <2>5, <2>6, AllowanceRow
  <1>4. ASSUME NEW actual \in Usages, SettleUsdUsage(a, k, actual)
        PROVE  PlanAllowanceBounded'
    <2>1. /\ res'[a][k] = UsageIn(old, "settled", actual) /\ Others
          /\ plan' = plan /\ included' = included
      BY <1>4 DEF SettleUsdUsage, Settled, TypeOK
    <2>2. Share(a, k)' = 0
      BY <1>1, <2>1 DEF UsageIn, OpenStatus
    <2> QED  BY <1>0, <2>1, <2>2, AllowanceRow
  <1>5. ASSUME NEW actual \in Usages, SettleTokensWithin(a, k, actual)
        PROVE  PlanAllowanceBounded'
    <2>1. /\ res'[a][k] = UsageIn(old, "settled", actual) /\ Others
          /\ plan' = plan
      BY <1>5 DEF SettleTokensWithin, Settled, TypeOK
    <2>2. Share(a, k)' = 0
      BY <1>1, <2>1 DEF UsageIn, OpenStatus
    <2>3. \A b \in Accounts : b # a => included'[b] = included[b]
      BY <1>5 DEF SettleTokensWithin, TypeOK
    <2>4. included'[a] <= included[a] + Share(a, k)
      <3>1. CASE SamePlan(a, old)
        <4>1. Share(a, k) = old.inc
          BY <1>0, <1>5, <3>1 DEF SettleTokensWithin, SamePlan
        <4>2. included'[a] = included[a] + (old.inc - Least(actual, old.inc))
          BY <1>5, <3>1 DEF SettleTokensWithin, TypeOK
        <4> QED  BY <1>0, <4>1, <4>2 DEF Least
      <3>2. CASE ~SamePlan(a, old)
        BY <1>0, <1>5, <3>2 DEF SettleTokensWithin
      <3> QED  BY <3>1, <3>2
    <2>5. included'[a] \in Nat
      BY DEF TypeOK
    <2> QED  BY <1>0, <2>1, <2>2, <2>3, <2>4, <2>5, AllowanceRow
  <1>6. ASSUME NEW actual \in Usages, SettleTokensOver(a, k, actual)
        PROVE  PlanAllowanceBounded'
    <2>1. /\ res'[a][k] = UsageIn(old, "settled", actual) /\ Others
          /\ plan' = plan
      BY <1>6 DEF SettleTokensOver, Settled, TypeOK
    <2>2. Share(a, k)' = 0
      BY <1>1, <2>1 DEF UsageIn, OpenStatus
    <2>3. \A b \in Accounts : b # a => included'[b] = included[b]
      BY <1>6 DEF SettleTokensOver, TypeOK
    <2>4. included'[a] <= included[a]
      <3>1. PICK d : d = IF SamePlan(a, old) /\ plan[a].metered
                         THEN Least(actual - Held(old), included[a]) ELSE 0
        OBVIOUS
      <3>2. included'[a] = included[a] - d
        BY <1>6, <3>1 DEF SettleTokensOver, TypeOK
      <3>3. d \in Nat
        BY <1>0, <1>6, <3>1 DEF SettleTokensOver, Held, Least
      <3> QED  BY <1>0, <3>2, <3>3
    <2>5. included'[a] \in Nat
      BY DEF TypeOK
    <2> QED  BY <1>0, <2>1, <2>2, <2>3, <2>4, <2>5, AllowanceRow
  <1>7. ASSUME MarkUncertain(a, k)  PROVE PlanAllowanceBounded'
    <2>1. /\ res'[a][k] = UsageIn(old, "uncertain", 0) /\ Others
          /\ plan' = plan /\ included' = included
      BY <1>7 DEF MarkUncertain, balances, TypeOK
    <2>2. Share(a, k)' = Share(a, k)
      BY <1>1, <1>7, <2>1 DEF UsageIn, MarkUncertain, OpenStatus
    <2> QED  BY <1>0, <2>1, <2>2, AllowanceRow
  <1>8. ASSUME ReleaseUsd(a, k)  PROVE PlanAllowanceBounded'
    <2>1. /\ res'[a][k] = UsageIn(old, "released", 0) /\ Others
          /\ plan' = plan /\ included' = included
      BY <1>8 DEF ReleaseUsd, TypeOK
    <2>2. Share(a, k)' = 0
      BY <1>1, <2>1 DEF UsageIn, OpenStatus
    <2> QED  BY <1>0, <2>1, <2>2, AllowanceRow
  <1>9. ASSUME ReleaseTokens(a, k)  PROVE PlanAllowanceBounded'
    <2>1. /\ res'[a][k] = UsageIn(old, "released", 0) /\ Others
          /\ plan' = plan
      BY <1>9 DEF ReleaseTokens, TypeOK
    <2>2. Share(a, k)' = 0
      BY <1>1, <2>1 DEF UsageIn, OpenStatus
    <2>3. \A b \in Accounts : b # a => included'[b] = included[b]
      BY <1>9 DEF ReleaseTokens, TypeOK
    <2>4. included'[a] <= included[a] + Share(a, k)
      <3>1. CASE SamePlan(a, old)
        <4>1. Share(a, k) = old.inc
          BY <1>0, <1>9, <3>1 DEF ReleaseTokens, Returnable, SamePlan, OpenStatus
        <4>2. included'[a] = included[a] + old.inc
          BY <1>9, <3>1 DEF ReleaseTokens, TypeOK
        <4> QED  BY <1>0, <4>1, <4>2
      <3>2. CASE ~SamePlan(a, old)
        BY <1>0, <1>9, <3>2 DEF ReleaseTokens
      <3> QED  BY <3>1, <3>2
    <2>5. included'[a] \in Nat
      BY DEF TypeOK
    <2> QED  BY <1>0, <2>1, <2>2, <2>3, <2>4, <2>5, AllowanceRow
  <1> QED  BY <1>2, <1>3, <1>4, <1>5, <1>6, <1>7, <1>8, <1>9 DEF UsageStep

\* Plans and holds go on bearing recorded grants.
LEMMA VersionsStayGranted ==
    ASSUME AllowanceInv, [Next]_vars
    PROVE  VersionsGranted'
  <1> USE DEF AllowanceInv
  <1>1. ASSUME UNCHANGED <<plan, granted, res>>  PROVE VersionsGranted'
    BY <1>1 DEF VersionsGranted
  <1>2. ASSUME NEW a \in Accounts, NEW k \in Keys, UsageStep(a, k)  PROVE VersionsGranted'
    <2> DEFINE Row ==
          /\ \A b \in Accounts, l \in Keys : b # a \/ l # k => res'[b][l] = res[b][l]
          /\ res'[a][k].version \in {NoVersion, plan[a].version, res[a][k].version}
    <2>1. Row
      <3>1. ASSUME NEW i \in Inputs, NEW n \in UsdAmounts, ReserveUsd(a, k, i, n)
            PROVE  Row
        BY <3>1 DEF ReserveUsd, TypeOK
      <3>2. ASSUME NEW i \in Inputs, NEW n \in TokenAmounts, ReserveTokens(a, k, i, n)
            PROVE  Row
        BY <3>2 DEF ReserveTokens, TypeOK
      <3>3. ASSUME NEW row, row.version = res[a][k].version, res' = [res EXCEPT ![a][k] = row]
            PROVE  Row
        BY <3>3 DEF TypeOK
      <3>4. ASSUME \/ \E actual \in Usages : \/ SettleUsdUsage(a, k, actual)
                                            \/ SettleTokensWithin(a, k, actual)
                                            \/ SettleTokensOver(a, k, actual)
                   \/ MarkUncertain(a, k) \/ ReleaseUsd(a, k) \/ ReleaseTokens(a, k)
            PROVE  \E s \in Status, c \in Nat :
                      res' = [res EXCEPT ![a][k] = UsageIn(res[a][k], s, c)]
        BY <3>4, AmountsAssumption DEF SettleUsdUsage, SettleTokensWithin, SettleTokensOver, MarkUncertain,
           ReleaseUsd, ReleaseTokens, Settled, Status
      <3>5. \A s, c : UsageIn(res[a][k], s, c).version = res[a][k].version
        BY DEF UsageIn
      <3> QED  BY <1>2, <3>1, <3>2, <3>3, <3>4, <3>5 DEF UsageStep
    <2>2. plan' = plan /\ granted' = granted
      BY <1>2 DEF UsageStep, ReserveUsd, ReserveTokens, SettleUsdUsage, SettleTokensWithin,
         SettleTokensOver, MarkUncertain, ReleaseUsd, ReleaseTokens
    <2> QED  BY <2>1, <2>2 DEF VersionsGranted
  <1>3. ASSUME NEW a \in Accounts, NEW k \in Keys, RequestStep(a, k)
        PROVE  UNCHANGED <<plan, granted, res>>
    BY <1>3 DEF RequestStep, ReservePlus, ReserveRequest, SettlePlus, SettleRequest,
       ReleasePlus, ReleaseRequest, MarkPlusUncertain, MarkRequestUncertain
  <1>4. ASSUME NEW a \in Accounts, AccountStep(a)  PROVE VersionsGranted'
    <2>1. res' = res
      BY <1>4, AccountMovesNone DEF holds
    <2> DEFINE Kept ==
          /\ granted \subseteq granted'
          /\ \A b \in Accounts : plan'[b].version \in granted' \cup {NoVersion}
    <2>2. Kept
      <3>1. ASSUME NEW v \in Versions, NEW t \in PlanTerms, GrantPlan(a, v, t)
            PROVE  Kept
        BY <3>1 DEF GrantPlan, VersionsGranted, TypeOK
      <3>2. CASE PlanEnds(a)
        BY <3>2 DEF PlanEnds, VersionsGranted, TypeOK
      <3>3. ASSUME UNCHANGED <<plan, granted>>  PROVE Kept
        BY <3>3 DEF VersionsGranted
      <3> QED  BY <1>4, <3>1, <3>2, <3>3 DEF AccountStep, CreditUsd, CreditTokens, ReverseUsd
    <2> QED  BY <2>1, <2>2 DEF VersionsGranted
  <1> QED  BY <1>1, <1>2, <1>3, <1>4 DEF Next, vars

\* A new grant finds no hold of its own; no other account step changes what
\* holds drew.
LEMMA AllowanceAccount ==
    ASSUME AllowanceInv, NEW a \in Accounts, AccountStep(a)
    PROVE  PlanAllowanceBounded'
  <1> USE DEF AllowanceInv
  <1>0. res' = res
    BY AccountMovesNone DEF holds
  <1>1. ASSUME \A b \in Accounts : /\ plan'[b].version = plan[b].version
                                  /\ plan'[b].tokens = plan[b].tokens
                                  /\ included'[b] = included[b]
        PROVE  PlanAllowanceBounded'
    BY <1>0, <1>1 DEF PlanAllowanceBounded, Drawn
  <1>2. ASSUME NEW v \in Versions, NEW t \in PlanTerms, GrantPlan(a, v, t)
        PROVE  PlanAllowanceBounded'
    <2>1. SUFFICES ASSUME NEW b \in Accounts
                   PROVE  included'[b] + SumFunctionOnSet(Incs(b)', Drawn(b)') <= plan'[b].tokens
      BY DEF PlanAllowanceBounded, Incs
    <2>2. CASE b = a
      <3>1. Drawn(b)' = {}
        BY <1>0, <1>2, <2>2, NamesAssumption DEF Drawn, GrantPlan, VersionsGranted, TypeOK
      <3>2. SumFunctionOnSet(Incs(b)', Drawn(b)') = 0
        BY <3>1, SumEmpty
      <3>3. included'[b] = t.tokens /\ plan'[b].tokens = t.tokens /\ t.tokens \in Nat
        BY <1>2, <2>2, NamesAssumption DEF GrantPlan, TypeOK
      <3> QED  BY <3>2, <3>3
    <2>3. CASE b # a
      <3>1. plan'[b] = plan[b] /\ included'[b] = included[b]
        BY <1>2, <2>3 DEF GrantPlan, TypeOK
      <3>2. Drawn(b)' = Drawn(b) /\ Incs(b)' = Incs(b)
        BY <1>0, <3>1 DEF Drawn, Incs
      <3> QED  BY <3>1, <3>2 DEF PlanAllowanceBounded, Incs
    <2> QED  BY <2>2, <2>3
  <1>3. CASE PlanEnds(a)
    BY <1>1, <1>3 DEF PlanEnds, balances, TypeOK
  <1>4. ASSUME UNCHANGED <<plan, included>>  PROVE PlanAllowanceBounded'
    BY <1>1, <1>4
  <1> QED  BY <1>2, <1>3, <1>4 DEF AccountStep, CreditUsd, CreditTokens, ReverseUsd

\* However late a hold of an older plan is settled or released: what is left of
\* a grant and what open holds drew from it never exceed the grant.
THEOREM AllowanceBounded == Spec => []PlanAllowanceBounded
  <1>1. Init => AllowanceInv
    <2> SUFFICES ASSUME Init  PROVE AllowanceInv
      OBVIOUS
    <2>1. VersionsGranted
      BY DEF Init, VersionsGranted, NoPlan, NoUsageRow
    <2>2. ASSUME NEW a \in Accounts
          PROVE  /\ Drawn(a) = {} /\ included[a] = 0 /\ plan[a].tokens = 0
      BY DEF Init, Drawn, NoUsageRow, OpenStatus, NoPlan
    <2>3. ASSUME NEW a \in Accounts
          PROVE  SumFunctionOnSet(Incs(a), Drawn(a)) = 0
      BY <2>2, SumEmpty
    <2>4. PlanAllowanceBounded
      BY <2>2, <2>3 DEF PlanAllowanceBounded, Incs
    <2> QED  BY <2>1, <2>4, TypeInit DEF AllowanceInv
  <1>2. AllowanceInv /\ TypeOK' /\ [Next]_vars => AllowanceInv'
    <2> SUFFICES ASSUME AllowanceInv, TypeOK', [Next]_vars  PROVE PlanAllowanceBounded'
      BY VersionsStayGranted DEF AllowanceInv
    <2>1. ASSUME UNCHANGED <<plan, included, res>>  PROVE PlanAllowanceBounded'
      BY <2>1 DEF AllowanceInv, PlanAllowanceBounded, Drawn
    <2>2. ASSUME NEW a \in Accounts, NEW k \in Keys, RequestStep(a, k)
          PROVE  UNCHANGED <<plan, included, res>>
      BY <2>2 DEF RequestStep, ReservePlus, ReserveRequest, SettlePlus, SettleRequest,
         ReleasePlus, ReleaseRequest, MarkPlusUncertain, MarkRequestUncertain, balances
    <2> QED  BY <2>1, <2>2, AllowanceUsage, AllowanceAccount DEF Next, vars
  <1>3. AllowanceInv => PlanAllowanceBounded
    BY DEF AllowanceInv
  <1> QED  BY <1>1, <1>2, <1>3, TypeCorrect, PTL DEF Spec
=============================================================================
