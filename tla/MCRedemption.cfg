\* Two submissions race over a useless transaction and two that redeem, with a failed
\* call or a restart, under fairness.
SPECIFICATION FairSpec
CONSTANTS
  A = A  t1 = t1  t2 = t2  t3 = t3
  Redemptions = {A}
  Txs = {t1, t2, t3}
  RedeemedBy <- Pasted
  Hashes = {1}
  NoTx = NoTx
  Clients = {c1, c2}
  Ticker = Ticker
  Treasury = TRUE
  Worth <- OneEach
  Budget = 1
  LaggingRpc = FALSE
  MaxOutages = 1
  NoBlock = NoBlock
  NoRedemption = NoRedemption
INVARIANT CreditedIsFinal
PROPERTIES NoBurnDiscarded FinalIsCredited
CHECK_DEADLOCK FALSE
