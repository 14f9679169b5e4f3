\* A reversal that arrives while the credit is held.
SPECIFICATION Spec
CONSTANTS
  k1 = k1  k2 = k2  g1 = g1  g2 = g2
  Accounts = {a1}
  Keys = {k1, k2}
  Inputs = {i1}
  Versions = {g1, g2}
  PlanTerms <- BasicTerms
  IncludedLimit = 1
  Overage = 1
  Ceiling = 3
  UsdAmounts = {1}
  TokenAmounts = {}
  Usages = {0, 1}
  UsdCredits = {1}
  TokenCredits = {}
  NoInput = NoInput
  NoVersion = NoVersion
INVARIANT DebtIsSpentCredit
CHECK_DEADLOCK FALSE
