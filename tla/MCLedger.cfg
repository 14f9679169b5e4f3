\* One key space for subscription, Plus and metered requests, with overruns,
\* debt, reversals and renewals.
SPECIFICATION Spec
CONSTANTS
  k1 = k1  k2 = k2  g1 = g1  g2 = g2
  Accounts = {a1}
  Keys = {k1, k2}
  Inputs = {i1}
  Versions = {g1, g2}
  PlanTerms <- MixedTerms
  IncludedLimit = 1
  Overage = 1
  Ceiling = 2
  UsdAmounts = {2}
  TokenAmounts = {2}
  Usages = {1, 3}
  UsdCredits = {1}
  TokenCredits = {1}
  NoInput = NoInput
  NoVersion = NoVersion
SYMMETRY Symmetry
INVARIANTS RchBacked PeriodWithinLimit PlanAllowanceBounded
PROPERTIES UsdConserved PromiseKept
CHECK_DEADLOCK FALSE
