\* Notifications of a top-up and of Basic and Plus periods, late, repeated and out of order,
\* with partial, repeated and excessive reversals, and a plan granted by hand.
SPECIFICATION Spec
CONSTANTS
  Payments = {"t1", "b1", "b2", "q1", "q2"}
  Reversals = {x1, x2, x3, x4}
  x1 = x1
  x2 = x2
  x3 = x3
  x4 = x4
  PaymentOf <- Bought
  ReversalOf <- Returned
  BasicPrice = 2
  PlusPrice = 1
  TopUpMin = 1
  TopUpMax = 3
  Ceiling = 3
  BasicSpan = 2
  PlusSpan = 1
  MaxTime = 1
  MaxConsumed = 1
  HandGrants <- Hand
  ByHand = ByHand
SYMMETRY Symmetry
INVARIANTS TypeOK CreditMatchesRows TopUpNet AcknowledgedIsRecorded FullReversalEnds
PROPERTIES PaidPeriodKept
CHECK_DEADLOCK FALSE
