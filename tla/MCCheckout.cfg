\* Two tabs, three choices, time for an intent to expire and a period to pass.
SPECIFICATION Spec
CONSTANTS
  Tabs = {t1, t2}
  Choices = {"basic", "plus", "paypal"}
  Life = 2
  MinLife = 1
  Period = 2
  MaxTime = 5
  MaxIntents = 2
SYMMETRY Symmetry
INVARIANTS OneSubscriptionCharges NoPaymentWasted
CHECK_DEADLOCK FALSE
