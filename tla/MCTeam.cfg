\* Two members and a helper with one slot less than there are agents; one wake-up, one
\* review, and one message or handoff of the user.
SPECIFICATION Spec
CONSTANTS
  Members = {m1, m2}
  Helper = helper
  Concurrency = 2
  MaxTurns = 2
  MaxCycles = 1
  Handoffs = 0
  Guidance = 1
SYMMETRY Symmetry
INVARIANTS TypeOK SlotsRespected InterruptionIsResumed CompletionIsAnswered
PROPERTIES PauseHolds
CHECK_DEADLOCK FALSE
