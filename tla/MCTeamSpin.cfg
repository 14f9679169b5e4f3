\* A single member and a helper that the user pauses.
SPECIFICATION FairSpec
CONSTANTS
  Members = {m1}
  Helper = helper
  Concurrency = 2
  MaxTurns = 1
  MaxCycles = 0
  Handoffs = 0
  Guidance = 0
PROPERTIES SchedulerRests
CHECK_DEADLOCK FALSE
