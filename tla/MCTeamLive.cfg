\* The same crew without reviews, under fairness; one agent writes to another, also after
\* a completion.
SPECIFICATION FairSpec
CONSTANTS
  Members = {m1, m2}
  Helper = helper
  Concurrency = 2
  MaxTurns = 2
  MaxCycles = 0
  Handoffs = 1
  Guidance = 0
INVARIANTS EndedIsQuiet
PROPERTIES RunEnds
CHECK_DEADLOCK FALSE
