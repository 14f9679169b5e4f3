\* Three threads, two slots, a free alias with the bridge as its fallback.
SPECIFICATION FairSpec
CONSTANTS
  Requests = {1, 2, 3}
  Shapes <- Asked
  Keys = {"k"}
  Aliases = {"omniroute", "bridge"}
  Circuits = {"omniroute", "bridge"}
  CircuitOf <- Circuit
  FallbackOf <- Falls
  MaxConcurrency = 2
  Threshold = 1
  Retries = 1
  DayLimit = 1
  Usages = {1}
  NoAlias = NoAlias
  NoShape = NoShape
INVARIANTS SlotsExact OvershootBounded
PROPERTIES BreakerJudgesItsOwn SlotsComeBack
CHECK_DEADLOCK FALSE
