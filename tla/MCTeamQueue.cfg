\* Two messages, three runs and a restart.
SPECIFICATION QueueSpec
CONSTANTS
  Messages = {p, q}
  NoMessage = NoMessage
  ByUser = ByUser
  Capacity = 2
  MaxRuns = 3
  MaxFaults = 1
SYMMETRY Symmetry
INVARIANTS QueueTypeOK Accounted RecoveryPaysNothing HeadIsServed
CHECK_DEADLOCK FALSE
