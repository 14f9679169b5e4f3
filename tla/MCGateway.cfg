\* Two requests over a metered and a per-request key, room for one, under fairness.
SPECIFICATION FairSpec
CONSTANTS
  Requests = {r1, r2}
  Keys = {metered, perRequest}
  RequestKeys = {perRequest}
  MaxConcurrency = 1
  NoKey = NoKey
  Nobody = Nobody
INVARIANTS NoStrayCall OneGeneration CapacityExact EndedIsResolved
PROPERTIES EveryRequestEnds
CHECK_DEADLOCK FALSE
