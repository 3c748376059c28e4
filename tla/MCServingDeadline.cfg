SPECIFICATION Spec
CONSTANTS
  Requests = {r1, r2}
  NoRequest = NoRequest
  PrefixCache = TRUE
  MaxPending = 1
  HasDeadline = TRUE
SYMMETRY Symmetry
INVARIANTS
  NothingLeaks
  ReuseIsClean
  HealthCounters
PROPERTY
  FailsClosed
