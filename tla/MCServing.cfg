SPECIFICATION Spec
CONSTANTS
  Requests = {r1, r2, r3}
  NoRequest = NoRequest
  PrefixCache = FALSE
  MaxPending = 1
  HasDeadline = FALSE
SYMMETRY Symmetry
VIEW WithoutHistory
INVARIANTS
  TypeOK
  EngineExclusive
  QueueBound
PROPERTIES
  GoneNeverGenerates
  ImplementsSlot
