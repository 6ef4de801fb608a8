\* Two overlapping publishers, two events.
CONSTANTS
  NumEvents = 2
  Unsupported = {}
  Publishers = {p1, p2}
  MaxPublishRetries = 1
  BatchLimit = 2
  BackoffBase = 1
  BackoffCap = 2
  MaxCrashes = 1
SPECIFICATION Spec
SYMMETRY Symmetry
INVARIANTS
  ClaimsExclusive
  FailedAfterBudget
  WaitsBounded
  DispatchesAccounted
  EarlyDispatchesBounded
PROPERTIES
  ImplementsContract
CHECK_DEADLOCK FALSE
