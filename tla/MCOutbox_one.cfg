\* One publisher at a time, three events of which one has no handler, batches of two.
CONSTANTS
  NumEvents = 3
  Unsupported = {2}
  Publishers = {p1}
  MaxPublishRetries = 1
  BatchLimit = 2
  BackoffBase = 1
  BackoffCap = 2
  MaxCrashes = 1
SPECIFICATION FairSpec
INVARIANTS
  TypeOK
PROPERTIES
  EventuallyDecided
CHECK_DEADLOCK FALSE
