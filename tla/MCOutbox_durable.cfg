\* Two overlapping publishers, one event, no crash.
CONSTANTS
  NumEvents = 1
  Unsupported = {}
  Publishers = {p1, p2}
  MaxPublishRetries = 1
  BatchLimit = 1
  BackoffBase = 1
  BackoffCap = 1
  MaxCrashes = 0
SPECIFICATION Spec
SYMMETRY Symmetry
PROPERTIES
  PublishedDurable
CHECK_DEADLOCK FALSE
