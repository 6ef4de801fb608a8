\* Scheduled fairly, no symmetry: one job, two workers, two faults of any kind.
CONSTANTS
  Jobs = {j1}
  Workers = {w1, w2}
  NoJob = NoJob
  MaxRetries = 1
  MaxPublishRetries = 1
  MaxSubmissions = 2
  MaxReruns = 1
  EarlyWriters = {}
  FaultKinds = {"unmarked", "publish", "finalize", "aborted", "unexpected", "crash", "redeliver",
    "lost", "refused"}
  MaxFaults = 2
SPECIFICATION FairSpec
PROPERTIES
  StrandedOnlyByLoss
  EventuallySettled
CHECK_DEADLOCK FALSE
