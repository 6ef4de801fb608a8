\* One job, two workers that race for it, two submissions, a DLQ retry, two faults of any kind.
CONSTANTS
  Jobs = {j1}
  Workers = {w1, w2}
  NoJob = NoJob
  MaxRetries = 1
  MaxPublishRetries = 1
  MaxSubmissions = 2
  MaxReruns = 1
  EarlyWriters = {j1}
  FaultKinds = {"unmarked", "publish", "finalize", "aborted", "unexpected", "crash", "redeliver",
    "lost", "refused"}
  MaxFaults = 2
SPECIFICATION Spec
SYMMETRY WorkerSymmetry
INVARIANTS
  TypeOK
  AttemptLogComplete
  AttemptsSerialized
  StatusMatchesLog
  EffectsAccounted
  AttemptsBudgeted
PROPERTIES
  CompletedFinal
  ImplementsLifecycle
CHECK_DEADLOCK FALSE
