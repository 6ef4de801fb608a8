\* Two reports, two workers, two submissions each, a manual retry, two faults
\* of any kind.
CONSTANTS
  Jobs = {j1, j2}
  Workers = {w1, w2}
  NoJob = NoJob
  MaxRetries = 1
  MaxPublishRetries = 1
  MaxSubmissions = 2
  MaxReruns = 1
  EarlyWriters = {}
  FaultKinds = {"unmarked", "publish", "finalize", "aborted", "unexpected", "crash", "redeliver",
    "lost", "refused"}
  MaxFaults = 2
SPECIFICATION ReportSpec
SYMMETRY Symmetry
INVARIANTS
  ReportMatchesJob
  GeneratedOnce
PROPERTIES
  ReadyButOpenStays
CHECK_DEADLOCK FALSE
