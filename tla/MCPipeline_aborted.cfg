\* A job submitted once, one database error inside its executor.  (The kinds "unexpected",
\* "lost" and "refused" in its place strand the job as well.)
CONSTANTS
  Jobs = {j1}
  Workers = {w1, w2}
  NoJob = NoJob
  MaxRetries = 1
  MaxPublishRetries = 1
  MaxSubmissions = 1
  MaxReruns = 0
  EarlyWriters = {}
  FaultKinds = {"aborted"}
  MaxFaults = 1
SPECIFICATION Spec
SYMMETRY WorkerSymmetry
INVARIANTS
  NeverStranded
CHECK_DEADLOCK FALSE
