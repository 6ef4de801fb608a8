\* Five jobs with ties in created_at, pages of one or two.
CONSTANTS
  Jobs <- FiveJobs
  CreatedAt <- TwoTicks
  MaxLimit = 2
  NoJob = 0
SPECIFICATION Spec
INVARIANTS
  ListedOnce
  NoneSkipped
PROPERTIES
  WalkEnds
