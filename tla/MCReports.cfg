\* Three requests, report or job, under one key or an empty one, whose callers enter
\* their UnitOfWork or do not.  Scheduled fairly, hence without symmetry.
CONSTANTS
  Requests = {r1, r2, r3}
  Keys = {k1}
  NoKey = NoKey
  EmptyKey = EmptyKey
  UsedKeys = {k1, EmptyKey}
  None = None
  Callers = {"enters", "get_uow"}
SPECIFICATION FairSpec
INVARIANTS
  TypeOK
  AnswersDurable
  SameKeySameAnswer
  ReportsHaveJobs
  RacesRecover
PROPERTIES
  EventuallyAnswered
CHECK_DEADLOCK FALSE
