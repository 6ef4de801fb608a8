\* One request through db/session.py get_uow, which enters no UnitOfWork.
CONSTANTS
  Requests = {r1}
  Keys = {k1}
  NoKey = NoKey
  EmptyKey = EmptyKey
  UsedKeys = {k1}
  None = None
  Callers = {"get_uow"}
SPECIFICATION Spec
INVARIANTS
  ReturnedReportCommitted
CHECK_DEADLOCK FALSE
