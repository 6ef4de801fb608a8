\* Two threads, two deployments (in one two modules claim a type), two failing imports.
CONSTANTS
  Threads = {t1, t2}
  JobTypes <- Types
  Deployments <- Settings
  NoThread = NoThread
  MaxFaults = 2
  MaxRestarts = 1
SPECIFICATION Spec
INVARIANTS
  TypeOK
  NoneMisdirected
  OneDispatcher
PROPERTIES
  EventuallyReady
