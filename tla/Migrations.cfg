\* Two containers, one row of jobs, one downgrade, one crash, sessions an hour off UTC.
CONSTANTS
  Deployers = {d1, d2}
  Rows = {r1}
  SessionOffset = 1
  MaxAttempts = 2
  MaxDowngrades = 1
  MaxCrashes = 1
SPECIFICATION Spec
INVARIANTS
  TypeOK
  SchemaMatchesVersion
  InstantsPreserved
PROPERTIES
  StatusesPreserved
  FailuresExplained
  RunsEnd
