SPECIFICATION Spec
CONSTANTS
  MaxCommits = 2
  MaxClock = 6
INVARIANTS TypeOK RefusalHasCause
PROPERTY BackupIsComplete
CHECK_DEADLOCK FALSE
