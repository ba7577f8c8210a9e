SPECIFICATION CommandSpec
CONSTANTS
  Levels = {trace, info}
  MaxId = 2
  SampleEvents = 2
  Files = {f1, f2}
  Mitigated = f1
  SwapLate = FALSE
  MaxEvents = 3
  Databases = {a, b}
  MaxTime = 2
  AuditEvents = 3
  None = none
  Idle = idle
SYMMETRY Symmetry
CHECK_DEADLOCK FALSE
INVARIANTS
  PartsTypeOK
  NoInsertMissed  
   OkWasConfirmed QuietVerdict
  StaleIsOlder ActiveHasEvidence HolderIsFound
