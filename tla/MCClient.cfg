SPECIFICATION Spec
CONSTANTS
  Doctors = {d1, d2}
  NumInodes = 1
  Schemas = {s1, s2}
  Modes = {balanced, maximum}
  StrayTriggers = {stray}
  ForeignTriggers = {foreign}
  WalMode = TRUE
  SwapBack = FALSE
  MaxVer = 2
  None = None
SYMMETRY Symmetry
CHECK_DEADLOCK FALSE
INVARIANTS TypeOK Recoverable HonestOutcome
PROPERTIES CommitFollowsBackup
