SPECIFICATION Spec
CONSTANTS
  Doctors = {d1}
  NumInodes = 2
  Schemas = {s1, s2}
  Modes = {balanced}
  StrayTriggers = {}
  ForeignTriggers = {}
  WalMode = FALSE
  SwapBack = TRUE
  MaxVer = 0
  None = None
SYMMETRY Symmetry
CHECK_DEADLOCK FALSE
PROPERTIES CommitOnPlannedTarget
