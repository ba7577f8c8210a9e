SPECIFICATION Spec
CONSTANTS
  Doctors = {d1, d2}
  NumInodes = 1
  Schemas = {s1}
  Modes = {balanced}
  StrayTriggers = {}
  ForeignTriggers = {}
  WalMode = TRUE
  SwapBack = FALSE
  MaxVer = 0
  None = None
SYMMETRY Symmetry
CHECK_DEADLOCK FALSE
PROPERTIES SealMatchesState
