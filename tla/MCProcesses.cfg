SPECIFICATION Spec
CONSTANTS
  Doctors = {d1, d2, d3}
  NumInodes = 1
  Schemas = {s1}
  Modes = {balanced}
  StrayTriggers = {}
  ForeignTriggers = {}
  WalMode = FALSE
  SwapBack = FALSE
  MaxVer = 1
  None = None
SYMMETRY Symmetry
CHECK_DEADLOCK FALSE
INVARIANTS OneMutator RecordIsTruthful
PROPERTIES SealMatchesState
