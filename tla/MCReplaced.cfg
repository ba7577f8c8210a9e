SPECIFICATION Spec
CONSTANTS
  Doctors = {d1, d2}
  NumInodes = 2
  Schemas = {s1, s2}
  Modes = {balanced}
  StrayTriggers = {}
  ForeignTriggers = {}
  WalMode = FALSE
  SwapBack = FALSE
  MaxVer = 1
  None = None
SYMMETRY Symmetry
CHECK_DEADLOCK FALSE
INVARIANTS IInv

PROPERTIES CommitOnPlannedTarget ImplementsLifecycle
