SPECIFICATION Spec
CONSTANTS
  MaxCommits = 2
  MaxClock = 6
PROPERTY SidecarsKept
CHECK_DEADLOCK FALSE
