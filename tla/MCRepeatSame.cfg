SPECIFICATION Spec
CONSTANT MaxFaults = 1
CHECK_DEADLOCK FALSE
PROPERTY SameCommandSucceeds
