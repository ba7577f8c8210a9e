SPECIFICATION Spec
CONSTANT MaxFaults = 5
CHECK_DEADLOCK FALSE
INVARIANTS TypeOK  NineMeansCommitted
PROPERTIES Reconciled RepeatSucceeds
