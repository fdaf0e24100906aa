CONSTANTS
  Callers = {"operator"}
  None = None
  MaxEpoch = 3
  MaxRevision = 8
SPECIFICATION Spec
INVARIANT NeverLockedOut
CHECK_DEADLOCK FALSE
