SPECIFICATION Spec
CONSTANTS
  Processes = {p1, p2}
INVARIANTS
  RollbackSucceeds
CHECK_DEADLOCK FALSE
