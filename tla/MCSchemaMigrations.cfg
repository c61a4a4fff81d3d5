SPECIFICATION Spec
CONSTANTS
  Processes = {p1, p2, p3}
INVARIANTS
  RecordIsTrue
  MigratingSucceeds
PROPERTIES
  EveryCommandEnds
CHECK_DEADLOCK FALSE
