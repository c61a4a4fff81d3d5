SPECIFICATION Spec
CONSTANTS
  Instances = {i1}
  Tasks = {t1, t2}
  Slots = {s1}
  MAX_HISTORY = 1
  MaxCheckpoints = 3
  MaxCrashes = 2
SYMMETRY Symmetry
INVARIANTS
  CheckpointsNotAheadOfTasks
  NoChangeForgotten
PROPERTIES
  ImplementsRegister
