SPECIFICATION Spec
CONSTANTS
  Instances = {i1, i2}
  Tasks = {t1, t2}
  Slots = {s1}
  MAX_HISTORY = 2
  MaxCheckpoints = 1
  MaxCrashes = 0
INVARIANTS
  InstancesKeepEachOthersTasks
