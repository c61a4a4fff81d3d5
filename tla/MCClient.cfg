\* The player is free to press E, to answer or to walk away at any moment, so
\* a behaviour may end: a completed task has no next step.
SPECIFICATION Spec
CONSTANTS
  Sources = {s1, s2}
  FaultTypes = {"UNMERGED_SNAPSHOT", "MTU_MISMATCH"}
  VmCount = 2
  TickPercent = 10
  InjectionSteps = 2
  CutoverSteps = 2
  PostCheckSteps = 2
  Tools = {"SNAPSHOT_GUN", "FIBER_PATCHER"}
  MaxSwitches = 3
INVARIANTS
  MovesAreLegal
  PanelsAreLive
  ScoredOnce
  MappingsAgree
  HandShowsTool
PROPERTY SyncCompletes
CHECK_DEADLOCK FALSE
