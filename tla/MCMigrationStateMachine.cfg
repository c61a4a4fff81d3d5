SPECIFICATION Spec
CONSTANTS
  TaskIds = {t1}
  MaxTimeline = 15
INVARIANTS
  TypeOK
  TimelineExplainsState
  NoStageSkipped
  CrashForgetsOnlyTheEnd
PROPERTIES
  ImplementsLifecycle
