SPECIFICATION Spec
CONSTANTS
  Saves = {s1}
  MAX_HISTORY = 1
  MaxEntries = 2
  MaxProgress = 2
  MaxSaved = 2
  NoOverlap = TRUE
INVARIANTS
  FileIsWhole
  ResumeIsSafeAfterRestart
  ChangesAreNotedOrSaved
PROPERTIES
  NewerFileIsKept
  ImplementsRegister
  ChangesReachTheFile
