SPECIFICATION Spec
CONSTANTS
  Saves = {s1, s2}
  MAX_HISTORY = 2
  MaxEntries = 2
  MaxProgress = 2
  MaxSaved = 2
  NoOverlap = FALSE
INVARIANTS
  NoConcurrentWriters
