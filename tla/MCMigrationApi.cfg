SPECIFICATION SpecMappings
CONSTANTS
  TaskIds = {t1}
  Requests = {r1, r2}
  Total = 5
  Block = 3
  Speeds = {3}
  MAX_HISTORY = 2
  MaxRounds = 2
  DriverSteps = 1
  CutoverSteps = 1
  MaxCalls = 4
  VSwitches = {v1, v2}
  Bridges = {b1, b2}
  Pools = {p1}
  VMs = {m1}
INVARIANTS
  TypeOK
  ResumeNeverSkipsData
  OffsetIsLatestCheckpoint
  NetworkCanBeCompleted
  TaskCarriesItsMappings
PROPERTIES
  InjectionsEndCompleted
  ProgressIsSafe
  SyncQuiesces
  RequestsAreAnswered
