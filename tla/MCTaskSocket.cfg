SPECIFICATION Spec
CONSTANTS
  Tasks = {t1, t2}
  wsMaxSubscriptions = 1
  MaxConnects = 2
  MaxTogether = 3
  MaxConnections = 2
  MaxQueue = 1
  MaxCuts = 2
INVARIANTS
  ServerFollowsClient
  OneConnection
PROPERTIES
  BackOnline
  DeadConnectionsAreReaped
