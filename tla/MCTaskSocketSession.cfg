SPECIFICATION Spec
CONSTANTS
  Tasks = {t1}
  wsMaxSubscriptions = 1
  MaxConnects = 1
  MaxTogether = 3
  MaxConnections = 2
  MaxQueue = 1
  MaxCuts = 1
PROPERTIES
  AlwaysBackOnline
