SPECIFICATION Spec
CONSTANTS
  Logins = {l1, l2}
  Subjects = {o1}
  Requests = {r1, r2}
  FLOW_MAX = 1
  MaxUsers = 2
  MaxSessions = 3
  MaxFlows = 3
SYMMETRY Symmetry
INVARIANTS
  AccountsAreUnique
  RefreshNeverForks
  LoginsLast
  FlowsAreUsedOnce
