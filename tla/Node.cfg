SPECIFICATION NodeSpec
CONSTANTS
  Node = {0, 1, 2, 3, 4}
  Self = 0
  Direct = {3}
  Prefix = {"narrow", "wide"}
  Length <- MCLength
  OwnPrefix <- MCOwnPrefix
  Adverts <- MCAdverts
  MaxRoutes = 2
  MaxCandidates = 3
  MaxPeers = 3
  MaxHops = 2
  MaxMetric = 2
  MaxLease = 3
  LeaseTime = 2
  ProbeInterval = 1
  HoldDown = 1
  ProbeTimeout = 1
  ProbeId = {1, 2, 3, 4}
  MaxPending = 2
  MaxFaults = 1
INVARIANTS TableSound BestRoute CleanStop
PROPERTIES HoldDownKept SuppressionFollowsPath StopReturns
CHECK_DEADLOCK FALSE
