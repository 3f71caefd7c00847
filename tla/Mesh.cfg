SPECIFICATION FairSpec
CONSTANTS
  Node = {1, 2, 3, 4}
  Prefix = {1, 2, 3, 4}
  Fragile <- MCFragile
  Configured <- MCConfigured
  Length <- MCLength
  Offsets <- MCOffsets
  MaxRoutes = 8
  MaxCandidates = 8
  ProbeInterval = 1
  HoldDown = 1
  MaxPeers = 4
  MaxHops = 4
  MaxMetric = 8
  MaxLease = 6
  LeaseTime = 5
  BatchSize = 4
  FullRounds = 2
  MaxLosses = 1
  MaxCuts = 1
INVARIANTS LearnedSound
PROPERTIES Converges
