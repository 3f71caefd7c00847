SPECIFICATION PairSpec
CONSTANTS
  Prefix = {1, 2}
  Length <- SameLength
  MaxRoutes = 1
  MaxCandidates = 1
  ProbeInterval = 3
  HoldDown = 3
  ProbeTimeout = 1
  MaxOutages = 1
PROPERTIES WorkingPathReturns
