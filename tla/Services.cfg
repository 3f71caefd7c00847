SPECIFICATION Spec
CONSTANTS
  REPLAY_BITS = 3
  WIRE_MOD = 7
  MaxSent = 9
  InitArrival <- MCInitArrival
  SourceKey <- MCSourceKey
  PerSourceLimit = 2
  GlobalLimit = 3
  MaxSources = 1
  LimitWindow = 2
  RotationInterval = 2
  RelayNode = {"s", "t", "r", "q", "d"}
  RelayPaths <- MCRelayPaths
  KnownTo <- MCKnownTo
  ReachableFrom <- MCReachableFrom
  RelaySizes = {1148, 1208}
  Underlay = 1500
  Bucket = 64
  MaxRelayDepth = 3
  PeerRate <- MCPeerRate
  PeerBurst <- MCPeerBurst
  GlobalRate <- MCGlobalRate
  GlobalBurst <- MCGlobalBurst
  MaxQuotaPeers = 1
  IdleTtl = 2
  MaxFlight = 2
  Address = {"a", "b"}
  Places <- MCPlaces
  Announced <- MCAnnounced
  MaxCandidateCount = 2
  MaxPunches = 1
  PunchTimeout = 1
  PunchGap = 2
  MaxWire = 1
  MaxMoves = 1
  RevNodes = {1, 2, 3}
  RevNeighbours <- MCRevNeighbours
  Issuable <- MCIssuable
  MaxStored = 2
  MaxRecords = 1
  MaxRevFaults = 1
INVARIANTS TypeOK ReplayExact AdmissionSound RelaySound
PROPERTIES  Settles Floods
CHECK_DEADLOCK FALSE
