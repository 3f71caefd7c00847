SPECIFICATION HostSpec
CONSTANTS
  Peer = {p1, p2}
  Size = {1, 2}
  MaxItemsPerPeer <- MCItemsPerPeer
  MaxBytesPerPeer <- MCBytesPerPeer
  MaxItemsGlobal <- MCItemsGlobal
  MaxBytesGlobal <- MCBytesGlobal
  Callers = 1
  Pid = {1, 2}
  TempAttempts = 2
  MaxKey = 16
  Offers <- MCOffers
  LocalChunk = 2
  MinChunk = 2
  MaxChunk = 3
  MaxFileSize = 3
  MaxActivePeer = 2
  MaxActiveGlobal = 2
  MaxReservedPeer = 3
  MaxReservedGlobal = 4
  IdleTimeout = 1
INVARIANTS QueueExact SocketUse IdentityKept DownloadsSound
PROPERTIES RoundRobin Implements ControlServed Closes SilentReleased
