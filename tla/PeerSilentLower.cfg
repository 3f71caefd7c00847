SPECIFICATION PeerSpec
CONSTANTS
  DeadTimeout = 3
  RekeyInterval = 2
INVARIANTS SilentPeerRemoved
