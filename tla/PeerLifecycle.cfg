SPECIFICATION PeerFairSpec
CONSTANTS
  DeadTimeout = 3
  RekeyInterval = 2
INVARIANTS DeadSessionIsLate HigherRemovesSilent
PROPERTIES Rejoined
