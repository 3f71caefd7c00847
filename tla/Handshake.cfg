SPECIFICATION FairSpec
CONSTANTS
  REPLAY_BITS = 1
  Node = {1, 2}
  Sid = {1, 2, 3}
  Key <- MCKey
  ActiveCap = 1
  RetiredCap = 1
  PendingCap = 2
  RetiredGrace = 1
  HandshakeTimeout = 1
  ReplayTtl = 1
  Settings <- MCSettings
INVARIANTS KeysAgree Converged
PROPERTIES Heals
CHECK_DEADLOCK FALSE
