SPECIFICATION Spec
CONSTANTS
  REPLAY_BITS = 2
  Node = {1, 2}
  Self = 1
  Sid = {1, 2, 3, 4}
  Key = {k1, k2, k3, k4}
  ActiveCap = 1
  RetiredCap = 2
  PendingCap = 1
  RetiredGrace = 2
  HandshakeTimeout = 1
  ReplayTtl = 2
  MaxTime = 1
  MaxSeq = 0
SYMMETRY KeySymmetry
PROPERTIES OldKeyKept
