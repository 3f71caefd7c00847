SPECIFICATION Spec
CONSTANTS
  REPLAY_BITS = 1
  Node = {1, 2, 3}
  Self = 2
  Sid = {1, 2}
  Key = {k1, k2}
  ActiveCap = 1
  RetiredCap = 1
  PendingCap = 1
  RetiredGrace = 1
  HandshakeTimeout = 1
  ReplayTtl = 2
  MaxTime = 2
  MaxSeq = 1
SYMMETRY KeySymmetry
INVARIANTS TablesConsistent DeliveredRefused
PROPERTIES LowerInitiationKept InitOncePerTtl
