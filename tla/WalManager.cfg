SPECIFICATION WalFairSpec
CONSTANTS
  Senders = {s1, s2, s3}
  Bound = 1
  MaxSends = 1
  MaxRotations = 2
  None = None
INVARIANTS
  WalTypeOK
  RotationDrains
  AliveKeepsAll
PROPERTIES
  SealedStaysSealed
  AcceptedIsWritten
  JoinReturns
CHECK_DEADLOCK FALSE
