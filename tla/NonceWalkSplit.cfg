\* A split in the middle of a range of four nonces.
SPECIFICATION WalkSpec
CONSTANTS
  None = None
  Bits = 5
  Sectors = 8
  Arms <- StrideArms
  Attempts = 8
  Slice <- OneSlice
  Seed = {0}
  Masks <- MaskValues
  BitXor <- ExclusiveOr
  XorShift <- ShiftedWord
  OddNode = 1
  PeerSector = {4, 7}
  PeerStride = {3}
  MaxSplits = 1
INVARIANT NoNonceTwice
CHECK_DEADLOCK FALSE
