SPECIFICATION NodesSpec
CONSTANTS
  None = None
  Bits = 5
  Sectors = 8
  Arms <- StrideArms
  Attempts = 8
  Slice <- Slices
  Seed = {0, 22}
  Masks <- MaskValues
  BitXor <- ExclusiveOr
  XorShift <- ShiftedWord
  OddNode = 1
  PeerSector = {4, 7}
  PeerStride = {3}
  MaxSplits = 1
  JobSeed = {1, 2}
  Role = {"A"}
  Mode = {"VERIFY", "IDLE"}
  Verifying = {"VERIFY"}
  Mirroring = {"VERIFY"}
  TopZ = 1
  QueueSlots = 2
  MaxFrames = 3
  Turn = 52
  MaxPause = 2
  DirectBlackout = 1
  MasterBlackout = 2
  RxBlackout = 3
  RescueMin = 2
  BootGrace = 4
  HardRestart = 7
  HardMinRescues = 2
INVARIANT WalkCoversRange
INVARIANT UndisturbedWalkIsExact
INVARIANT StaleBestIsTransient
INVARIANT RecentCandidatesWait
INVARIANT SilenceIsRescued
INVARIANT SilenceEndsInRestart
CHECK_DEADLOCK FALSE
