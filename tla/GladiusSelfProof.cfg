\* A self job is replaced while a batch of it is being hashed.
SPECIFICATION BuzzSpec
CONSTANTS
  Nodes = 1
  Draw = {0}
  NonceSpace = 16
  WorkerRange = 1
  DiscoveryRange = 2
  ShareQueue = 1
  MaxJobs = 1
  MaxSessions = 2
  MaxRanges = 2
  Handshake = 1
  MinUptime = 2
  NoAuth = 2
  NoJob = 3
  NoProgress = 4
  Cooldown = 1
  WifiDark = 2
  PoolDark = 3
  Recovery = 2
  RestartAfter = 8
  HardResetAfter = 3
  StormFails = 4
  BuzzPacket <- Slices
  CoreJob <- FromCore
  SelfJob <- Own
  NoPacket <- Nothing
  JobRange = 1
  MinHashes = 1
  Packet <- Ranges
  Small = 2
  SmallUpTo = 5
  Normal = 3
  Channels <- ScanChannels
  RxSlots = 1
  MaxMoves = 1
INVARIANT SelfProofStaysHome
CHECK_DEADLOCK FALSE
