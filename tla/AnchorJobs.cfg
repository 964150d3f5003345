SPECIFICATION FairSpec
CONSTANTS
  work1 = work1
  work2 = work2
  ping = ping
  None = None
  Slice <- Slices
  NoWork = {ping}
  Modulus = 16
  JobTimeout = 4
  MinWorkMs = 2
  MinWorkHashes = 2
  QueueMaxAge = 3
  RxDepth = 1
  RxBudget = 2
  MaxBatch = 2
  MaxDelay = 2
INVARIANT LatestWorkOnly
INVARIANT JobEndsByTimeout
PROPERTY YieldsAfterUsefulShare
PROPERTY StaleSliceNeverStarts
PROPERTY EverySliceEnds
PROPERTY QueueIsServed
CHECK_DEADLOCK FALSE
