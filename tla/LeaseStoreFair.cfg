\* All calls at one instant, so their number is not bounded; fairness.
SPECIFICATION FairSpec
CONSTANTS
  w1 = w1
  w2 = w2
  w3 = w3
  h1 = h1
  h2 = h2
  None = None
  Task = {t1}
  Holder = {h1, h2}
  Binding = {b1}
  Authorizer = {human}
  Trusted = {human}
  Worker = {w1, w2}
  HolderOf <- TwoWorkers
  Ttl = {1, 2}
  ClockStep = 0
  MaxClock = 0
PROPERTIES
  EveryCallReturns
  LockIsFreed
CHECK_DEADLOCK FALSE
