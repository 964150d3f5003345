\* A renewal that waited for the lock with a now from before the expiry.
SPECIFICATION Spec
CONSTANTS
  w1 = w1
  w2 = w2
  w3 = w3
  h1 = h1
  h2 = h2
  None = None
  Task = {t1}
  Holder = {h1, h2}
  Binding = {b1}
  Authorizer = {human}
  Trusted = {human}
  Worker = {w1, w2}
  HolderOf <- TwoOfOneHolder
  Ttl = {2}
  ClockStep = 0
  MaxClock = 4
PROPERTY NoStaleRenewal
CHECK_DEADLOCK FALSE
