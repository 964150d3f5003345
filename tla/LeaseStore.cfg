\* Readings of the clock differ: two processes of h1 and one of h2, one task.
SPECIFICATION Spec
CONSTANTS
  w1 = w1
  w2 = w2
  w3 = w3
  h1 = h1
  h2 = h2
  None = None
  Task = {t1}
  Holder = {h1, h2}
  Binding = {b1, b2}
  Authorizer = {human, bot}
  Trusted = {human}
  Worker = {w1, w2, w3}
  HolderOf <- ThreeWorkers
  Ttl = {1, 2}
  ClockStep = 1
  MaxClock = 3
SYMMETRY SameHolder
INVARIANTS
  TypeOK
  WriterSeesCommittedRow
  HandlesAreOwnLeases
  LeaseLapsesWithinTtl
PROPERTIES
  LiveLeaseIsKept
  OldTokenFailsFence
  OwnershipIsFenced
CHECK_DEADLOCK FALSE
