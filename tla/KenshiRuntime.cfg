SPECIFICATION Spec
CONSTANTS
  a1 = a1
  a2 = a2
  blank_a1 = blank_a1
  None = None
  Name = {a1, a2, blank_a1}
  Strip <- Stripped
  Lineage = {l1}
  DefaultLineage <- OwnLineage
  Body = {b1}
  WorkingWindow = 2
  MaxTurns = 3
  ActiveWindow = 3
  MaxEvents = 7
  Emitted = {"GENOME_BIND", "CAUSAL_ACK", "UNSUPPORTED"}
  MaxMessages = 1
INVARIANT ValidateHolds
INVARIANT BindingsFollowTheLine
CHECK_DEADLOCK FALSE
