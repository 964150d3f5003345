SPECIFICATION ToolsSpec
CONSTANTS
  Entity = {e1, e2}
  Body = {b1, b2}
  WorkingWindow = 2
  MaxTurns = 4
  Nil = Nil
  a1 = a1
  a2 = a2
  blank_a1 = blank_a1
  phase = phase
  v1 = v1
  v2 = v2
  None = None
  Name = {a1, a2, blank_a1}
  Strip <- Stripped
  Lineage = {}
  DefaultLineage <- OwnLineage
  Delta <- Phases
  Objective = {o1}
  GenomeId = {g1}
  ActiveWindow = 2
  Ttl = {0, 1}
  MaxTurn = 3
  MaxEvents = 3
  Emitted = {"LEASE_STATE", "UNSUPPORTED"}
  Faces = 2
  Attempt = {1, 2}
  MaxCommits = 2
  MaxFiles = 3
  MaxFaults = 1
SYMMETRY Interchangeable
INVARIANT GenomeLineIsLedgerPrefix
INVARIANT ChronicleIsLossless
INVARIANT GenealogyIsSound
INVARIANT ActiveStateIsLastPromoted
INVARIANT WindowIsLossless
INVARIANT AgentsKeepTheirOwnLog
INVARIANT LocalStateIsPublished
INVARIANT TenuresAreDisjoint
INVARIANT WitnessedIsDelivered
CHECK_DEADLOCK FALSE
