\* A node that mirrors nothing: what it sends is still not what it hashed.
SPECIFICATION P4Spec
CONSTANTS
  JobSeed = {1, 2}
  Role = {"A"}
  Mode = {"SCOUT"}
  Verifying = {"VERIFY"}
  Mirroring = {"VERIFY"}
  TopZ = 1
  QueueSlots = 2
  MaxFrames = 3
INVARIANT HonestFrameVerifies
CHECK_DEADLOCK FALSE
