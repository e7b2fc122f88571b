SPECIFICATION Spec
CONSTANTS
  Zones = {z1, z2}
  FirstRun = TRUE
  MaxQueuedZoneTransitions = 3
  MaxRevision = 8
  MaxFaults = 0
CONSTRAINT OnlyTransitions
INVARIANTS
  MirroredDespiteDrops
