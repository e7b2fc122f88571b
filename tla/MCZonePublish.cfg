SPECIFICATION FairSpec
CONSTANTS
  Zones = {z1, z2}
  FirstRun = FALSE
  MaxQueuedZoneTransitions = 2
  MaxRevision = 4
  MaxFaults = 2
INVARIANTS
  TypeOK
  LastTransitionIsCurrent
  TransitionsAccounted
  Mirrored
PROPERTIES
  ShownNeverRegresses
  Converges
