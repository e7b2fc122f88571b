SPECIFICATION FairSpec
CONSTANTS
  Zones = {z1}
  MaxTroubles = 2
  FirstRun = FALSE
  MaxAsked = 2
  MaxChanges = 2
  MaxSlow = 1
  MaxFaults = 1
INVARIANTS
  TypeOK
  TroublesMirrored
  PollReconciles
PROPERTIES
  CompletePollReplaces
  TroublesConverge
