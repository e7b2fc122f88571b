SPECIFICATION FairSpec
CONSTANTS
  Actions = {bypass, unbypass}
  MaxQueue = 1
  MaxRequests = 2
INVARIANTS
  TypeOK
  AbleWhenPending
  SupervisionArmed
  UnlockEffortBounded
PROPERTIES
  SentOnlyWhenUnlocked
  DiscardedNeverSent
  ImplementsService
  RequestResolved
  UnlockSupervised
  UnlockSettles
