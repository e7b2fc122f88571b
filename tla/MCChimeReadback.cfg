SPECIFICATION Spec
CONSTANTS
  Half = 7
  CommandInterval = 1
  QuietMaxWait = 1
  PollSpacing = 2
  LagBackoff = 2
  Polls <- MCPolls
  Delay <- MCDelay
  Refresh <- MCRefresh
  MaxLate = 5
  MaxHeld = 6
  Patient = TRUE
  Zones = {1}
  Modes = {0, 1}
  MaxQueued = 1
  MaxBehind = 1
INVARIANTS
  SkippedIsSet
  TypeOK
  PollsOnTime
  PauseEnds
  ReadBackAgrees
PROPERTIES
  PausedByLag
  PatientNeverNeedless
