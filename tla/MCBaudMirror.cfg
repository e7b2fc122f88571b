SPECIFICATION FairSpec
CONSTANTS
  Rates = {"19200", "115200", "9600"}
  Candidates <- TwoCandidates
  Patient = TRUE
  MaxCommands = 3
  MaxFaults = 2
INVARIANTS
  TypeOK
  MirrorAgrees
  PatientOverrideHolds
PROPERTIES
  Detects
  Settles
