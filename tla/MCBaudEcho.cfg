SPECIFICATION Spec
CONSTANTS
  Rates = {"19200", "115200", "9600"}
  Candidates <- TwoCandidates
  Patient = FALSE
  MaxCommands = 2
  MaxFaults = 0
INVARIANTS
  LastOverrideHolds
