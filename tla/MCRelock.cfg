SPECIFICATION Spec
CONSTANTS
  Actions = {bypass}
  MaxQueue = 1
  MaxRequests = 1
PROPERTY RelockRunsFullSequence
