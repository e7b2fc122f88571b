SPECIFICATION Spec
CONSTANTS
  Actions = {bypass, unbypass}
  MaxQueue = 2
  MaxRequests = 3

INVARIANT LastRequestWins
