CONSTANTS
  Tries = 2
  MaxFds = 5
SPECIFICATION Spec
INVARIANTS ReturnMeansDisconnected

