CONSTANTS
  MaxUpdates = 2
  MaxNoise = 1
  MaxRuns = 2
SPECIFICATION Spec
CHECK_DEADLOCK FALSE
INVARIANTS TradesInOrder AuthenticatesWithKeys
PROPERTIES TradesArrive
