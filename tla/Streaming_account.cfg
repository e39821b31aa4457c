CONSTANTS
  MaxUpdates = 1
  MaxNoise = 0
  MaxRuns = 1
SPECIFICATION Spec
CHECK_DEADLOCK FALSE
INVARIANTS AccountsInOrder
