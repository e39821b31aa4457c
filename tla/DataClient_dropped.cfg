CONSTANTS
  Funcs = {f}
  MaxData = 1
  MaxStatus = 1
SPECIFICATION Spec
CHECK_DEADLOCK FALSE
INVARIANTS InvalidAuthIsReported
