CONSTANTS
  Funcs = {f, g}
  MaxData = 2
  MaxStatus = 1
SPECIFICATION Spec
CHECK_DEADLOCK FALSE
INVARIANTS NeverAheadOfSupplier DataInOrder OkIsHonest
PROPERTIES RunEnds DataArrives
