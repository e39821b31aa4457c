CONSTANTS
  OrderIds = {o1}
  Symbols = {A}
  ListIds = {w}
  Configs = {c1}
  Nothing = Nothing
  MaxQty = 1
  MaxCalls = 2
SPECIFICATION Spec
CHECK_DEADLOCK FALSE
INVARIANTS ClosePositionsSells
