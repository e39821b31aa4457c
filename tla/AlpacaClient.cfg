CONSTANTS
  OrderIds = {o1, o2}
  Symbols = {A}
  ListIds = {w}
  Configs = {c1, c2}
  Nothing = Nothing
  MaxQty = 2
  MaxCalls = 3
SPECIFICATION Spec
CHECK_DEADLOCK FALSE
INVARIANTS OkMeansDone AnswerIsTrue CancelReportsFinalFill AtMostOneOrder DocumentedBodyIsRead WrongBodyIsRefused
PROPERTIES CallEnds
