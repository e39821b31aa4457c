CONSTANTS
  Tickers = {A, B}
  NoTicker = NoTicker
  InitialCash = 12
  Prices = {2, 3}
  RESERVE = 2
  MaxEntries = 2
  Faults = {"reply_lost"}
SPECIFICATION Spec
CHECK_DEADLOCK FALSE
INVARIANTS ReserveKept
