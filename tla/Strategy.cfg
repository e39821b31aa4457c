CONSTANTS
  Tickers = {A, B}
  NoTicker = NoTicker
  InitialCash = 10
  Prices = {2, 3}
  RESERVE = 2
  MaxEntries = 3
  Faults = {"call_lost", "reply_lost", "blocked"}
SPECIFICATION Spec
CHECK_DEADLOCK FALSE
INVARIANTS BooksMatchAccount OneStockAtATime ReserveKeptWhenAnswered CashIsFresh NeverSellsMoreThanHeld NoSellOrderIsLost
PROPERTIES ImplementsTradeCycle
