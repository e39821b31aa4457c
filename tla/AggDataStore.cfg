CONSTANTS
  NUM_MILLIS_PER_SECOND = 10
  Tickers = {A}
  Shapes <- MCShapes
  WindowSize = 2
  StoreSize = 3
  Slack = 4
  MaxSecond = 6
  MaxTicks = 5
SPECIFICATION Spec
INVARIANTS NoCheckFails WindowsInOrder PricesInRange VolumeConserved StoreHoldsNewestCandles
PROPERTIES ReturnReportsClosing
