CONSTANTS
  NUM_MILLIS_PER_SECOND = 10
  Tickers = {A, B}
  Names = {n1, n2}
  Shapes <- MCShapes
  WindowSizes <- MCWindowSizes
  StoreSize = 2
  MaxSecond = 4
  MaxBatch = 2
  MaxAdded = 3
SPECIFICATION Spec
INVARIANTS CallbacksSeeTheTick CallsFollowAggregates StoresAgree
PROPERTIES StoresNeverCrash
CHECK_DEADLOCK FALSE
SYMMETRY Symmetry
