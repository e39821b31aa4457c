CONSTANTS
  NUM_MILLIS_PER_SECOND = 1000
  Stock = Stock
  Shapes <- MCShapes
  StoreSize = 3
  Openings <- MCOpenings
  Gaps = {1, 9, 10, 60}
  MaxTicks = 3
SPECIFICATION Spec
CHECK_DEADLOCK FALSE
INVARIANTS EntryFollowsRules
