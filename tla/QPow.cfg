SPECIFICATION Spec
CONSTANTS
  Initial = 64
  Scale = 10
  Shift = 4
  Clamp = 50
  Target = 10
  Period = 1
  HistoryMax = 3
  WordMax = 1023
  Gap = {4, 10, 25}
  MaxBlocks = 13
INVARIANTS TypeOK RingIsRecent TotalsAgree HaltsAtTheFloor
PROPERTIES HistoryAgrees AdjustmentBounded
CHECK_DEADLOCK FALSE
