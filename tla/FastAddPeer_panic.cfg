SPECIFICATION Spec
CONSTANTS
  Tickers <- TwoTickers
  Vacant = Vacant
  MaxIndex = 2
  MaxCrashes = 0
INVARIANT NoPanic
CHECK_DEADLOCK FALSE
