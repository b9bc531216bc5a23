SPECIFICATION Spec
CONSTANTS
  Tickers <- OneTicker
  Vacant = Vacant
  MaxIndex = 2
  MaxCrashes = 0
INVARIANT DataWhenNormal
CHECK_DEADLOCK FALSE
