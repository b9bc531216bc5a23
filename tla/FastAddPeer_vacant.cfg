SPECIFICATION Spec
CONSTANTS
  Tickers <- OneTicker
  Vacant = Vacant
  MaxIndex = 2
  MaxCrashes = 1
INVARIANT InfoKnownWhenApplying
CHECK_DEADLOCK FALSE
