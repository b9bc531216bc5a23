SPECIFICATION LiveSpec
CONSTANTS
  Tickers <- TwoTickers
  Vacant = Vacant
  MaxIndex = 2
  MaxCrashes = 1
INVARIANT TypeOK
INVARIANT FakeIsBacked
INVARIANT NoPanicUnlessRaced
INVARIANT DataUnlessOrphaned
PROPERTY PeerIsInitialized
CHECK_DEADLOCK FALSE
