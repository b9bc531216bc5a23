SPECIFICATION LiveSpec
CONSTANTS
  Types <- Everything
  MaxLog = 3
  MaxCrashes = 2
INVARIANT NoGap
INVARIANT LogKept
INVARIANT SstKept
INVARIANT NoPanic
PROPERTY ImplementsReplica
PROPERTY EverythingApplied
CHECK_DEADLOCK FALSE
