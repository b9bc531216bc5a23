SPECIFICATION Spec
CONSTANTS
  Regions = {r1}
  MaxJobs = 3
  NoJob = NoJob
  PoolCapacity = 1
  MaxIndex = 3
  MaxCrashes = 2
INVARIANTS
  NormalMeansInstalled
  NoDataAfterDestroy
  NoMismatchedPrehandle
  PendingCountExact
PROPERTY InstallsForward
CHECK_DEADLOCK FALSE
