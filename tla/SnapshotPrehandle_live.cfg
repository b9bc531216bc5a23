SPECIFICATION FairSpec
CONSTANTS
  Regions = {r1, r2}
  MaxJobs = 1
  NoJob = NoJob
  PoolCapacity = 1
  MaxIndex = 1
  MaxCrashes = 0
PROPERTY ApplyingEnds
CHECK_DEADLOCK FALSE
