SPECIFICATION Spec
CONSTANTS
    MaxIndex = 3
    MaxTerm = 2
    MaxReady = 3
    MaxCrashes = 1
    MemoryHigh = FALSE
    Destroys = TRUE
INVARIANT TypeOK
INVARIANT PersistedOnDisk
INVARIANT ReadsRight
INVARIANT AppliesCommitted
INVARIANT DiskLogWhole
INVARIANT NoPanic
INVARIANT NoReadyForgotten
CHECK_DEADLOCK FALSE
