SPECIFICATION Spec
CONSTANTS
    MaxIndex = 3
    MaxTerm = 2
    MaxReady = 3
    MaxCrashes = 0
    MemoryHigh = TRUE
    Destroys = FALSE
INVARIANT ReadsRight
CHECK_DEADLOCK FALSE
