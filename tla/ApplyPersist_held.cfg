SPECIFICATION Spec
CONSTANTS
  Types <- Ingesting
  MaxLog = 3
  MaxCrashes = 1
INVARIANT HeldSstsAreReplayed
CHECK_DEADLOCK FALSE
