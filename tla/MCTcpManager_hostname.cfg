CONSTANTS
  MaxStarts = 2
  MaxSockets = 2
  MaxSends = 1
  MaxCrashes = 0
  MaxFaults = 0
  SlowLookup = TRUE
SPECIFICATION Spec
INVARIANT StoppedMeansStopped
CHECK_DEADLOCK FALSE
