CONSTANTS
  MaxStarts = 2
  MaxSockets = 3
  MaxSends = 1
  MaxCrashes = 1
  MaxFaults = 1
  SlowLookup = FALSE
SPECIFICATION Spec
INVARIANTS
  SessionsAccounted
  RowsOfTheirSession
  StoppedIsQuiet
  BreakIsTheReason
  NeverAbandoned
CHECK_DEADLOCK FALSE
