CONSTANTS
  Record = {r1}
  Root = {d1}
  Allowed = {"crash"}
  MaxMishaps = 1
SPECIFICATION FairSpec
PROPERTY RecoveredAfterRestart
CHECK_DEADLOCK FALSE
