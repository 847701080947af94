CONSTANTS
  Record = {r1, r2}
  Root = {d1}
  Allowed = {"retry", "move", "lock", "fault", "crash"}
  MaxMishaps = 2
SPECIFICATION FairSpec
PROPERTIES FailedIsMadeGood ImplementsArchive
CHECK_DEADLOCK FALSE
