CONSTANTS
  Record = {r1, r2}
  Site = {s1, s2}
  Allowed = {"edit", "lose", "refuse", "fault", "crash"}
  MaxMishaps = 4
SPECIFICATION FairSpec
INVARIANTS
  AttemptMatchesJob
PROPERTIES
  ImplementsMirror
  NewestUnlessLate
  TakenUpIsSynced
CHECK_DEADLOCK FALSE
