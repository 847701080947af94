CONSTANTS
  Record = {r1, r2}
  Root = {d1, d2}
  Allowed = {"retry", "move", "lock", "fault", "crash"}
  MaxMishaps = 3
SYMMETRY Symmetry
SPECIFICATION Spec
INVARIANTS
  NoLostRow
  SavedIsAtTarget
  StuckIsExplained
  OneAttemptAtATime
  DuplicatesAreExcused
CHECK_DEADLOCK FALSE
