SPECIFICATION Spec
SYMMETRY Symmetry
CONSTANTS
  Process = {p1, p2}
  Date = {d1, d2}
  Received = {r1}
  Request = {t1}
  None = None
  MaxFaults = 2
  MaxCrashes = 2
INVARIANTS
  UniqueNumbers
  NumbersAccounted
  NumbersFollowArrival
  RowsPerOperation
  JobsAccounted
PROPERTY
  ImplementsRegister
CHECK_DEADLOCK FALSE
