CONSTANTS
  LoginId = {u1, u2}
  BootstrapId = u1
  Role = {"ADMIN", "VIEWER"}
  Browser = {b1, b2}
  Threshold = 2
  LockTime = 2
  IdleLimit = 2
  MaxCrashes = 1
SPECIFICATION Spec
INVARIANTS
  AdminRemains
  SessionsAreCurrent
  GuessesAreLimited
  
SYMMETRY BrowserSymmetry
CHECK_DEADLOCK FALSE
