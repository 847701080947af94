SPECIFICATION FairSpec
CONSTANTS
  MaxSockets = 3
  Limit = 2
  MaxDisplay = 2
  MaxRecords = 3
  MaxEvents = 4
  MaxVisits = 2
  MaxBreaks = 1
INVARIANTS
  TypeOK
  ScreenIsDatabase
  ForgetsInHaste
PROPERTIES
  Reconnects
CHECK_DEADLOCK FALSE
