SPECIFICATION FairSpec
CONSTANTS
  Instance = {i1, i2}
  Script <- MCScript
  MaxStarts = 3
  MaxKills = 1
INVARIANTS
  SchemaAccounted
  RestartIsSafe
  SuccessIsTrue
PROPERTIES
  HiddenStartEnds
CHECK_DEADLOCK FALSE
