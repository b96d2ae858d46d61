CONSTANTS
  a = a
  b = b
  Callers = {a, b}
  MaxDeaths = 1
  MaxErrors = 1
  MaxCancels = 1
SPECIFICATION FairSpec
PROPERTIES
  Implements
CHECK_DEADLOCK FALSE
