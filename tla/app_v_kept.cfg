CONSTANTS
  a = a
  b = b
  Callers = {a, b}
  MaxDeaths = 0
  MaxErrors = 0
  MaxCancels = 0
SPECIFICATION Spec
PROPERTIES
  ServerIsKept
CHECK_DEADLOCK FALSE
