CONSTANTS
  a = a
  b = b
  d = d
  Callers = {a, b, d}
  MaxDeaths = 1
  MaxErrors = 0
  MaxCancels = 1
SPECIFICATION Spec
INVARIANTS
  OneProcess
  WaitersAreKnown
PROPERTIES
  AnswersAreOwn
SYMMETRY Swaps
CHECK_DEADLOCK FALSE
