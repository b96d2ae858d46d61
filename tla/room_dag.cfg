CONSTANTS
  a = a
  b = b
  c = c
  Names <- Three
  Founders <- Three
  SoulMax <- Once
  Deps <- Cycle
  HasDag = TRUE
  Modes = {"parallel"}
  Cap = 2
  Verbatim = 1
  MaxRetries = 1
  MaxCall = 1
SPECIFICATION FairSpec
INVARIANTS
  DepsFirst
PROPERTIES
  RunsEnd
