CONSTANTS
  a = a
  b = b
  c = c
  Names <- Two
  Founders = {a}
  SoulMax <- Unlimited
  Deps <- NoDeps
  HasDag = FALSE
  Modes = {"parallel", "sequential"}
  Cap = 3
  Verbatim = 1
  MaxRetries = 2
  MaxCall = 2
SPECIFICATION Spec
INVARIANTS
  TypeOK
  RoundsAreFresh
  RoundsAreCapped
PROPERTIES
  SavedIsKept
