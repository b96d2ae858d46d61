CONSTANTS
  a = a
  b = b
  c = c
  Names <- Two
  Founders <- Two
  SoulMax <- Unlimited
  Deps <- NoDeps
  HasDag = FALSE
  Modes = {"parallel"}
  Cap = 3
  Verbatim = 1
  MaxRetries = 2
  MaxCall = 2
SPECIFICATION Spec
PROPERTIES
  RoundStaysOpen
