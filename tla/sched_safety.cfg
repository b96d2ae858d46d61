CONSTANTS
  p1 = p1
  NoConfig = NoConfig
  Refused = Refused
  NoProc = NoProc
  Procs = {p1}
  Jobs <- Job
  Attended <- Job
  Yamls <- SelfChain
  MaxTime = 1
  Jitter = 1
  QueueCap = 8
  Slots = 1
  MaxChainDepth = 1
  MaxFailures = 1
  SlurmFinal = {"COMPLETED"}
  CanDie = TRUE
SPECIFICATION Spec
INVARIANTS
  TypeOK
  WorkIsOpen
  RunsAreOwned
  AutoDisable
  StaysScheduled
PROPERTIES
  FinalIsFinal
CHECK_DEADLOCK FALSE
