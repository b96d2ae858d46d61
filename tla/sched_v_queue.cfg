CONSTANTS
  p1 = p1
  NoConfig = NoConfig
  Refused = Refused
  NoProc = NoProc
  Procs = {p1}
  Jobs <- Job
  Attended <- Job
  Yamls <- OneCodex
  MaxTime = 2
  Jitter = 1
  QueueCap = 1
  Slots = 1
  MaxChainDepth = 1
  MaxFailures = 2
  SlurmFinal = {"COMPLETED"}
  CanDie = TRUE
SPECIFICATION Spec
INVARIANTS
  RunsAreOwned
CHECK_DEADLOCK FALSE
