CONSTANTS
  p1 = p1
  p2 = p2
  NoConfig = NoConfig
  Refused = Refused
  NoProc = NoProc
  Procs = {p1, p2}
  Jobs <- TwoJobs
  Attended = {}
  Yamls <- Both
  MaxTime = 2
  Jitter = 1
  QueueCap = 1
  Slots = 1
  MaxChainDepth = 0
  MaxFailures = 2
  SlurmFinal = {"COMPLETED"}
  CanDie = TRUE
SPECIFICATION Spec
INVARIANTS
  OneTickRun
  RunsAreOwned
SYMMETRY Swaps
CHECK_DEADLOCK FALSE
