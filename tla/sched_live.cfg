CONSTANTS
  p1 = p1
  NoConfig = NoConfig
  Refused = Refused
  NoProc = NoProc
  Procs = {p1}
  Jobs <- TwoJobs
  Attended = {}
  Yamls <- Mixed
  MaxTime = 2
  Jitter = 1
  QueueCap = 8
  Slots = 1
  MaxChainDepth = 0
  MaxFailures = 2
  SlurmFinal = {"COMPLETED", "FAILED"}
  CanDie = TRUE
SPECIFICATION FairSpec
INVARIANTS
  SlurmVerdict
PROPERTIES
  RunsEnd
  DueFires
CHECK_DEADLOCK FALSE
