CONSTANTS
  NumSteps = 5
  Worker = {0, 2}
  Named = {2}
  MaxBlocks = 2
  PipeSize = 1
  Lag = 0
  WatchdogEnabled = FALSE
  Patient = FALSE
  Faults = {"malloc", "thread", "priority", "process", "read", "crash", "sink"}
SPECIFICATION FairSpec
INVARIANTS TypeOK NoOrphans OnlyUpstreamHolds
PROPERTIES Relays EofEndsRun
