CONSTANTS
  NumSteps = 4
  Worker = {0, 3}
  Named = {}
  MaxBlocks = 2
  PipeSize = 1
  Lag = 0
  WatchdogEnabled = TRUE
  Patient = FALSE
  Faults = {"read", "crash", "sink", "heap"}
SPECIFICATION MainSpec
INVARIANTS BriefOnlyWhenOutputStopped InOrder
PROPERTIES ShutsDown StallEndsRun
