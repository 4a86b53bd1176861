CONSTANTS
  NumSteps = 3
  Worker = {0, 2}
  Named = {}
  MaxBlocks = 2
  PipeSize = 1
  Lag = 1
  WatchdogEnabled = FALSE
  Patient = TRUE
  Faults = {}
SPECIFICATION Spec
INVARIANTS CompleteDelivery
