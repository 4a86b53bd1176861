CONSTANTS
  NumSteps = 4
  Worker = {3}
  Named = {}
  MaxBlocks = 4
  PipeSize = 2
  Lag = 1
  WatchdogEnabled = FALSE
  Patient = TRUE
  Faults = {}
SPECIFICATION Spec
INVARIANTS CompleteDelivery
PROPERTIES PauseIsHarmless
