CONSTANTS
  Samples = 16
  Unit = 3
  Durations = {4, 5, 6}
  GetSizes = {3, 4, 7, 11}
  DurationPerSample = 1
  OutSize = 3
  Delay = 2
  Faults = {"path", "movie", "setup", "get", "convert", "write"}
SPECIFICATION FairSpec
INVARIANTS TypeOK NoneSkipped AllConverted
PROPERTIES ConversionEnds
