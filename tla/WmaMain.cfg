CONSTANTS
  MaxFormats = 2
  Argvs <- MCArgvs
  Opts = {"d", "q", "h", "w", "b", "r", "n", "o", "l"}
  Takes = {"b", "r", "n", "o", "l"}
  Byte = 8
  DefaultRate = 441
  OutputLists <- Any
  FormatLists <- MCFormatLists
  Tracks <- Interleaved
  PerSecond = 2
  Faults = {"init", "open", "props", "start", "deliver", "write", "error", "read", "buffer", "fopen"}
SPECIFICATION MCSpec
INVARIANTS MainTypeOK AllDecoded RightFormat AliveInUse HeaderAgrees HeaderTrue
PROPERTIES DecodeEnds ClosedLast
