CONSTANTS
  Threads = 2
  MaxMoves = 2
  MaxCount = 2
SPECIFICATION Spec
INVARIANT StallCaught
