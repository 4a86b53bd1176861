CONSTANTS
  MaxChunks = 8
  MaxLength = 2
  Buffered = 3
  History = 4
  Columns = 5
  Modulus = 32
  Faults = {"address", "socket", "open", "alloc", "read", "write", "send"}
SPECIFICATION Spec
INVARIANTS TypeOK NoDanglingEnds ClientShows
