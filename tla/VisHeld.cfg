CONSTANTS
  MaxChunks = 6
  MaxLength = 2
  Buffered = 3
  History = 4
  Columns = 5
  Modulus = 16
  Faults = {}
SPECIFICATION Spec
INVARIANTS HeldUntilReached
