CONSTANTS
  MaxCommands = 4
  MaxWords = 3
  MaxText = 4
  Argvs <- MCArgvs
  Opts = {"i", "o", "c", "w", "d", "D"}
  Takes = {"i", "o", "c"}
  USHRT = 8
  CommandLines <- MCCommandLines
  MAX_STEPS = 6
SPECIFICATION MainSpec
INVARIANTS ReadsInside OptionsRead CommandsFound Chained Runnable CommandsInOrder InBounds
