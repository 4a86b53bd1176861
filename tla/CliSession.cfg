CONSTANTS
  Searches = 2
  MixMax = 2
  Plans <- MCPlans
  Players = 2
  Tone = {1}
  MutedAtStart = {{}, {2}}
  Users = {TRUE, FALSE}
  Songs = 3
  Playlists = 1
  Enough = 1
  MixMargin = 1
  MaxDrops = 1
SPECIFICATION Spec
INVARIANTS TypeOK NoneLeftStarting Restored SecurityOnlyInTest ConformingPasses
PROPERTY RunEnds
