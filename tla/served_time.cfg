SPECIFICATION Spec
CONSTANTS
  Vehicles = {v1}
  Loops = {l1}
  FlushEvery = 2
  Depth = 2
  MaxSkew = 0
  MaxClock = 3
INVARIANTS UnsavedMarkIsRecent OnlyTailUnsaved LiveFollowsReplay
