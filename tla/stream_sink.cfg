SPECIFICATION FairSpec
CONSTANTS
  Writers = {w}
  Depth = 1
  SendBuf = 1
  SubscriberBuf = 1
  Throttled = TRUE
  Saved = 1
  MaxSnap = 2
  MaxSubs = 2
INVARIANTS NoChangeMissed OpenIsServed
CHECK_DEADLOCK FALSE
PROPERTIES CatchesUp OrphansEnd
