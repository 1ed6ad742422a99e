SPECIFICATION AnewSpec
CONSTANTS
  Whole = {}
  Streamed = {"gear"}
  Anchored = {}
  Ranged = {}
  PollResults <- Polls
  Frames <- Pushes
  StaleAfter = 2
  FreshWithin = 2
  FlapWindow = 0
  WakeFrames = 2
  WakeWindow = 0
  SleepConfirm = 2
  Subscribers = {}
  SubBuf = 1
  MaxSkew = 0
  ChargeBound = 1
  MaxClock = 4
  Consumers = {c1}
INVARIANTS CachedIsCurrent
CHECK_DEADLOCK FALSE
