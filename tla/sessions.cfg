SPECIFICATION FairSpec
CONSTANTS
  Streamed = {"gear"}
  Anchored = {}
  Ranged = {}
  PollResults <- SessionPolls
  Frames <- SessionFrames
  StaleAfter = 2
  FreshWithin = 2
  FlapWindow = 2
  WakeFrames = 2
  WakeWindow = 1
  SleepConfirm = 2
  Subscribers = {s1}
  SubBuf = 1
  MaxSkew = 0
  ChargeBound = 1
  MaxClock = 3
INVARIANTS DriveCountersBalance OneWakePollPerSleep NoChangeLost
PROPERTIES LostDriveHeldOffline SubscriberCatchesUp
CHECK_DEADLOCK FALSE
