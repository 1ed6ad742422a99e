SPECIFICATION FairSpec
CONSTANTS
  Callers = {c1, c2}
  Reports = {"driving", "online"}
  Base <- Cadence
  DrivingStreaming = 3
  MinInterval = 2
  AwakeBackoffCap = 3
  IdleGrace = 1
  Default = 2
  MaxBackoff = 3
  QuotaBlockFloor = 2
  RetryAfters = {0, 5}
  JitterDiv = 3
  IdleBound = 2
INVARIANTS WaitCovers BurstBounded NoTriggerLost
PROPERTIES KeepsPolling StopsWhenCancelled
