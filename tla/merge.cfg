SPECIFICATION Spec
CONSTANTS
  Streamed = {"gear", "loc"}
  Anchored = {"loc"}
  Ranged = {"loc"}
  PollResults <- ProvenancePolls
  Frames <- ProvenanceFrames
  StaleAfter = 2
  FreshWithin = 2
  FlapWindow = 0
  WakeFrames = 1
  WakeWindow = 0
  SleepConfirm = 1
  Subscribers = {}
  SubBuf = 1
  MaxSkew = 1
  ChargeBound = 1
  MaxClock = 4
INVARIANTS AnchorsMatchServed
PROPERTIES PollNeverRegresses ImplementsRegister
CHECK_DEADLOCK FALSE
