SPECIFICATION FairSpec
CONSTANTS
  Conns = {c1, c2, c3}
  MaxConns = 2
  PerIP = 2
  Records = 2
  Alerts = {2}
  MaxFaults = 3
INVARIANTS SlotsAccounted SilenceReported
PROPERTIES AllDelivered
