SPECIFICATION RestSpec
CONSTANTS
  Whole = {"soc"}
  Fields = {"soc"}
  Unheld = {}
  Powers = {"unknown", "online"}
  Gears = {"none", "drive"}
  Lives = {"none", "charging"}
  Contents <- Reported
  Floor = 1
  MaxClock = 4
  Consumers = {c1, c2}
  StaleAfter = 1
SYMMETRY Alike
INVARIANTS LostIsNotOnline
PROPERTIES HeldNeverForgotten TimeNeverRegresses
CHECK_DEADLOCK FALSE
