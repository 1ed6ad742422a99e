CONSTANTS
    c1 = c1
    c2 = c2
    vin1 = vin1
    Cmds = {c1, c2}
    VinOf <- OneVehicle
    Timeout = 2
    MaxAge = 3
    MaxCrashes = 1
SPECIFICATION CommandsSpec
CHECK_DEADLOCK FALSE
INVARIANTS
    CommandsSerialized
PROPERTIES
    LateNeverActs
    EveryCommandAnswered
