CONSTANTS
    Slots = 2
    MaxFlaps = 3
    Initial = 5
    MaxDelay = 10
SPECIFICATION Spec
CHECK_DEADLOCK FALSE
INVARIANTS
    OneDialerServes
    BarrenSessionsEscalate
PROPERTIES
    FollowsPower
