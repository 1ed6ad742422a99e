CONSTANTS
    p1 = p1
    p2 = p2
    Pollers = {p1, p2}
    MaxGrants = 2
    MaxRestarts = 1
SPECIFICATION FairTokensSpec
CHECK_DEADLOCK FALSE
INVARIANTS
    SpentNeverOffered
    RestartIsLive
PROPERTIES
    TokenRecovers
