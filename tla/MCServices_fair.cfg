CONSTANTS
    MaxCrashes = 1
    MaxRuns = 12
    Offered <- Shipped
SPECIFICATION FairSpec
INVARIANTS
    OnePlace
    AttemptsWithinCap
    PostsMatchSettlement
PROPERTIES
    ComesToRest
CHECK_DEADLOCK FALSE
