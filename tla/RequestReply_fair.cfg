CONSTANTS
    r1 = r1
    r2 = r2
    Requests = {r1, r2}
    Transports = {"live", "inprocess"}
    Names = 2
    MaxReplies = 2
    Nobody = Nobody
SPECIFICATION FairSpec
INVARIANTS
    OwnReplyOnly
    OverHoldsNothing
PROPERTIES
    EveryRequestReturns
CHECK_DEADLOCK FALSE
