CONSTANTS
    s1 = s1
    s2 = s2
    s3 = s3
    Settlements = {s1, s2, s3}
    Credit = 1
    Nobody = Nobody
    Stopped = Stopped
    Withdrawn = Withdrawn
    Abandoned = Abandoned
SPECIFICATION FairSpec
INVARIANTS
    SlotsWithinCredit
    NoStrandedWaiter
PROPERTIES
    EverySettlementReturns
    KeepsPromise
CHECK_DEADLOCK FALSE
