CONSTANTS
    d1 = d1
    d2 = d2
    e1 = e1
    x1 = x1
    Deliveries = {d1,d2,e1,x1}
    Bad = {e1}
    Broken = {x1}
    Credit = 2
    Workers = 2
    Nobody = Nobody
    Stopped = Stopped
    Withdrawn = Withdrawn
    Abandoned = Abandoned
SPECIFICATION FairSpec
INVARIANTS
    HandedOverInOrder
    DetachedAfterLastHandle
PROPERTIES
    KeepsPromise
    OnlyErrorsHoldAcks
    StopEndsPump
    DropEndsPump
CHECK_DEADLOCK FALSE
