CONSTANTS
    d1 = d1
    e1 = e1
    e2 = e2
    e3 = e3
    Deliveries = {d1,e1,e2,e3}
    Bad = {e1,e2,e3}
    Broken = {}
    Credit = 2
    Workers = 1
    Nobody = Nobody
    Stopped = Stopped
    Withdrawn = Withdrawn
    Abandoned = Abandoned
SPECIFICATION PolledSpec
PROPERTIES
    AcksComeBack
CHECK_DEADLOCK FALSE
