CONSTANTS
    m1 = m1
    m2 = m2
    Messages = {m1,m2}
    Queues = {1,2}
    Topics = {3}
    EitherMode = {2}
    TurnWidth = 2
    Threads = 1
    NoQueue = NoQueue
    Shared = Shared
SPECIFICATION Spec
SYMMETRY Symmetry
INVARIANTS
    NeverDoubled
    OrderlyKeepsAll
    OrderlyOneDeliveryEach
    FlightCounts
    ClosedStaysEmpty
PROPERTIES
    ForecastHolds
CHECK_DEADLOCK FALSE
