CONSTANTS
    m1 = m1
    m2 = m2
    Messages = {m1,m2}
    Queues = {1,2}
    Topics = {3}
    EitherMode = {}
    TurnWidth = 2
    Threads = 2
    NoQueue = NoQueue
    Shared = Shared
SPECIFICATION Spec
INVARIANTS
    ReleasedIsKept
CHECK_DEADLOCK FALSE
