CONSTANTS
    m1 = m1
    m2 = m2
    t1 = t1
    t2 = t2
    d1 = d1
    Messages = {m1, m2}
    Transactions = {t1, t2}
    Discharges = {d1}
    Transports <- BothTransports
    PeerRefuses = TRUE
    Nobody = Nobody
SPECIFICATION FairSpec
INVARIANTS
    JoinsItsTransaction
    BegunIsKept
PROPERTIES
    EveryCallReturns
    LooseOnesEnd
    PostsAtomically
CHECK_DEADLOCK FALSE
