CONSTANTS
    s1 = s1
    p1 = p1
    p2 = p2
    h1 = h1
    h2 = h2
    a1 = a1
    Subscriptions = {s1}
    Publishes = {p1,p2}
    Shutdowns = {h1,h2}
    Addresses = {a1}
    AddressOf <- OneAddress
    PeerRefuses = TRUE
    Nobody = Nobody
SPECIFICATION FairSpec
INVARIANTS
    OnlyRefusedOutlives
    OneLinkPerAddress
    NotConnectedMeansShutdown
    AloneClosesFound
PROPERTIES
    ShutdownReturns
CHECK_DEADLOCK FALSE
