CONSTANTS
    p1 = p1
    h1 = h1
    a1 = a1
    Subscriptions = {}
    Publishes = {p1}
    Shutdowns = {h1}
    Addresses = {a1}
    AddressOf <- OneAddress
    PeerRefuses = FALSE
    Nobody = Nobody
SPECIFICATION Spec
INVARIANTS
    LinksCloseFirst
CHECK_DEADLOCK FALSE
