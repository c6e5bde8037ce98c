CONSTANTS
    c1 = c1
    c2 = c2
    Clones = {c1, c2}
    Urls <- MCUrls
    Profiles = {"unset", "plain", "external"}
    Settings = {"unset", "valid", "unusable"}
    Nobody = Nobody
SPECIFICATION FairSpec
INVARIANTS
    OneConnection
    LoggedInAsAsked
    ConnectedAsCalled
    TestAgreesWithService
PROPERTIES
    EveryConnectReturns
CHECK_DEADLOCK FALSE
