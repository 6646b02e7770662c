SPECIFICATION FairSpec
CONSTANTS
    Versions <- MCVersions
    StringOrders <- MCStringOrders
    None = None
INVARIANTS
    BuildsAreWhole
    GivenStay
PROPERTIES
    NewestIsKept
    NoDowngrade
    CallSettles
