SPECIFICATION Spec
CONSTANTS
    Clients <- AllClients
    Upstreams <- AllUpstreams
    MaxUnits = 2
    MaxSkipped = 1
    MaxDamaged = 1
INVARIANTS
    NothingTwiceOrOutOfOrder
    NoSilentLoss
    ArgumentsReachTheirCall
    EndIsHonest
    WellFormedStream
    SameStreamedOrNot
CHECK_DEADLOCK FALSE
