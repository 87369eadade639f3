SPECIFICATION FairSpec
CONSTANTS
    n1 = n1
    k1 = k1
    Names = {n1}
    Keys = {k1}
    Off = off
    NoKey = nokey
    MaxSlots = 2
    MaxAsks = 1
    MaxFaults = 1
INVARIANTS
    NothingOutlivesShutdown
    NoRequestLost
    OneProcess
PROPERTY
    HealthyConnectionsStay
    EveryServerSettles
CHECK_DEADLOCK FALSE
