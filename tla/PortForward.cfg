SPECIFICATION FairSpec
CONSTANTS
    Forwarders = {1, 2}
    ConnectionIds = {1, 2}
    None = None
    Acks = TRUE
    FreshIds = TRUE
    MaxData = 3
    MaxForwards = 1
    MaxFaults = 1
ACTION_CONSTRAINT InOrder
INVARIANTS
    TypeOK
    AckIsHarmless
    OpenIsRegistered
    LockIsDue
PROPERTIES
    IsForwardedConnections
    ClosedIsForgotten
    SessionReleased
CHECK_DEADLOCK FALSE
