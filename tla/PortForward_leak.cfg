SPECIFICATION FairSpec
CONSTANTS
    Forwarders = {f1}
    ConnectionIds = {c1}
    None = None
    Acks = TRUE
    FreshIds = TRUE
    MaxData = 1
    MaxForwards = 0
    MaxFaults = 0
PROPERTIES
    GoroutinesEnd
CHECK_DEADLOCK FALSE
