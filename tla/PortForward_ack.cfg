SPECIFICATION Spec
CONSTANTS
    Forwarders = {f1, f2}
    ConnectionIds = {c1}
    None = None
    Acks = TRUE
    FreshIds = FALSE
    MaxData = 2
    MaxForwards = 0
    MaxFaults = 0
INVARIANTS
    AckIsHarmless
CHECK_DEADLOCK FALSE
