SPECIFICATION FairSpec
CONSTANTS
    Sessions = {s1, s2}
    SessionIds = {i1}
    Protos = {p1, p2}
    None = None
    MaxMessages = 3
INVARIANTS
    TypeOK
    OneSessionPerId
    HandlersFreed
PROPERTIES
    RouteReturns
    SilentSessionEnds
    IsSessionService
CHECK_DEADLOCK FALSE
