SPECIFICATION Spec
CONSTANTS
    Sessions = {s1, s2}
    SessionIds = {i1, i2}
    UserIds = {u1}
    MaxUserSessions = 1
    MaxShellsSpawned = 2
    MaxUint = 3
    SweepSessions = TRUE
    MaxSpawns = 2
    MaxBatches = 1
    MaxPongs = 2
    MaxFaults = 1
    None = None
INVARIANTS
    TypeOK
    MapsAgree
    MessageLoopNeverBlocks
PROPERTIES
    LoopsAdvance
    IsSessionRegistry
CONSTRAINT PongOrFault
SYMMETRY Symmetry
CHECK_DEADLOCK FALSE
