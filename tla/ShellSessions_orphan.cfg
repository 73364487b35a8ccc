SPECIFICATION Spec
CONSTANTS
    Sessions = {s1, s2}
    SessionIds = {i1}
    UserIds = {u1}
    MaxUserSessions = 1
    MaxShellsSpawned = 2
    MaxUint = 3
    SweepSessions = FALSE
    MaxSpawns = 2
    MaxBatches = 1
    MaxPongs = 0
    MaxFaults = 0
    None = None
SYMMETRY Symmetry
INVARIANTS
    RunningShellsAreRegistered
CHECK_DEADLOCK FALSE
