SPECIFICATION Spec
CONSTANTS
    Tokens = {t1}
    NoToken = NoToken
    MaxSignals = 2
    MaxFaults = 1
INVARIANTS
    UnauthorizedIsDisconnected
