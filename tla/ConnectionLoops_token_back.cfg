SPECIFICATION FairSpec
CONSTANTS
    Tokens = {t1}
    NoToken = NoToken
    MaxSignals = 2
    MaxFaults = 0
PROPERTIES
    TokenBackReconnects
