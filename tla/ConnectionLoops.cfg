SPECIFICATION FairSpec
CONSTANTS
    Tokens = {t1, t2}
    NoToken = NoToken
    MaxSignals = 3
    MaxFaults = 1
INVARIANTS
    TypeOK
    NoOrphanWait
    LostTokenCountsAsNew
    ClosedIsReplaced
    ReplacedReaderIsAnswered
PROPERTIES
    EventuallyConnected
    RequestIsTaken
