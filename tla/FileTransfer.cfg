SPECIFICATION MCSpec
CONSTANTS
    Handlers = {h1, h2}
    None = None
    ACKSlidingWindowSend = 2
    ACKSlidingWindowRecv = 2
    ClientWindow = 2
    LimitChoices <- MCLimitChoices
    FileSizes = {0, 3}
    UploadSizes = {0, 2}
    MaxRequests = 2
    MaxFaults = 1
INVARIANTS
    TypeOK
    TargetIsWhole
    DownloadIsSnapshot
    WindowKept
    SizeLimitKept
    TempRemoved
    NoMutualWait
PROPERTIES
    TransferEnds
    ServeReturns
    ClientIsAnswered
    FileIsAtomic
    DoneIsSettled
