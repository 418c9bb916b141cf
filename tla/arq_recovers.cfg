SPECIFICATION FairSpec
CONSTANTS
    SeqMod = 16
    ISN = 14
    SendWindow = 2
    RecvWindow = 2
    MaxRetx = 2
    MaxChunks = 3
    MaxBurst = 2
    RetxCap = 1
    LossyLink = TRUE
PROPERTY
    EventuallyDelivered
CHECK_DEADLOCK FALSE
