SPECIFICATION TimedSpec
CONSTANTS
    SeqMod = 32
    ISN = 30
    SendWindow = 3
    RecvWindow = 3
    MaxRetx = 1
    MaxChunks = 6
    MaxBurst = 2
    RetxCap = 2
    LossyLink = FALSE
INVARIANTS
    TypeOK
    InOrderDelivery
    NoFalseAck
    ChunkConservation
    NoZeroWindow
    QueueHasPilot
    HoleIsNacked
    WindowRespected
PROPERTIES
    EventuallySettled
    ImplementsStream
CHECK_DEADLOCK FALSE
