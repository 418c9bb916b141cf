SPECIFICATION Spec
CONSTANTS
    SeqMod = 32
    ISN = 30
    SendWindow = 3
    RecvWindow = 3
    MaxRetx = 0
    MaxChunks = 6
    MaxBurst = 2
    RetxCap = 1
    LossyLink = FALSE
INVARIANT
    SubmissionOrder
CHECK_DEADLOCK FALSE
