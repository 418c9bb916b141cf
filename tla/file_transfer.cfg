SPECIFICATION FairSpec
CONSTANTS
    MaxChunks = 3
    Malformed = Malformed
    NoBody = NoBody
INVARIANTS
    TypeOK
    CompletionHandshake
    ChunksAddUp
    FramesFit
PROPERTIES
    ImplementsOutcome
    TransferDecided
CHECK_DEADLOCK FALSE
