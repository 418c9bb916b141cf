SPECIFICATION FairSpec
CONSTANTS
    Initiator = Initiator
    Responder = Responder
    ProposedId = ProposedId
    PlaceholderId = PlaceholderId
    HeartbeatInterval = 1
    IdleTimeout = 2
    ControlRto = 1
    MaxControlRetries = 1
    Copies = {0, 1, 2}
    MaxInFlight = 2
    MaxConnects = 1
    MaxDataFrames = 0
INVARIANTS
    TypeOK
    PendingFitsState
    HandshakeOrder
    CloseIsMutual
PROPERTIES
    Lifecycles
    AttemptsEnd
CHECK_DEADLOCK FALSE
