SPECIFICATION Spec
CONSTANTS
    Initiator = Initiator
    Responder = Responder
    ProposedId = ProposedId
    PlaceholderId = PlaceholderId
    HeartbeatInterval = 1
    IdleTimeout = 2
    ControlRto = 1
    MaxControlRetries = 0
    Copies = {0, 1}
    MaxInFlight = 2
    MaxConnects = 2
    MaxDataFrames = 0
INVARIANT
    PendingCleared
CHECK_DEADLOCK FALSE
