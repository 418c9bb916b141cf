SPECIFICATION TimelySpec
CONSTANTS
    Initiator = Initiator
    Responder = Responder
    ProposedId = ProposedId
    PlaceholderId = PlaceholderId
    HeartbeatInterval = 2
    IdleTimeout = 3
    ControlRto = 1
    MaxControlRetries = 0
    Copies = {1}
    MaxInFlight = 4
    MaxConnects = 1
    MaxDataFrames = 1
INVARIANT
    NeverGivenUp
CHECK_DEADLOCK FALSE
