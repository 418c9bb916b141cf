SPECIFICATION FairSpec
CONSTANTS
  Initiator = Initiator
  Responder = Responder
  ProposedId = ProposedId
  PlaceholderId = PlaceholderId
  Settings <- MCSettings
  MaxInFlight = 2
  MaxLeaves = 1
INVARIANTS
  StreamsIntact
PROPERTY
  SendsArrive
CHECK_DEADLOCK FALSE
