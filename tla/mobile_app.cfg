SPECIFICATION FairSpec
CONSTANTS
  Initiator = Initiator
  Responder = Responder
  Messages <- MCMessages
  MaxRequests = 2
INVARIANTS
  TypeOK
  OneDrive
  RefusedOnlyAfterGiveUp
  PassIsShared
PROPERTY
  RunEnds
CHECK_DEADLOCK FALSE
