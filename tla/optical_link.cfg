SPECIFICATION FairSpec
CONSTANTS
  Callers = {c1, c2}
  TimedCallers = {c1}
  Payloads = {packet}
  MaxSends = 6
  EarlySends = 1
  Settings <- MCSettings
  NoFrame = NoFrame
INVARIANTS
  TypeOK
  DeliveredOnce
  SlotsSignalled
  OneReader
PROPERTIES
  HiddenOnlyAfterLosses
  NewestArrives
  CloseReleases
CHECK_DEADLOCK FALSE
