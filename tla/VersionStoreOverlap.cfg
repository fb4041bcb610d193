SPECIFICATION FairSpec
CONSTANTS
  Entities = {ent1}
  Contents = {x1}
  Types = {position}
  Clients = {c1, c2}
  Engines = {g1, g2}
  MaxRequests = 2
  MaxLaunches = 3
  MaxPowerLosses = 1
  MaxClock = 1
  ClockMayStepBack = TRUE
  LoadMayFail = TRUE
  None = None
INVARIANTS
  TypeOK
  ChainIntact
  ServedIsPersisted
  AckedPersisted
  ReplyNotBehind
PROPERTIES
  AckOnce
  ImplementsLog
  AppendsAnswered
CHECK_DEADLOCK FALSE
