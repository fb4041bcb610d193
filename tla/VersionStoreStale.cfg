SPECIFICATION Spec
CONSTANTS
  Entities = {ent1}
  Contents = {x1}
  Types = {position}
  Clients = {c1}
  Engines = {g1, g2}
  MaxRequests = 2
  MaxLaunches = 2
  MaxPowerLosses = 0
  MaxClock = 0
  ClockMayStepBack = FALSE
  LoadMayFail = FALSE
  None = None
INVARIANTS
  HistoryRestored
CHECK_DEADLOCK FALSE
