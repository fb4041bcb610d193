SPECIFICATION Spec
CONSTANTS
  Entities = {ent1}
  Contents = {x1}
  Types = {position}
  Clients = {c1, c2}
  Engines = {g1}
  MaxRequests = 2
  MaxLaunches = 1
  MaxPowerLosses = 0
  MaxClock = 0
  ClockMayStepBack = FALSE
  LoadMayFail = FALSE
  None = None
INVARIANTS
  ReplyIsContentAddressed
CHECK_DEADLOCK FALSE
SYMMETRY Symmetry
