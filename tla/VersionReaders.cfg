SPECIFICATION ReaderSpec
CONSTANTS
  Entities = {ent1}
  Contents = {x1}
  Types = {position, decision}
  Clients = {c1}
  Engines = {g1}
  Readers = {r1}
  MaxRequests = 2
  MaxLaunches = 3
  MaxPowerLosses = 1
  MaxClock = 1
  ClockMayStepBack = TRUE
  LoadMayFail = TRUE
  None = None
INVARIANTS
  SnapshotRepeatable
  DiffForward
  IntegrityReported
  HistoryHasAcked
  HistoryRestored
SYMMETRY Symmetry
CHECK_DEADLOCK FALSE
