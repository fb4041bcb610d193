SPECIFICATION TokenSpec
CONSTANTS
  Absent = Absent
  Empty = Empty
  MaxDraws = 2
  MaxKills = 0
  OverlapStarts = TRUE
  WritesMayFail = FALSE
INVARIANTS
  EngineAgrees
CHECK_DEADLOCK FALSE
