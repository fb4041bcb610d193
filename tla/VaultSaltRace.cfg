SPECIFICATION VaultSpec
CONSTANTS
  Absent = Absent
  Empty = Empty
  None = None
  MaxDraws = 1
  MaxKills = 0
  OverlapStarts = FALSE
  WritesMayFail = FALSE
  Tabs = {t1, t2}
  Creators = {t1}
  Passphrases = {p1}
  MaxOps = 2
  MaxPowerLosses = 0
  FirstVisitAlone = FALSE
INVARIANTS
  EnvelopeOpens
CHECK_DEADLOCK FALSE
