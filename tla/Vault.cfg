SPECIFICATION VaultSpec
CONSTANTS
  Absent = Absent
  Empty = Empty
  None = None
  MaxDraws = 2
  MaxKills = 1
  OverlapStarts = TRUE
  WritesMayFail = TRUE
  Tabs = {t1, t2}
  Creators = {t1}
  Passphrases = {p1, p2}
  MaxOps = 3
  MaxPowerLosses = 1
  FirstVisitAlone = TRUE
INVARIANTS
  VaultTypeOK
  EnvelopeOpens
  SessionIsEnvelope
  EntriesOpen
  AnalyticsAgrees
PROPERTIES
  EnvelopeGuarded
  TokenNeverReplaced
SYMMETRY Symmetry
CHECK_DEADLOCK FALSE
