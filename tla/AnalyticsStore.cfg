SPECIFICATION FairSpec
CONSTANTS
  HoldingIds = {h1, h2}
  Portfolios = {p1, p2}
  Accounts = {a1}
  Fields = {"quantity", "value"}
  Amounts = {0, 1}
  FirstAmount = 0
  FileSize = 2
  DemoSize = 2
  None = None
  MaxRequests = 2
CHECK_DEADLOCK FALSE
INVARIANTS
  StoreTypeOK
  ReferencesResolve
  StampedIsMigrated
  UpdateKeepsFields
  DemoOnce
PROPERTIES
  ImplementsBook
  LockReleased
