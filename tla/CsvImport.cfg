SPECIFICATION Spec
CONSTANTS
  Portfolios = {1, 2}
  Sheets <- MCSheets
  Blank = Blank
  Unreadable = Unreadable
  None = None
  MaxViews = 2
  MaxRequests = 3
  MaxChanges = 1
CHECK_DEADLOCK FALSE
INVARIANTS
  ImportsAsReviewed
  ImportsWhereShown
