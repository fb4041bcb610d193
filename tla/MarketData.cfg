SPECIFICATION FairSpec
CONSTANTS
  Processes = {a, b}
  DevProcesses = {a}
  Leftover = {"series"}
  Issued = {"get_quote", "search", "get_macro_series", "get_energy_price", "factor_decomposition",
            "get_market_snapshot"}
  MaxRetries = 2
  MaxTime = 1
  MaxCalls = 2
  MaxDamage = 1
  None = None
  Nothing = Nothing
  Garbage = Garbage
CHECK_DEADLOCK FALSE
INVARIANTS
  DataTypeOK
  AnswersAreCurrent
  FirstSourcesOnly
  SnapshotSurvives
  HealthFollowsAnswers
PROPERTIES
  EveryCallEnds
