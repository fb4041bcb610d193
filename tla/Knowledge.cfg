SPECIFICATION Spec
CONSTANTS
  Sources = {s1}
  Heads = {"h1", "h2"}
  Tails = {"t1", "t2"}
  Documents <- MCDocuments
  MaxPassages = 2
  Keys = {k1, k2}
  Models = {m1}
  Ingesters = {i1, i2}
  Readers = {r1}
  TopK = 1
  None = None
  MaxIngests = 2
  MaxQueries = 1
CHECK_DEADLOCK FALSE
INVARIANTS
  KnowledgeTypeOK
  VectorHasChunk
  IndexFollowsText
  ReadersNeedTheKey
  RefusedOnlyForKeys
