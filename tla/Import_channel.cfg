SPECIFICATION FairSpec
CONSTANTS
  d1 = d1
  d2 = d2
  d3 = d3
  i1 = i1
  Docs = {d1, d2, d3}
  Present = {d1}
  Refusable = {d2}
  Indexes = {i1}
  Given <- OneHasRecords
  BatchSize = 2
  MaxAttempts = 2
  MaxFaults = 2
  NoAttempt = NoAttempt
INVARIANTS ReturnedIsImported RetryFindsArchive SuccessMeansComplete
PROPERTIES ImportEnds
CHECK_DEADLOCK FALSE
