SPECIFICATION Spec
CONSTANTS
  Handlers = {h}
  Runners = {r}
  Contents = {a, b}
  NoContent = NoContent
  NumParts = 1
  ChunkIndexes = {}
  DocIndexes = {doc}
  MaxAttempts = 1
  Requests = {"create", "update", "delete"}
  ForceModes = {TRUE, FALSE}
  AccessModes = {TRUE, FALSE}
  FaultKinds = {"fail", "abort", "disconnect", "close"}
  MaxFaults = 1
SYMMETRY Symmetry
INVARIANT InProgressHasRun
INVARIANT VerifiedMeansExact
INVARIANT ErasedMeansEmpty
CHECK_DEADLOCK FALSE
