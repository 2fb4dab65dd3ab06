SPECIFICATION Spec
CONSTANTS
  Handlers = {p}
  Runners = {p}
  Contents = {a, b}
  NoContent = NoContent
  NumParts = 1
  ChunkIndexes = {text}
  DocIndexes = {}
  MaxAttempts = 2
  Requests = {"create", "update", "delete", "reindex"}
  ForceModes = {TRUE, FALSE}
  AccessModes = {TRUE}
  FaultKinds = {"fail", "abort", "disconnect", "close"}
  MaxFaults = 1
SYMMETRY Symmetry
INVARIANT ReadyHasChunks
CHECK_DEADLOCK FALSE
