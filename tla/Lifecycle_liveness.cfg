SPECIFICATION FairSpec
CONSTANTS
  Handlers = {h}
  Runners = {h, r}
  Contents = {a}
  NoContent = NoContent
  NumParts = 1
  ChunkIndexes = {text}
  DocIndexes = {}
  MaxAttempts = 2
  Requests = {"create", "reindex"}
  ForceModes = {TRUE}
  AccessModes = {TRUE}
  FaultKinds = {"fail", "disconnect"}
  MaxFaults = 1
INVARIANT OneJobRun
PROPERTY QueuedJobSettles
CHECK_DEADLOCK FALSE
