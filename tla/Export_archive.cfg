SPECIFICATION FairSpec
CONSTANTS
  Ids = {1, 2}
  Present = {1}
  Changers = {c}
  Askers = {a}
  Kinds = {"update", "delete", "import"}
  Exporters = {e1, e2}
  NumIndexes = 1
  PageSize = 1
  BatchSize = 2
  MaxAttempts = 2
  MaxFaults = 1
  NoExporter = NoExporter
  NoDoc = NoDoc
INVARIANT ServedIsCurrent
PROPERTY ExportSettles
PROPERTY ImplementsRegister
CHECK_DEADLOCK FALSE
