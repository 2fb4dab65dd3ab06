SPECIFICATION FairSpec
CONSTANTS
  Creators = {c1, c2}
  Updaters = {w}
  Deleters = {d}
  Channels = {k1, k2}
  Urls = {u1, u2}
  NoFile = NoFile
  NoUrl = NoUrl
  GivenIds = {1}
  Attempts = 2
  MaxFaults = 1
INVARIANTS RowsUnique GivesUpForCause CreatedStays
PROPERTY RequestsEnd
CHECK_DEADLOCK FALSE
