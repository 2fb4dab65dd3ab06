SPECIFICATION FairSpec
CONSTANTS
  s1 = s1  s2 = s2  i1 = i1  i2 = i2  text = text  vector = vector
  o1 = o1  o2 = o2  o3 = o3
  Servers = {s1, s2}
  Indexes = {i1, i2}
  Legacy = {i1, i2}
  Metas = {text, vector}
  Ops = {o1, o2, o3}
  At <- Placed
  On <- SameIndex
  Meta <- Configured
  Nested = {o1}
  PoolSize = 2
  MaxTries = 3
  MaxFaults = 2
  Nobody = Nobody
  NoMeta = NoMeta
INVARIANTS UsersAgree KnownExists UpMeansMigrated TriesSuffice
PROPERTIES OperationsEnd
CHECK_DEADLOCK FALSE
