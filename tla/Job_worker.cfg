SPECIFICATION FairSpec
CONSTANTS
  job1 = job1
  s1 = s1
  s2 = s2
  Jobs = {job1}
  Entrypoint <- OneImport
  Limit <- CodeLimit
  Servers = {s1, s2}
  MaxAttempts = 2
  MaxDoublings = 0
  MaxCrashes = 2
  MaxFaults = 1
  NoServer = NoServer
  NoJob = NoJob
INVARIANTS DoneMeansRan WorkerLives StopsForGood
PROPERTIES DesertedEnds QueuedIsTried
CHECK_DEADLOCK FALSE
