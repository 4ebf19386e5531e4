SPECIFICATION FairSpec
CONSTANTS
  r1 = r1
  r2 = r2
  Requests = {r1}
  MaxVideos = 2
  DailyLimit = 2
  MaxConcurrent = 1
  CleanupEvery = 1
  MaxFaults = 0
  MaxCrashes = 1
PROPERTIES
  EveryVideoSettles
