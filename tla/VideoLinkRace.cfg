SPECIFICATION Spec
CONSTANTS
  r1 = r1
  r2 = r2
  Requests = {r1}
  MaxVideos = 1
  DailyLimit = 1
  MaxConcurrent = 1
  CleanupEvery = 2
  MaxFaults = 0
  MaxCrashes = 0
INVARIANTS
  LinkedDropGetsUrl
