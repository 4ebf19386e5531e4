SPECIFICATION Spec
CONSTANTS
  r1 = r1
  r2 = r2
  Requests = {r1, r2}
  MaxVideos = 3
  DailyLimit = 1
  MaxConcurrent = 1
  CleanupEvery = 2
  MaxFaults = 1
  MaxCrashes = 1
SYMMETRY RequestSymmetry
INVARIANTS
  TypeOK
  FootageKept
  ServedIsThere
  QuotaOverrunBounded
PROPERTIES
  FinishedStays
