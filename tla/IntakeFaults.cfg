SPECIFICATION Spec
CONSTANTS
  s1 = s1
  s2 = s2
  s3 = s3
  g1 = g1
  g2 = g2
  w1 = w1
  w2 = w2
  Sends = {s1, s2, s3}
  Guids = {g1, g2}
  Workers = {w1, w2}
  Bot = Bot
  CacheSize = 1
  MaxAttempts = 2
  MaxFaults = 1
  MaxCrashes = 1
SYMMETRY IntakeSymmetry
INVARIANTS
  TypeOK
  ReadmittedOnlyAfterEviction
  TotalsExplained
  NoticesHaveDrops
PROPERTIES
  OneWave
CHECK_DEADLOCK FALSE
