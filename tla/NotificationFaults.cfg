SPECIFICATION Spec
CONSTANTS
  loop = loop
  drain = drain
  Workers = {loop, drain}
  LoopWorker = loop
  None = None
  NoVideo = NoVideo
  p1 = p1
  p2 = p2
  p3 = p3
  p4 = p4
  p5 = p5
  k1 = k1
  k2 = k2
  k3 = k3
  k4 = k4
  v1 = v1
  Keys = {k1, k2, k3}
  Payloads = {p1, p2, p3, p4}
  Videos = {v1}
  KeyOf <- MCKeyOf
  EntryOf <- MCEntryOf
  VideoOf <- MCVideoOf
  KindOf <- DropCaUpgrade
  BatchSize = 2
  CleanupEvery = 1
  MaxRows = 3
  MaxFaults = 1
  MaxCrashes = 1
INVARIANTS
  TypeOK
  DropsPostedOnce
  OnePostPerRow
  SentWasPosted
  NeverAheadOfVideo
PROPERTIES
  CleanupSparesRowsInHand
