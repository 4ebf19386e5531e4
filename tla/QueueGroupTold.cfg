SPECIFICATION Spec
CONSTANTS
  g1 = g1
  g2 = g2
  w1 = w1
  None = None
  MaxRequests = 1
  Embeds <- MCEmbeds
  Payloads <- MCPayloads
  CacheSize = 1
  HashSize = 1
  MaxTroubles = 0
INVARIANTS
  GroupIsTold
CHECK_DEADLOCK FALSE
