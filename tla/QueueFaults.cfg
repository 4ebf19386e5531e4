SPECIFICATION FairSpec
CONSTANTS
  g1 = g1
  g2 = g2
  w1 = w1
  None = None
  MaxRequests = 2
  Embeds <- MCEmbeds
  Payloads <- MCPayloads
  CacheSize = 1
  HashSize = 1
  MaxTroubles = 1
INVARIANTS
  TypeOK
  AcceptedIsAccountedFor
  OneRecentRow
  ToldOnce
  CreditsHaveEntries
  FilesFollowEntries
PROPERTIES
  EveryEntryIsTaken
CHECK_DEADLOCK FALSE
