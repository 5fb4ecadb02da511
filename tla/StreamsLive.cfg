SPECIFICATION FairSpec
CONSTANTS
  Subs = {s1, s2}
  Identities = {a}
  Tokens = {t1, t2}
  NoOne = NoOne
  MaxTotal = 2
  MaxPerIdentity = 1
  TokenTtl = 3
  MaxDuration = 2
  Interval = 1
  MaxErrors = 2
  QueueDepth = 2
  MaxBuffered = 2
  RowsConvert = TRUE
INVARIANTS
  CapsHold
  FailingStreamsClose
  MemoryBounded
PROPERTIES
  StreamsEnd
