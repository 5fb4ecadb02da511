SPECIFICATION Spec
CONSTANTS
  Subs = {s1}
  Identities = {a, b}
  Tokens = {t1}
  NoOne = NoOne
  MaxTotal = 2
  MaxPerIdentity = 2
  TokenTtl = 4
  MaxDuration = 4
  Interval = 1
  MaxErrors = 2
  QueueDepth = 2
  MaxBuffered = 2
  RowsConvert = FALSE
INVARIANTS
  FailingStreamsClose
