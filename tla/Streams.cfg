SPECIFICATION Spec
CONSTANTS
  Subs = {s1, s2}
  Identities = {a, b}
  Tokens = {t1, t2, t3}
  NoOne = NoOne
  MaxTotal = 2
  MaxPerIdentity = 2
  TokenTtl = 2
  MaxDuration = 2
  Interval = 1
  MaxErrors = 2
  QueueDepth = 2
  MaxBuffered = 1
  RowsConvert = FALSE
SYMMETRY Symmetry
INVARIANTS
  RegistryMatches
PROPERTIES
  ClosedIsInert
  ReadsAreApproved
