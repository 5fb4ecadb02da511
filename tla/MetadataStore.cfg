SPECIFICATION Spec
CONSTANTS
  w1 = w1
  w2 = w2
  x = x
  y = y
  z = z
  p = p
  q = q
  Workers <- MCWorkers
  Versions = {1, 2, 3}
  Builds <- MCBuilds
  NoDdl = NoDdl
  First = 1
  Keys = {k1}
  Plans = {p, q}
  Policies <- MCPolicies
  NoPlan = NoPlan
  Untouched = Untouched
  TouchOnHit = TRUE
SYMMETRY MCSymmetry
INVARIANTS
  LedgerMatchesTables
  MigratedIsMigrated
  TruthfulReplies
  HandsOutApproved
PROPERTIES
  LiveRowsStay
