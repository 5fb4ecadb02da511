SPECIFICATION Spec
CONSTANTS
  Requests = {r1, r2}
  Connections = {c1, c2}
  Tenants = {t1, t2}
  Nobody = Nobody
  NFixed = 1
  NScope = 2
  SingleTenant = FALSE
  Pinned = Pinned
  Unset = Unset
  NoConn = NoConn
SYMMETRY Symmetry
INVARIANTS
  ReadUnderOwnScope
  IdleSessionsAreClean
  LeasesMatchReads
