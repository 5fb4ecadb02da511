SPECIFICATION FairSpec
CONSTANTS
  Requests = {r1, r2}
  Connections = {c1}
  Tenants = {t1, t2}
  Nobody = Nobody
  NFixed = 1
  NScope = 1
  SingleTenant = FALSE
  Pinned = Pinned
  Unset = Unset
  NoConn = NoConn
PROPERTIES
  EveryRequestEnds
  ImplementsTenantRead
