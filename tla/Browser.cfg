SPECIFICATION FairBrowser
CHECK_DEADLOCK FALSE
CONSTANTS
  Questions = {p}
  Nothing = Nothing
  MaxTransportFailures = 1
  MaxRequests = 2
  MaxSources = 2
  Exchanges = {c1}
  HighWater = 1
  Depth = 1
INVARIANTS
  PanelIsCurrent
  BackpressureHolds
PROPERTIES
  AbandonedFeedsEnd
