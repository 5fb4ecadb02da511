SPECIFICATION RunnerSpec
CHECK_DEADLOCK FALSE
CONSTANTS
  Tiers <- MCTiers
  Workers = 2
  Cap = 3
  MaxAttempts = 2
  MaxCost = 2
  Policies <- MCPolicies
  MaxInfra = 50
  Tolerance = 10
  Unset = Unset
INVARIANTS
  SpendBounded
  VerdictIsWhole
