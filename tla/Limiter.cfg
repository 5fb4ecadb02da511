SPECIFICATION Spec
CONSTANTS
  Requests = {r1, r2}
  Identities = {a, b, c}
  NoOne = NoOne
  MaxConcurrent = 2
  MaxPerIdentity = 1
  MaxTracked = 2
  Burst = 1
  Cost = 1
  SecurityStrikes = 2
  StrikeWindow = 2
  BlockFor = 2
  MaxTime = 3
SYMMETRY Symmetry
INVARIANTS
  CountsMatch
  CeilingsHold
  BudgetKept
PROPERTIES
  CooldownHeld

