SPECIFICATION Spec
CONSTANTS
  Required = 3
  MaxRetries = 2
  Metrics = {1, 2, 4}
  MaxDir = 3
INVARIANTS
  Z2CommandReturns
