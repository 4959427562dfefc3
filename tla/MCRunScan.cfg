SPECIFICATION Spec
CONSTANTS
  s1 = s1
  NoSession = NoSession
  SessionIds <- MCSessions
  Cases <- MCCases
  Arrivals <- MCArrivals
  MaxConc = 2
  Horizon = 2
INVARIANTS
  HistoryIsLog
  OvertakingBounded
  WaitsOnlyWhenSaturated
PROPERTIES
  ImplementsRequestPool
