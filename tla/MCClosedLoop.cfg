SPECIFICATION Spec
CONSTANTS
  None = None
  Answers <- MCAnswers
  ServiceTimes = {2, 3, 5}
  WarmupS = 3
  MeasureS = 12
  MaxRequests = 4
  WindowCount = 3
  WindowS = 4
  MinCompleted = 3
  InputTokens = 8
  OutputLen = 2
  Shapes <- MCShapes
  WarmupRounds = 1
  MeasureRounds = 2
  Concurrent = 2
INVARIANTS
  AtMostOneOutside
  PassMeansSteady
  StatsDescribeReceipts
  MfuCountsWorkDone
CHECK_DEADLOCK FALSE
