SPECIFICATION Spec
CONSTANTS
  Cells <- MCLongCells
  Answers <- MCAnswers
  ErrorSample = 1000
  CompletionPct = 99
  None = None
INVARIANT
  PerfectRunPasses
CHECK_DEADLOCK FALSE
