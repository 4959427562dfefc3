SPECIFICATION Spec
CONSTANTS
  Cells <- MCCells
  Answers <- MCAnswers
  ErrorSample = 2
  CompletionPct = 50
  None = None
INVARIANTS
  PoissonPassIsEarned
  MixedPassIsEarned
  VerdictIsOnDisk
  FormalBelowCapacity
  EvidenceMeansComplete
  PassBoundsTheTail
  NobodyStarves
PROPERTIES
  FailureNeverHelps
CHECK_DEADLOCK FALSE
