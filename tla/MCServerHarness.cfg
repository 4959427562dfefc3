SPECIFICATION FairSpec
CONSTANTS
  Commands <- StoppedThenDocumented
  Overlapping <- SecondOverlaps
  Interruptible <- WaitsAndStops
INVARIANTS
  NoResidue
  MeasuredServers
  StopsTheLatest
PROPERTIES
  EveryInvocationEnds
