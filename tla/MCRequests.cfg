SPECIFICATION FairRequestSpec
CONSTANTS
  ReadTimeout = 2
  MaxLines = 3
INVARIANTS
  TimingAddsUp
  
PROPERTIES
  AlwaysEnds
