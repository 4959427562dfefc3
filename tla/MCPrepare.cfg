SPECIFICATION FairSpec
CONSTANTS
  Common <- MCCommon
  CellFiles <- MCCellFiles
  Precisions <- MCPrecisions
  Schema <- MCSchema
  Sessions = 2
  Rounds = 2
  Each = 2
  TenantSide = 2
  ModelDir = TRUE
  DatasetUrl = TRUE
  DatasetFile = "sharegpt"
  Subsets <- MCSubsets
  Upstream <- MCUpstream
  Asked <- MCFew
  MaxAborts = 1
  None = None
INVARIANTS
  RegistryIsTrue
  MeasuredOnRealData
PROPERTIES
  RecoversWithForce
CHECK_DEADLOCK FALSE
