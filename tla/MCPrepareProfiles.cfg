SPECIFICATION Spec
CONSTANTS
  Common <- MCCommon
  CellFiles <- MCCellFiles
  Precisions <- MCPrecisions
  Schema <- MCSchema
  Sessions = 2
  Rounds = 2
  Each = 2
  TenantSide = 2
  ModelDir = FALSE
  DatasetUrl = TRUE
  DatasetFile = None
  Subsets <- MCSubsets
  Upstream <- MCUpstreamShort
  Asked <- MCAsked
  MaxAborts = 0
  None = None
INVARIANTS
  ProfileConsistent
  RoundsInOrder
CHECK_DEADLOCK FALSE
