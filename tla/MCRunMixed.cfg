SPECIFICATION FairSpec
CONSTANTS
  dialogue = dialogue
  tool = tool
  s1 = s1
  NoSession = NoSession
  Tenants <- MCTenants
  SessionIds <- MCSessions
  Arrivals <- MCArrivals
  Pool <- MCPool
  GlobalConc = 2
  TenantConc = 2
  FullLoad = FALSE
  Horizon = 2
INVARIANTS
  PermitsConserved
  NoIdlePermit
  PoolUsedEvenly
  DuePermitsOnly
  PromptIsOwnSession
PROPERTIES
  ImplementsTenantPool
  Terminates
