SPECIFICATION CalmSpec
CONSTANTS
  Clusters <- OneCluster
  NonStrings <- Numbers
  Specs <- EditedSpecs
  ForeignFinalizers <- NoForeign
  Budget <- EditsBudget
  None = None
INVARIANTS Working NoOrphans HostsResolve AnnouncedApplied NoLostWork
PROPERTIES NoLostUpdate
CHECK_DEADLOCK FALSE
