SPECIFICATION RolloverSpec
CONSTANTS
  Clusters <- OneCluster
  NonStrings <- Numbers
  Specs <- RefusedSpecs
  ForeignFinalizers <- NoForeign
  Budget <- RolloverBudget
  LeaderElect = FALSE
  None = None
INVARIANTS NoOrphans
CHECK_DEADLOCK FALSE
