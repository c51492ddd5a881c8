SPECIFICATION Spec
CONSTANTS
  Clusters <- OneCluster
  NonStrings <- Numbers
  Specs <- OnlyMetrics
  ForeignFinalizers <- NoForeign
  Budget <- RemovalBudget
  None = None
INVARIANTS MetricsGone
CHECK_DEADLOCK FALSE
