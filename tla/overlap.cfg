SPECIFICATION RolloverSpec
CONSTANTS
  Clusters <- OneCluster
  NonStrings <- Numbers
  Specs <- NumericSpecs
  ForeignFinalizers <- Foreign
  Budget <- OverlapBudget
  LeaderElect = FALSE
  None = None
PROPERTIES BothKeepUpdates
CHECK_DEADLOCK FALSE
