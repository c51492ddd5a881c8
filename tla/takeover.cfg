SPECIFICATION FairRolloverSpec
CONSTANTS
  Clusters <- OneCluster
  NonStrings <- Numbers
  Specs <- RefusedSpecs
  ForeignFinalizers <- NoForeign
  Budget <- TakeoverBudget
  LeaderElect = TRUE
  None = None
PROPERTIES OneManager ReleasedEventually
CHECK_DEADLOCK FALSE
