SPECIFICATION FairSpec
CONSTANTS
  Clusters <- OneCluster
  NonStrings <- Numbers
  Specs <- OnlyMetrics
  ForeignFinalizers <- NoForeign
  Budget <- EditOnceBudget
  None = None
PROPERTIES Builds
CHECK_DEADLOCK FALSE
