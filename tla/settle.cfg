SPECIFICATION FairSpec
CONSTANTS
  Clusters <- OneCluster
  NonStrings <- Numbers
  Specs <- SettledSpecs
  ForeignFinalizers <- NoForeign
  Budget <- SettleBudget
  None = None
PROPERTIES Converges
CHECK_DEADLOCK FALSE
