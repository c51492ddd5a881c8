SPECIFICATION FairSpec
CONSTANTS
  Clusters <- OneCluster
  NonStrings <- Numbers
  Specs <- OnlyMinimal
  ForeignFinalizers <- NoForeign
  Budget <- DriftBudget
  None = None
PROPERTIES Converges
CHECK_DEADLOCK FALSE
