SPECIFICATION Spec
CONSTANTS
  Clusters <- OneCluster
  NonStrings <- Numbers
  Specs <- OnlyMinimal
  ForeignFinalizers <- NoForeign
  Budget <- TwiceBudget
  None = None
INVARIANTS AnnouncedExists
CHECK_DEADLOCK FALSE
