SPECIFICATION FairSpec
CONSTANTS
  Clusters <- TwoClusters
  NonStrings <- Numbers
  Specs <- MixedSpecs
  ForeignFinalizers <- NoForeign
  Budget <- StarveBudget
  None = None
PROPERTIES Converges Isolation
CHECK_DEADLOCK FALSE
