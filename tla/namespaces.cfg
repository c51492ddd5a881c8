SPECIFICATION NamespacesSpec
CONSTANTS
  Clusters <- OneCluster
  NonStrings <- Numbers
  Specs <- MixedSpecs
  ForeignFinalizers <- NoForeign
  Budget <- NamespaceBudget
  NamespaceOf <- InTwo
  Flags <- ListFlags
  None = None
PROPERTIES HandsOff NamedSettle
CHECK_DEADLOCK FALSE
