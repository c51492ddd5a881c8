SPECIFICATION Spec
CONSTANTS
  Clusters <- OneCluster
  NonStrings <- Numbers
  Specs <- OnlyMinimal
  ForeignFinalizers <- NoForeign
  Budget <- RecreateBudget
  None = None
INVARIANTS TypeOK Refining
CHECK_DEADLOCK FALSE
PROPERTIES ImplementsLifecycle
