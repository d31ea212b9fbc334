SPECIFICATION Spec
CONSTANTS
  ExemptKinds = {}
  SelectorQueries = {}
  InvalidQueries = {}
  CheckCost = 2
  CostBudget = 9
  Commands <- ContextCommands
  Clusters <- CompletedClusters
  Catalog <- MCCatalog
  MaxChanges = 1
  Users <- MCUsers
  LabelSets <- MCLabelSets
  Unknowns <- MCUnknowns
INVARIANTS
  NamespaceReadWhenNeeded
CHECK_DEADLOCK FALSE
