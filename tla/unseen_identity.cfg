SPECIFICATION Spec
CONSTANTS
  ExemptKinds = {}
  SelectorQueries = {}
  InvalidQueries = {}
  CheckCost = 2
  CostBudget = 9
  Commands <- WrappedCommands
  Clusters <- MCClusters
  Catalog <- MCCatalog
  MaxChanges = 1
  Users <- MCUsers
  LabelSets <- MCLabelSets
  Unknowns <- MCUnknowns
INVARIANTS
  MissingIdentityFailsClosed
CHECK_DEADLOCK FALSE
