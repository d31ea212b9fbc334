SPECIFICATION Spec
CONSTANTS
  ExemptKinds = {}
  SelectorQueries = {}
  InvalidQueries = {}
  CheckCost = 2
  CostBudget = 9
  Commands <- MCCommands
  Clusters <- MCClusters
  Catalog <- MCCatalog
  MaxChanges = 1
  Users <- MCUsers
  LabelSets <- MCLabelSets
  Unknowns <- MCUnknowns
INVARIANTS
  TypeOK
  NoVerdictGuessed
  ZeroMeansComplete
  GapsReported
  ForbiddenReadsShown
  ReadsWithinBoundary
CHECK_DEADLOCK FALSE
