SPECIFICATION FairSpec
CONSTANTS
  ExemptKinds = {}
  SelectorQueries = {}
  InvalidQueries = {}
  CheckCost = 2
  CostBudget = 9
  MaximumDocuments = 3
  MaximumWebhookMatchConditions = 1
  Paths <- MCPaths
  Parent <- MCParent
  Supported <- MCSupported
  Changes <- MCChanges
  MaxTreeChanges = 1
  Documents <- MCDocuments
  Invocations <- MCInvocations
INVARIANTS
  TypeOK
  ZeroMeansAllMatched
  ExitHidesNothingWorse
  ReportCoversArguments
  ReportOrdered
  TestAgreesWithExplain
  NothingSkipped
PROPERTIES
  CommandEnds
CHECK_DEADLOCK FALSE
