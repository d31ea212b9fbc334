SPECIFICATION FairSpec
CONSTANTS
  ExemptKinds <- MCExemptKinds
  SelectorQueries = {"withSelector"}
  InvalidQueries = {"malformed"}
  CheckCost = 2
  CostBudget = 6
  Snapshots <- AllSnapshots
  Contexts <- AllContexts
INVARIANTS
  TypeOK
  ResultsValid
  TraceInOrder
  PendingSettled
  MoreContextKeepsVerdict
  ProblemsDiagnosed
  GuardKeepsResultsValid
  EqualWebhooksAgree
  PolicyDecidesConditionProblemsOnly
PROPERTIES
  ImplementsDispatch
  EveryWebhookEvaluated
CHECK_DEADLOCK FALSE
