SPECIFICATION Spec
CONSTANTS
  ExemptKinds <- MCExemptKinds
  SelectorQueries = {"withSelector"}
  InvalidQueries = {"malformed"}
  CheckCost = 2
  CostBudget = 6
  Snapshots <- RoutingSnapshots
  Contexts <- RoutingContexts
INVARIANTS
  RejectedOnlyUnderFail
CHECK_DEADLOCK FALSE
