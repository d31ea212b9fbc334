SPECIFICATION Spec
CONSTANTS
  ExemptKinds <- MCExemptKinds
  SelectorQueries = {"withSelector"}
  InvalidQueries = {"malformed"}
  CheckCost = 2
  CostBudget = 6
  Snapshots <- DecisionSnapshots
  Contexts <- DecisionContexts
INVARIANTS
  AbsentFixtureIsIndeterminate
CHECK_DEADLOCK FALSE
