SPECIFICATION Spec
CONSTANTS
  Candidates <- GoodCandidate
  MinimumCases = 6
  RequiredTags = {1, 2}
  MaxFaults = 1
INVARIANT
  MismatchMeansDifference
CHECK_DEADLOCK FALSE
