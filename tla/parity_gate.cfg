SPECIFICATION Spec
CONSTANTS
  Candidates <- MCCandidates
  MinimumCases = 6
  RequiredTags = {1, 2}
  MaxFaults = 2
INVARIANTS
  TypeOK
  PassedMeansAgreed
  ClaimsAreReal
  FailureSurfaces
  MissingReported
  SeenDifferencesSurface
CHECK_DEADLOCK FALSE
