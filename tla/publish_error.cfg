SPECIFICATION Spec
CONSTANTS
  Absent = Absent
  NotDirectory = NotDirectory
  Writers = {w1}
  Bundles <- GoodBundles
  InitialTargets <- AnyTargets
  Exports <- AloneGoodExports
  MaxOutages = 0
INVARIANTS PublishErrorMeansUnclaimed
CHECK_DEADLOCK FALSE
