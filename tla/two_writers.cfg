SPECIFICATION Spec
CONSTANTS
  Absent = Absent
  NotDirectory = NotDirectory
  Writers = {w1, w2}
  Bundles <- GoodBundles
  InitialTargets <- AnyTargets
  Exports <- SharedEmptyTarget
  MaxOutages = 0
PROPERTIES NonEmptyTargetKept
CHECK_DEADLOCK FALSE
