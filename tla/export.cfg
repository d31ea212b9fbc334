SPECIFICATION Spec
CONSTANTS
  Absent = Absent
  NotDirectory = NotDirectory
  Writers = {w1, w2}
  Bundles <- AnyBundles
  InitialTargets <- AnyTargets
  Exports <- AllExports
  MaxOutages = 1
INVARIANTS TypeOK TargetIsWhole NoLitter RefusedLeavesTarget
PROPERTIES ImplementsAtomicExport
CHECK_DEADLOCK FALSE
