SPECIFICATION Spec
CONSTANTS
  t1 = t1
  t2 = t2
  Tests <- MCTests
  Archs = {"default", "other"}
  Jobs = 2
  MaxEdits = 1
  MaxBuilds = 2
  MaxKills = 1
SYMMETRY MCSymmetry
INVARIANTS TypeOK NoOldCheckpoint OkMeansCurrent ForcedBuildIsCurrent MadeIsUpToDate
CHECK_DEADLOCK FALSE
