SPECIFICATION Spec
CONSTANTS
  t1 = t1
  t2 = t2
  Tests <- MCTests
  Archs = {"default", "other"}
  Jobs = 2
  MaxEdits = 0
  MaxBuilds = 2
  MaxKills = 0
INVARIANTS CleanSucceeds
CHECK_DEADLOCK FALSE
