SPECIFICATION Spec
CONSTANTS
  Programs <- MCPrograms
  Builds = {"linux", "spike", "checkpoint"}
  Modulus <- MCModulus
  Starts <- MCStarts
  Cpi = 2
  MaxRestores = 1
INVARIANTS TypeOK StartsDisciplined WindowIsKernel ResourcesReturned CrashNeedsFailedAlloc OperandsKept PointsMatchLines
PROPERTIES ImplementsTestReport TestEnds
CHECK_DEADLOCK FALSE
