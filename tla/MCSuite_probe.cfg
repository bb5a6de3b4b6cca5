SPECIFICATION Spec
CONSTANTS
  Programs <- MCPrograms
  Builds = {"linux", "spike", "checkpoint"}
  Modulus <- MCModulus
  Starts <- MCStarts
  Cpi = 2
  MaxRestores = 1
INVARIANTS JsonBetweenMarkers
CHECK_DEADLOCK FALSE
