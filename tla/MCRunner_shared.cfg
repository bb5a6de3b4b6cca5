SPECIFICATION Spec
CONSTANTS
  Tests <- MCTests
  Runs <- MCRuns
  Jobs <- MCJobs
  Prints <- MCPrints
  Overlap = TRUE
  StdinReaders = {1}
  MaxKills = 1
  MaxInterrupts = 1
INVARIANTS CountsMatch PassHasWitness
CHECK_DEADLOCK FALSE
