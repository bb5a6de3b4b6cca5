SPECIFICATION Spec
CONSTANTS
  Tests <- MCTests
  Runs <- MCRuns
  Jobs <- MCPools
  Prints <- MCPrints
  Overlap = FALSE
  StdinReaders = {}
  MaxKills = 1
  MaxInterrupts = 0
INVARIANTS PassWasStarted
CHECK_DEADLOCK FALSE
