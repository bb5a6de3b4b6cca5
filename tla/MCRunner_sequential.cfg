SPECIFICATION Spec
CONSTANTS
  Tests <- MCTests3
  Runs <- MCRuns
  Jobs <- MCJobs
  Prints <- MCPrints3
  Overlap = FALSE
  StdinReaders = {}
  MaxKills = 0
  MaxInterrupts = 1
INVARIANTS TypeOK FreshVerdict HelperOutlivesWorkers
PROPERTIES ImplementsReport
CHECK_DEADLOCK FALSE
