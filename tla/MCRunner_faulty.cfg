SPECIFICATION FairSpec
CONSTANTS
  Tests <- MCTests
  Runs <- MCRuns
  Jobs <- MCJobs
  Prints <- MCPrints
  Overlap = FALSE
  StdinReaders = {}
  MaxKills = 1
  MaxInterrupts = 1
INVARIANTS SerialStartsAll ReportIsOwn OneLossPerKill
PROPERTIES EveryRunEnds
CHECK_DEADLOCK FALSE
