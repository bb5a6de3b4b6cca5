SPECIFICATION Spec
CONSTANTS
  V = 5
  Graphs <- MCGraphs
  MaxReps = 2
  Inf = 1000
  Weights <- MCWeights
  Inputs <- MCInputs
  TableReps = 2
  Garbage = {7}
INVARIANTS BfsTypeOK BfsQueueFits BfsInLayers DfsStackIsPath DfsStackFits DjSettled KnapsackBest LcsLongest EditStaysInTable
PROPERTIES BfsImplementsSearch DfsImplementsSearch
CHECK_DEADLOCK FALSE
