SPECIFICATION Spec
CONSTANTS
  Strategies = {"multi"}
  N = 3
  NumChains = 4
  Line = 4
  Page = 16
  OffsetMod = 2
  Buffer <- MCBuffer
  Mask <- MCMask
  MaxWarm = 2
  MaxLoads = 5
INVARIANTS StreamsAreMixed
CHECK_DEADLOCK FALSE
