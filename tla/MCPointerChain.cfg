SPECIFICATION Spec
CONSTANTS
  Strategies = {"basic", "xor", "multi", "xor_multi", "tlb"}
  N = 3
  NumChains = 4
  Line = 4
  Page = 16
  OffsetMod = 2
  Buffer <- MCBuffer
  Mask <- MCMask
  MaxWarm = 2
  MaxLoads = 5
INVARIANTS TypeOK WalksStayInChain OneRing WorkingSetIsChain ChainNeverBroken
CHECK_DEADLOCK FALSE
