SPECIFICATION Spec
CONSTANTS
  STRIDE = 3
  LEVELS = 2
  BT_LEVELS = 2
  CAP = 7
  Prefixes <- Nested
  Hops <- TwoHops
  MaxTop = 7
  VC_STRIDE = 3
  VC_LEVELS = 2
  BIN_SIZES <- Bins
  BRAM_DEPTHS <- NodeCounts
  MAX_PREFIX_LEN = 2
  VcPrefixes <- Nested
  VcHops <- TwoHops
  None = 0
  DefaultHop = 5
  Destinations <- Targets
INVARIANT LongestMatch
