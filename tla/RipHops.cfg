SPECIFICATION Spec
CONSTANTS
  PORT_NUM = 2
  Prefixes <- Flat
  DirectPrefix <- Direct
  DefaultPrefix = "default"
  Above <- Uncovered
  Tiers = {"vc"}
  Neighbours <- TwoSpeakers
  NoAddr = "zero"
  RxRtes <- Rtes
  NEXTHOP_TABLE_INDEX_NUM = 11
  NUM_MEMORY_RTE = 5
  RIPNG_MAX_RTE_NUM = 2
  MaxRtes = 2
  MULTICAST_TIME_LIMIT = 1
  TIMEOUT_TIME_LIMIT = 2
  GARBAGE_COLLECTION_TIME_LIMIT = 1
  TimerMod = 3
  MaxGap = 1
INVARIANT HopAlwaysAgrees
