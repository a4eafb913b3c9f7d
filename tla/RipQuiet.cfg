SPECIFICATION FairSpec
CONSTANTS
  PORT_NUM = 1
  Prefixes <- Nested
  DirectPrefix <- OneDirect
  DefaultPrefix = "default"
  Above <- Covers
  Tiers = {"bt"}
  Neighbours <- OneSpeaker
  NoAddr = "zero"
  RxRtes <- NestedRtes
  NEXTHOP_TABLE_INDEX_NUM = 9
  NUM_MEMORY_RTE = 6
  RIPNG_MAX_RTE_NUM = 2
  MaxRtes = 1
  MULTICAST_TIME_LIMIT = 1
  TIMEOUT_TIME_LIMIT = 1
  GARBAGE_COLLECTION_TIME_LIMIT = 1
  TimerMod = 2
  MaxGap = 1
PROPERTIES RoutesFade
