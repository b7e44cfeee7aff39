CONSTANTS
  BITS = 9
  MAX_PRIM = 4
  MAX_LOGIC = 8
  EXTENDED = 5
  DISKS = 1
  PLACES = {"free", "prim", "ext"}
  CHAINS = {0, 1, 2, 7, 8, 9}
  WORD = 65536
  BYTE = 256
  INPUT_FREQUENCY = 1193180
  IRQ0_FREQUENCY = 100
  MAX_SLEEP = 1700
  INTS = 256
  NIBBLES = 2
  MAX_ITEMS = 3
  ROOM = 13
  PAGES = 4
  PAGE_SIZE = 64
  ARENA = 8
  MIN_BLOCK = 16
  MEM_DESC_CNT = 2
  Sizes = {9, 32, 56, 57}
  PageCounts = {1}
  Totals <- EverySize
  HEAP = 64
  KERNEL_MAX = 4096
  WRAP = 16384
  ENTRIES = 8
  NULL = NULL
  Items = {n1, n2, n3, n4}
  Queues = {q1, q2}
  Heads = {h1}
SPECIFICATION SeqSpec
CHECK_DEADLOCK FALSE
INVARIANTS ApplyGivesLowest SpinsOnlyWhenLastUsed ScanLists SleepLasts FormatStores
INVARIANTS NoOverlap ArenasCount PoolsFit MappedBelowTop WellLinked
PROPERTIES ActsAsDeque
