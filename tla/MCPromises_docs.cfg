CONSTANTS
  BITS = 3
  MAX_PRIM = 4
  MAX_LOGIC = 8
  EXTENDED = 5
  DISKS = 2
  PLACES = {"prim", "ext"}
  CHAINS = {0, 1}
  WORD = 65536
  BYTE = 256
  INPUT_FREQUENCY = 1193180
  IRQ0_FREQUENCY = 100
  MAX_SLEEP = 1
  INTS = 256
  NIBBLES = 2
  MAX_ITEMS = 1
  ROOM = 13
  PAGES = 4
  PAGE_SIZE = 64
  ARENA = 8
  MIN_BLOCK = 16
  MEM_DESC_CNT = 2
  Sizes = {57}
  PageCounts = {1}
  Totals <- SmallestSize
  HEAP = 64
  KERNEL_MAX = 4096
  WRAP = 16384
  ENTRIES = 8
  NULL = NULL
  Items = {n1}
  Queues = {q1}
  Heads = {}
SPECIFICATION PromisesSpec
CHECK_DEADLOCK FALSE
INVARIANTS SomePromiseKept
