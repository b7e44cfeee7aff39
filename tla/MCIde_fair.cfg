CONSTANTS
  main = main
  idle = idle
  a = a
  NoThread = NoThread
  channel = channel
  Threads <- ThreeThreads
  Main = main
  Idle = idle
  Priority <- Prio
  SleepTicks = {1}
  Locks = {channel}
  MaxRepeat = 1
  Disks = {0}
  Requests <- Reads
  Tables = {0}
  CHUNK = 2
  LOW = 8
  Gaps = FALSE
  MAX_POLLS = 2
SPECIFICATION FairIdeSpec
INVARIANTS ReadsOwnSectors
PROPERTIES RequestsServed
CHECK_DEADLOCK FALSE
