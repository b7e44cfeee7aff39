CONSTANTS
  main = main
  idle = idle
  a = a
  NoThread = NoThread
  channel = channel
  Threads <- TwoThreads
  Main = main
  Idle = idle
  Priority <- Prio
  SleepTicks = {1}
  Locks = {channel}
  MaxRepeat = 1
  Disks = {0}
  Requests <- CrossingCalls
  Tables = {0}
  CHUNK = 2
  LOW = 4
  Gaps = TRUE
  MAX_POLLS = 2
SPECIFICATION FairIdeSpec
PROPERTIES OneDiskPromiseKept
CHECK_DEADLOCK FALSE
