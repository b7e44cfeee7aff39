CONSTANTS
  main = main
  idle = idle
  a = a
  NoThread = NoThread
  channel = channel
  Threads <- ThreeThreads
  Main = main
  Idle = idle
  Priority <- Prio
  SleepTicks = {1}
  Locks = {channel}
  MaxRepeat = 1
  Disks = {0, 1}
  Requests <- Calls
  Tables = {0, 9}
  CHUNK = 2
  LOW = 8
  Gaps = TRUE
  MAX_POLLS = 2
SPECIFICATION IdeSpec
INVARIANTS ReadsOwnSectors OneWakeupEach ReadStopsNeedFault BootNeverSleeps
CHECK_DEADLOCK FALSE
