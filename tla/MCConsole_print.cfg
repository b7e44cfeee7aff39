CONSTANTS
  main = main
  idle = idle
  a = a
  lock = lock
  NoThread = NoThread
  Threads <- ThreeThreads
  Main = main
  Idle = idle
  Priority <- Prio
  SleepTicks = {}
  Locks = {lock}
  MaxRepeat = 1
  console_lock = lock
  ROWS = 2
  COLS = 4
  BYTE = 6
  LIMIT = 12
  Strings <- Text
  IdleString <- IdleText
  Typed = {"b", "c", "0"}
  Starts = {0, 6, 7}
  MaxPuts = 3
SPECIFICATION ConsoleSpec
INVARIANTS LockersTakeTurns FaultNeedsSplit
PROPERTIES ActsAsTerminal
CHECK_DEADLOCK FALSE
