CONSTANTS
  main = main
  idle = idle
  a = a
  b = b
  lock = lock
  NoThread = NoThread
  Threads <- FourThreads
  Main = main
  Idle = idle
  Priority <- Prio
  SleepTicks = {}
  Locks = {lock}
  MaxRepeat = 1
  QUEUE_BUFF_SIZE = 3
  Chars = {1, 2}
  Consumers = {main, a}
  Producers = {b}
  ioq_lock = lock
  Initialised = TRUE
  Keys = {1}
SPECIFICATION IOSpec
INVARIANTS NoAssertFails SleeperRegistered
PROPERTIES ActsAsFifo
