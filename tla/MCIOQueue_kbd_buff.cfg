CONSTANTS
  main = main
  idle = idle
  a = a
  b = b
  lock = lock
  NoThread = NoThread
  Threads <- ThreeThreads
  Main = main
  Idle = idle
  Priority <- Prio
  SleepTicks = {}
  Locks = {lock}
  MaxRepeat = 1
  QUEUE_BUFF_SIZE = 3
  Chars = {1, 2}
  Consumers = {a}
  Producers = {main}
  ioq_lock = lock
  Initialised = FALSE
  Keys = {1, 2}
SPECIFICATION FairIOSpec
PROPERTIES GetReturns
