CONSTANTS
  main = main
  idle = idle
  a = a
  b = b
  lock = lock
  NoThread = NoThread
  Threads <- ThreeThreads
  Main = main
  Idle = idle
  Priority <- Prio
  SleepTicks = {}
  Locks = {lock}
  MaxRepeat = 1
  QUEUE_BUFF_SIZE = 3
  Chars = {1}
  Consumers = {main, a}
  Producers = {main}
  ioq_lock = lock
  Initialised = TRUE
  Keys = {1}
SPECIFICATION FairIOSpec
PROPERTIES OneWaitPromiseKept
