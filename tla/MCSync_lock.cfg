CONSTANTS
  main = main
  idle = idle
  a = a
  b = b
  l1 = l1
  l2 = l2
  NoThread = NoThread
  Threads <- FourThreads
  Main = main
  Idle = idle
  Priority <- Prio
  SleepTicks = {}
  Locks = {l1, l2}
  MaxRepeat = 2
SYMMETRY Alike
SPECIFICATION SyncSpec
INVARIANTS SyncTypeOK OneQueueEach NoLostWakeup
PROPERTIES ActsAsLock ImplementsThread
