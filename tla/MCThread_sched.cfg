CONSTANTS
  main = main
  idle = idle
  a = a
  Threads <- ThreeThreads
  Main = main
  Idle = idle
  Priority <- Prio
  SleepTicks = {2}
SPECIFICATION FairSpec
INVARIANTS TypeOK BooksAgree NoAssertFails
PROPERTIES ReadyRuns SleepEnds
