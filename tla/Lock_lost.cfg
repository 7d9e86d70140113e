SPECIFICATION LockSpec
CONSTANTS
  main = main
  t1 = t1
  t2 = t2
  s3 = s3
  sem = sem
  semInvP = semInvP
  NULL = NULL
  Main = main
  Threads <- MCThreads
  Sems <- MCSems
  InitialValue <- MCInitialValue
  MaxPriority = 2
  MaxValue = 1
INVARIANTS
  ReadyIsSchedulable
CHECK_DEADLOCK FALSE
