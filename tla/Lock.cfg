SPECIFICATION LockFairSpec
CONSTANTS
  main = main
  t1 = t1
  t2 = t2
  s3 = s3
  sem = sem
  semInvP = semInvP
  NULL = NULL
  Main = main
  Threads <- MCThreads
  Sems <- MCMoreSems
  InitialValue <- MCMoreInitialValue
  MaxPriority = 2
  MaxValue = 1
CHECK_DEADLOCK FALSE
INVARIANTS
  LockInv
PROPERTIES
  ImplementsLock
  FreeLockIsTaken
