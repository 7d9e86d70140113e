SPECIFICATION FairSpec
CONSTANTS
  main = main
  t1 = t1
  t2 = t2
  s1 = s1
  s2 = s2
  NULL = NULL
  Main = main
  Threads <- MCThreads
  Sems <- MCSems
  InitialValue <- MCInitialValue
  MaxPriority = 2
  MaxValue = 2
CHECK_DEADLOCK FALSE
INVARIANTS
  KernelInv
  DestroyedIsUnreachable
PROPERTIES
  
  ReadyRuns
  UnitsAreTaken
