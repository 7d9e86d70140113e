SPECIFICATION FairSpec
CONSTANTS
  a = a
  b = b
  c = c
  main = main
  NULL = NULL
  Procs <- FourProcs
  maxCantProcess = 2
  NumPhysPages = 3
  Sizes = {1, 2}
CHECK_DEADLOCK FALSE

  
  
PROPERTIES
  
  JoinerIsReleased
