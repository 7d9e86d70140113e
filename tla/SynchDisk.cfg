SPECIFICATION SynchDiskFairSpec
CONSTANTS
  t1 = t1
  t2 = t2
  t3 = t3
  a = a
  b = b
  NULL = NULL
  Threads <- ThreeThreads
  Sectors = {0, 1}
  Data <- TwoData
INVARIANTS
  SynchDiskInv
  DiskIsIdle
PROPERTIES
  DiskIsServed
