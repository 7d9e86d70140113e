SPECIFICATION Spec
CONSTANTS
  p1 = p1
  p2 = p2
  c1 = c1
  c2 = c2
  a = a
  b = b
  NULL = NULL
  Senders <- MCSenders
  Receivers <- MCReceivers
  Messages <- MCMessages
  MaxSent = 2
  MaxSems = 3
  ListItems <- ThreeItems
  MaxLength = 3
CHECK_DEADLOCK FALSE
INVARIANTS
  
  ListIsSequence
  NothingLost
