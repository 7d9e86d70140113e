SPECIFICATION FairSpec
CONSTANTS
  m1 = m1
  s1 = s1
  s2 = s2
  r1 = r1
  r2 = r2
  Machines = {m1}
  Boxes = {0, 1}
  Senders <- TwoSenders
  Receivers <- TwoReceivers
  home <- Alone
  postalWorker = postalWorker
  NULL = NULL
  MaxSent = 1
CHECK_DEADLOCK FALSE
INVARIANTS
  PostOfficeInv
  MailInOrder
PROPERTIES
  SendReturns
  PacketIsDelivered
