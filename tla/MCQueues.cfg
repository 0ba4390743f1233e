SPECIFICATION MCSpec
CONSTANTS
  Threads = {0, 1, 2}
  MaxID = 7
  INVALID_THREAD_ID = 5
  t1 = t1  t2 = t2  t3 = t3  None = None
  w1 = w1  w2 = w2  e1 = e1  e2 = e2  d1 = d1  d2 = d2
CHECK_DEADLOCK FALSE
INVARIANTS MutualExclusion SingleOwner SectionWithinCall StreamsInOrder PortalProtocol
PROPERTIES ImplementsFifoLock ImplementsDelegationQueue CallsReturn MessagesLogged RepliesArrive
