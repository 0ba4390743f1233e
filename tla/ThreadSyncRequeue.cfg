SPECIFICATION SpecRequeue
CONSTANTS
  a1 = a1
  a2 = a2
  q1 = q1
  q2 = q2
  Threads = {t1, t2, t3}
  Addrs = {a1, a2}
  Queues = {q1, q2}
  Hash <- MCHash
  Requeues <- MCRequeues
  Waiters = {t1, t2}
  Wakers = {t2, t3}
  Others = {t1}
  Exiting = {t3}
  QueueHead = QueueHead
  Nil = Nil
  Removed = Removed
  None = None
CHECK_DEADLOCK FALSE
INVARIANT ElementRemoved
