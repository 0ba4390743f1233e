SPECIFICATION MCSpec
CONSTANTS
  p1 = p1  p2 = p2  p3 = p3  m1 = m1  m2 = m2
  t1 = t1  t2 = t2  t3 = t3
  a1 = a1  a2 = a2  q1 = q1
  QueueHead = QueueHead  Nil = Nil  Removed = Removed
  Places = {p1, p2}
  Tasks = {t1, t2}
  None = None
CHECK_DEADLOCK FALSE
INVARIANTS NoLostWakeup KernelOwnsQueues MonitorExclusive DeleteOnlyIdle FutexWakesUp
PROPERTIES TasksEventuallyRun RequestsServed SyncReturns
