SPECIFICATION FairSpec
CONSTANTS
  mem = mem
  obj = obj
  dev = dev
  root = root
  a = a
  b = b
  c = c
  d = d
  t1 = t1
  t2 = t2
  Objects = {mem, obj, dev}
  Guarded = {dev}
  Addr <- MCAddr
  Threads = {t1, t2}
  Entries = {root, a, b, c, d}
  Root = root
  RootObject = mem
  Null = Null
  Scenarios <- MCMapNeighbour
  MaxOps = 3
CHECK_DEADLOCK FALSE
PROPERTY Returns
