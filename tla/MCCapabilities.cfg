SPECIFICATION MCSpec
CONSTANTS
  mem = mem  obj = obj  map = map  p1 = p1  p2 = p2  dev = dev
  root = root  a = a  b = b  c = c  d = d  t1 = t1  t2 = t2  Null = Null
  NumPlaces = 3
  Objects = {mem, obj, map, p1, p2}
  Portals = {p1, p2}
  Memory <- MCMemory
  Contents <- MCContents
  Roots <- MCRoots
  Users = {obj}
  MaxPending = 1
  MaxSends = 2
  None = None
CHECK_DEADLOCK FALSE
INVARIANTS NoUseAfterFree MemoryNested RevokeComplete ListIntact ObjectLifetime AssertionsHold
PROPERTIES DeletionCompletes OperationsReturn
