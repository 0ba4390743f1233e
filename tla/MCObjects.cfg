SPECIFICATION MCSpec
CONSTANTS
  m1 = m1  m2 = m2  o1 = o1
  i1 = i1  i2 = i2  s3 = s3  k3 = k3  b1 = b1  Keep = Keep  Drop = Drop
  x1 = x1  x2 = x2  x3 = x3  rootmem = rootmem
  c1 = c1  c2 = c2  v1 = v1  v2 = v2
  r1 = r1  r2 = r2  t1 = t1  l1 = l1  l2 = l2  f1 = f1  f2 = f2
  NumPlaces = 3  Roots = {r1, r2}  Nothing = Nothing  Kernel = Kernel  None = None
SYMMETRY MCSymmetry
CHECK_DEADLOCK FALSE
INVARIANTS LookupExact SignalsAnnounced HeapIntact MappingsBacked MmapExact FreeListExact NoFreedTable
PROPERTY SourceMaskPaired
