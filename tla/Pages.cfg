SPECIFICATION Spec
CONSTANTS
  i1 = i1
  i2 = i2
  t1 = t1
  k1 = k1
  p1 = p1
  p2 = p2
  d1 = d1
  d2 = d2
  f1 = f1
  b1 = b1
  b2 = b2
  r1 = r1
  r2 = r2
  v1 = v1
  v2 = v2
  None = None
CHECK_DEADLOCK FALSE
INVARIANTS   ActsOncePerPress ReadsArePaid
 
