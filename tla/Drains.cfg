SPECIFICATION Spec
CONSTANTS
  m1 = m1
  m2 = m2
  a1 = a1
  Sweeper = sweeper
  r1 = r1
  w1 = w1
  w2 = w2
  d1 = d1
  None = None
CHECK_DEADLOCK FALSE
INVARIANTS FolderAgrees DeletedIsGone
PROPERTIES ExpiredArePurged QueueDrains
