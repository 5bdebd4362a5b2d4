CONSTANTS
  Links = {l1, l2}
  Readers = {r1, r2}
  Limits = {0, 1}
  PurgeLimit = 1
  MaxOpens = 2
  NoLink = nolink
SPECIFICATION FairSpec
CHECK_DEADLOCK FALSE
INVARIANTS ViewsWithinLimit ViewNumberedOnce HandedOutIsOpenable
PROPERTIES ExpiredRowsPurged
