SPECIFICATION FairSpec
CONSTANTS
  t1 = t1  t2 = t2  t3 = t3  s1 = s1  s2 = s2  None = None
  Thread = {t1, t2, t3}
  Server = {s1, s2}
  Host <- HostsApart
  LowWater = 2
  HighWater = 3
  MaxId = 6
  MaxAllocs = 2
  LockWaitTimeout = TRUE
INVARIANTS TypeOK CachedIdsAreFree
PROPERTIES IdsUsedOnce CallsReturn
