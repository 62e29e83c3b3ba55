SPECIFICATION MCSpec
CONSTANTS
  u1 = u1  u2 = u2  t1 = t1  t2 = t2  r1 = r1  r2 = r2  s1 = s1  s2 = s2  i1 = i1
  p1 = p1  p2 = p2  n1 = n1  n2 = n2  c1 = c1  c2 = c2  e1 = e1
  Anon = Anon  Bad = Bad  Nobody = Nobody  None = None
  User = {u1, u2}
  Tab = {t1, t2}
  UserOf <- MCUserOf
  CapName <- MCCaps
  StartCaps <- MCStartCaps
  MaxVersion = 2
CHECK_DEADLOCK FALSE
INVARIANT UpgradeFindsItStale
