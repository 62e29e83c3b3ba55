SPECIFICATION FairSpec
CONSTANTS
  t1 = t1  t2 = t2  s1 = s1  s2 = s2  c1 = c1  c2 = c2
  Task = {t1, t2}
  Server = {s1, s2}
  Host <- Apart
  Content = {c1}
  Video = {}
  PicId = {1, 2}
  MaxIndex = 1
  Temporaries = {TRUE, FALSE}
  Faults = {"cancel", "rename", "convert"}
  NoFile = NoFile  NoPic = NoPic  None = None
INVARIANTS OnePicPerContent
PROPERTIES LifecycleKept TasksEnd
