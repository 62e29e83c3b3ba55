SPECIFICATION Spec
CONSTANTS
  t1 = t1
  t2 = t2
  s1 = s1
  s2 = s2
  c1 = c1
  c2 = c2
  Task = {t1, t2}
  Server = {s1, s2}
  Host <- Apart
  Content = {c1, c2}
  Video = {c1}
  PicId = {1, 2}
  MaxIndex = 1
  Temporaries = {FALSE}
  Faults = {"crash", "commit", "rename", "remove"}
  NoFile = NoFile
  NoPic = NoPic
  None = None
INVARIANTS  LivePicsHaveFiles 
