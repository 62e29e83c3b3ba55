SPECIFICATION Spec
CONSTANTS
  t1 = t1
  t2 = t2
  s1 = s1
  s2 = s2
  c1 = c1
  c2 = c2
  Task = {t1, t2}
  Server = {s1}
  Host <- Together
  Content = {c1}
  Video = {c1}
  PicId = {1}
  MaxIndex = 1
  Temporaries = {FALSE}
  Faults = {}
  NoFile = NoFile
  NoPic = NoPic
  None = None
INVARIANTS NothingLeftBehind
