SPECIFICATION MCSpec
CONSTANTS
  t1 = t1  t2 = t2  p1 = p1  p2 = p2  n1 = n1  n2 = n2
  Task = {t1, t2}
  Pic = {p1, p2}
  Name = {n1, n2}
  TagId = {1, 2}
  MaxVersion <- OneIsEdited
  taskMaxRetries = 2
  Requests <- AnyRequest
  NoTag = NoTag
  None = None
CHECK_DEADLOCK FALSE
INVARIANT TagsAgree
PROPERTIES AllAttached TagTasksEnd
