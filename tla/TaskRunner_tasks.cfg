SPECIFICATION MCSpec
CONSTANTS
  t1 = t1  t2 = t2  r1 = r1  r2 = r2  None = None
  Task = {t1, t2}
  Row = {r1, r2}
  MaxConns = 2
  taskMaxRetries = 3
  HighWater = 2
INVARIANTS IdleHoldsNothing
PROPERTIES  TasksEnd
