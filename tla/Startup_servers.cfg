SPECIFICATION MCSpec
CONSTANTS
  f1 = f1
  f2 = f2
  Field = {f1, f2}
  Loader = {l1, l2}
  Request = {q1, q2}
  FeRequest = {w1}
  HttpRequest = {r1, r2, r3}
  Override <- Overrides
  Default <- Defaults
  Unset = Unset
  MaxStarts = 2
  None = None
CHECK_DEADLOCK FALSE
INVARIANTS ClosedOnce WakesToValue
PROPERTIES ConfigRequestsEnd ServersStartAndEnd FailuresEndTheProcess
