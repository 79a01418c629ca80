SPECIFICATION Spec
CONSTANTS
  Threads = {t1, t2, t3, t4}
  Main = t1
  Requests = {r1, r2}
  Nothing = Nothing
INVARIANT WaitersExact
PROPERTY RequestsReceived
CHECK_DEADLOCK FALSE
