SPECIFICATION FairSpec
CONSTANTS
  t1 = t1  t2 = t2  c1 = c1  c2 = c2  k1 = k1  v1 = v1  v2 = v2
  Threads = {t1}
  Conns = {c1, c2}
  Keys = {k1}
  Values = {v1, v2}
  Absent = Absent
  Requests <- LiveRequests
  MsgLen = 2
  RcvCap = 3
  SndCap = 3
  MaxReqs = 2
  MaxFlow = 2
  PoolSize = 2
  Faults = {}
  OtherErrors = FALSE
  Listener = Listener
PROPERTIES Answered Accepted ClosedOnRequest
CHECK_DEADLOCK FALSE
