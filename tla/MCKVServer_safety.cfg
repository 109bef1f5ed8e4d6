SPECIFICATION Spec
CONSTANTS
  t1 = t1  t2 = t2  c1 = c1  c2 = c2  k1 = k1  v1 = v1  v2 = v2
  Threads = {t1, t2}
  Conns = {c1, c2}
  Keys = {k1}
  Values = {v1, v2}
  Absent = Absent
  Requests <- SafetyRequests
  MsgLen = 2
  RcvCap = 2
  SndCap = 3
  MaxReqs = 2
  MaxFlow = 1
  PoolSize = 2
  Faults = {"fin", "rst"}
  OtherErrors = TRUE
  Listener = Listener
INVARIANTS TypeOK InvBatch InvFraming InvStreams
PROPERTIES CloseIsAnswered Implements
CHECK_DEADLOCK FALSE
SYMMETRY Symmetry
