SPECIFICATION Spec
CONSTANTS
  Workers = {w1, w2}
  Producers = {p1}
  Reader = Reader
  Jobs = {j1, j2, j3}
  None = None
  PipeCap = 1
  MaxSpurious = 0
  MayFail = FALSE
  MayStop = FALSE
PROPERTY Delivered
CHECK_DEADLOCK FALSE
