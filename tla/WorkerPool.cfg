SPECIFICATION Spec
CONSTANTS
  Workers = {w1, w2}
  Producers = {p1, p2}
  Reader = Reader
  Jobs = {j1, j2}
  None = None
  PipeCap = 1
  MaxSpurious = 1
  MayFail = TRUE
  MayStop = TRUE
INVARIANTS TypeOK InvBytes InvWake
PROPERTIES Implements Delivered
CHECK_DEADLOCK FALSE
