SPECIFICATION Spec
CONSTANTS
  Pids = {i1, i2}
  Loggers = {i1, i2}
  MaxCommands = 3
  Threads = {t1, t2}
  RotateSize = 1
  Lengths = {2}
  OldSize = 1
  MaxMessages = 2
  MaxTime = 1
  LogIoFails = TRUE
INVARIANTS TypeOK InvOneServer InvLog InvOpen
PROPERTY Ends
CHECK_DEADLOCK FALSE
