SPECIFICATION Spec
CONSTANTS
  CoreLimit = 2
  Main = Main
  MayFail = TRUE
  MaxSigints = 2
  MaxPackets = 1
INVARIANTS TypeOK InvStore InvDone InvCounts
PROPERTY Stops
