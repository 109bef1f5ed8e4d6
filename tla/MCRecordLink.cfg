SPECIFICATION Spec
CONSTANTS
  Char <- Bytes
  InitSize = 3
  SmallSize = 5
  BigSize = 6
  HeaderRoom = 2
  Packets <- TestPackets
  MaxPacketSize = 10
  WireCap = 3
  MaxSent = 3
  MayClose = TRUE
INVARIANTS TypeOK InvRoom InvPackets InvEnd
PROPERTY Delivered
CHECK_DEADLOCK FALSE
