SPECIFICATION FairSpec
CONSTANTS
  c1 = c1  c2 = c2
  Conns = {c1, c2}
  MsgSize = 2
  ReadMax = 3
  SndCap = 3
  MaxMsgs = 2
  Window = 2
  Fragments = {c1}
  EarlyClose = {c1}
  MayFail = TRUE
INVARIANTS TypeOK InvSubscribed InvAnswers
PROPERTIES ErrorIsFinal AnsweredUnlessCut Deleted
CHECK_DEADLOCK FALSE
