SPECIFICATION Spec
CONSTANTS
  c1 = c1
  c2 = c2
  k1 = k1
  k2 = k2
  k3 = k3
  Absent = Absent
  Nul = "0"
  Keys = {k1, k2, k3}
  Values <- MCValues
  Clients = {c1, c2}
  KeysOf <- MCKeysOf
  TestValues <- MCTestValues
  Leftover <- MCLeftover
  TestCount <- MCTestCount
  MsgsPerConnection = 3
  WriteAmount = 1
  MayFail = TRUE
  MayErr = FALSE
  Names = {1, 2, 3}
  Scores <- MCScores
  Fds = {0, 1, 2, 3}
  Ptrs = {p, q}
  Listening = 0
  FD_SETSIZE = 3
  NULL = NULL
SYMMETRY Symmetry
INVARIANT InvJudged
CHECK_DEADLOCK FALSE
