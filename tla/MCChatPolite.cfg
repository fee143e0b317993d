SPECIFICATION FairSpec
CONSTANTS
  c1 = c1
  c2 = c2
  c3 = c3
  Clients = {c1, c2, c3}
  Workers = {w1, w2}
  NumFds = 3
  MaxFd = 2
  NumHandles = 1
  BufSize = 4
  SempSize = 2
  MaxRequest = 2
  Script <- Polite
  Size <- MCSize
  Split = FALSE
  Pipelining = FALSE
  MayClose = FALSE
  MayReset = FALSE
  AddFails = TRUE
  NoClient = NoClient
  NUL = NUL
  NoReply = NoReply
INVARIANTS ParsesWholeRequest NoOrphan
PROPERTIES RequestsAnswered
CHECK_DEADLOCK FALSE
