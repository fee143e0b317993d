SPECIFICATION FairSpec
CONSTANTS
  c1 = c1
  c2 = c2
  c3 = c3
  Clients = {c1, c2}
  Workers = {w1}
  NumFds = 2
  MaxFd = 2
  NumHandles = 1
  BufSize = 3
  SempSize = 2
  MaxRequest = 2
  Script <- Polite
  Size <- MCSize
  Split = FALSE
  Pipelining = FALSE
  MayClose = TRUE
  MayReset = FALSE
  AddFails = TRUE
  NoClient = NoClient
  NUL = NUL
  NoReply = NoReply
PROPERTIES RequestsAnswered
CHECK_DEADLOCK FALSE
