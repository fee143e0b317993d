SPECIFICATION Spec
CONSTANTS
  c1 = c1
  c2 = c2
  c3 = c3
  Clients = {c1}
  Workers = {w1, w2, w3}
  NumFds = 1
  MaxFd = 1
  NumHandles = 2
  BufSize = 3
  SempSize = 2
  MaxRequest = 2
  Script <- Polite
  Size <- MCSize
  Split = FALSE
  Pipelining = FALSE
  MayClose = FALSE
  MayReset = FALSE
  AddFails = TRUE
  NoClient = NoClient
  NUL = NUL
  NoReply = NoReply
INVARIANTS ParsesWholeRequest
CHECK_DEADLOCK FALSE
