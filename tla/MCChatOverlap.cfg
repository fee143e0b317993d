SPECIFICATION Spec
CONSTANTS
  c1 = c1
  c2 = c2
  c3 = c3
  Clients = {c1, c2}
  Workers = {w1, w2}
  NumFds = 2
  MaxFd = 2
  NumHandles = 2
  BufSize = 3
  SempSize = 2
  MaxRequest = 1
  Script <- Hostile
  Size <- MCSize
  Split = TRUE
  Pipelining = TRUE
  MayClose = TRUE
  MayReset = TRUE
  AddFails = TRUE
  NoClient = NoClient
  NUL = NUL
  NoReply = NoReply
INVARIANTS TypeOK ExclusiveOwner HandlesConserved ReadFits RepliesMatch
PROPERTIES NobodyAbandoned
CHECK_DEADLOCK FALSE
