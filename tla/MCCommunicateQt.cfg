SPECIFICATION FairSpec
CONSTANTS
  c1 = c1
  c2 = c2
  Clients = {c1, c2}
  Rude = {c2}
  NumFds = 2
  BufSize = 3
  ReplyRoom = 2
  Script <- MCScript
  NoClient = NoClient
INVARIANTS TypeOK OwnConnection NoneLeftOpen LineByLine
PROPERTIES Served
CHECK_DEADLOCK FALSE
