SPECIFICATION FairSpec
CONSTANTS
  Workers = {w1, w2}
  Conns = {c1, c2}
  ConNum = 2
  MaxCalls = 5
  None = None
INVARIANTS TypeOK UsersOutliveTasks DescriptorsAccounted LoopIsReady HandlesAccounted
PROPERTIES ShutdownEnds
CHECK_DEADLOCK FALSE
