SPECIFICATION FairSpec
CONSTANTS
  Workers = {w1, w2, w3}
  MaxRequest = 2
  States <- MCStates
  Registered <- MCRegistered
  MaxTasks = 3
INVARIANTS TypeOK SemCountsTasks
PROPERTIES ShutdownCompletes ImplementsService
CHECK_DEADLOCK FALSE
