SPECIFICATION FairSpec
CONSTANTS
  Threads = {t1, t2, t3}
  Values = {v1, v2}
  Counts <- MCCounts
  NoThread = NoThread
  MaxLen = 2
INVARIANTS TypeOK SemCountsElements PopBFindsElement
PROPERTIES ImplementsFifo LockReleased
CHECK_DEADLOCK FALSE
