SPECIFICATION FairSpec
CONSTANTS
  Threads = {t1, t2, t3}
  Values = {v1, v2}
  NoValue = NoValue
  MaxSize = 2
INVARIANTS TypeOK RingConsistent NobodySleepsOnElements
PROPERTIES ImplementsBoundedQueue
