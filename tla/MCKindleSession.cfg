SPECIFICATION PartsFairSpec
CONSTANTS
  MaxTid = 2
  MaxRequests = 3
  MaxNoise = 1
  Books = {b1, b2}
  NoBook = NoBook
  Tasks = {t1, t2, t3}
  Tabs = {tab1, tab2}
  Workers = {w1, w2, w3}
  MaxAttempts = 2
  PoolSize = 1
INVARIANTS
  SessionIsTrue
  CoversReadAlone
  FreeSlotsAreIdle
PROPERTIES
  EveryRequestSettles
  LeaseComesBack
  OperationsAreOrderly
  OperationsEnd
  EveryTaskSettles
CHECK_DEADLOCK FALSE
