CONSTANTS
  Tasks = {t1, t2, t3}
  Initial = t1
  NoTask = NoTask
  MaxDepth = 1
  Uses = {}
  Mutexes = {m1}
  NoMutex = NoMutex
  MaxCount = 2
  MaxBlocked = 3
  QuickScheduler = FALSE
SPECIFICATION MutexSpec
INVARIANTS WaitersKeepTheirPlace
CHECK_DEADLOCK FALSE
