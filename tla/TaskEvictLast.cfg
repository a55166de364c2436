CONSTANTS
  Tasks = {t1, t2, t3}
  Initial = t1
  NoTask = NoTask
  MaxDepth = 1
  Uses = {"evict last"}
SPECIFICATION Spec
INVARIANTS RunnableIsQueued
CHECK_DEADLOCK FALSE
