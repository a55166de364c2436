SPECIFICATION FairParts
CONSTANTS
  Parts = {"tasking", "mutex", "barrier", "stack", "interrupts"}
  Tasks = {t1, t2, t3}
  Initial = t1
  NoTask = NoTask
  MaxDepth = 2
  Uses = {}
  QuickScheduler = FALSE
  Mutexes = {m1}
  NoMutex = NoMutex
  MaxCount = 2
  MaxBlocked = 3
  Parties = 3
  Procs = {p1, p2}
  Points = {1}
  Sizes = {1}
  Movable = {p2}
  CalloutHandler = p1
  CalloutSize = 2
  UnderflowSize = 1
  SceBuffer = 1
  NurserySize = 7
  MaxTime = 3
  MaxFrames = 3
  CDepth = 3
  TimerStep = 2
  Fuel = 1
  AdHoc = 3
INVARIANTS TasksInOrder SchedulerHasNoError TimerFollowsWinds OneOwner NoLostWakeup BarrierHolds BarrierOpens StackKept InterruptsHandled
PROPERTIES TasksGetTheirTurn SaveFinishes
CHECK_DEADLOCK FALSE
