----------------------------- MODULE MCControl ------------------------------
(***************************************************************************)
(* Small instances of the parts that pass control: tasks, the mutexes and  *)
(* the barriers over them, the stack cache and interrupts.  A behaviour is *)
(* one of the part named by which.                                         *)
(***************************************************************************)
EXTENDS Mutex, Barrier

CONSTANTS Parts,     \* the parts to run
          Procs, Points, Sizes, Movable, CalloutHandler, CalloutSize, UnderflowSize, SceBuffer, NurserySize,
          MaxTime, MaxFrames, CDepth, TimerStep, Fuel, AdHoc

VARIABLES which, v1, v2, v3, v4, v5, v6, v7, v8, v9, v10, v11, v12, v13, v14, v15, v16, v17

ST == INSTANCE StackCacheProofs WITH Handler <- CalloutHandler,
  cache <- v1, wanted <- v2, control <- v3, captured <- v4, kont <- v5, capturedKont <- v6
NT == INSTANCE InterruptsProofs WITH Platform <- "fence", Callbacks <- FALSE, MaxDepth <- CDepth,
  timer <- v1, timer2 <- v2, enabled <- v3, signal <- v4, sigint <- v5,
  fpe <- v6, control <- v7, result <- v8, frames <- v9, todo <- v10,
  k <- v11, cstack <- v12, syscall <- v13, loop <- v14, owed <- v15,
  left <- v16, returned <- v17

ASSUME Parts \subseteq {"tasking", "mutex", "barrier", "stack", "interrupts"}
ASSUME StackAssumption == ST!StackCacheAssumption
ASSUME TimersAssumption == NT!InterruptsAssumption

(* A part uses the first of the variables v and leaves the others, and     *)
(* those of the modules above, alone.                                      *)
Unused7 == v7 = 0 /\ v8 = 0 /\ v9 = 0 /\ v10 = 0 /\ v11 = 0 /\ v12 = 0 /\ v13 = 0 /\ v14 = 0 /\ v15 = 0 /\ v16 = 0 /\ v17 = 0
Unused1 == v1 = 0 /\ v2 = 0 /\ v3 = 0 /\ v4 = 0 /\ v5 = 0 /\ v6 = 0 /\ Unused7
Rest7 == <<v7, v8, v9, v10, v11, v12, v13, v14, v15, v16, v17>>
Rest1 == <<v1, v2, v3, v4, v5, v6, Rest7>>
taskingVars == <<vars, mutexVars, barrierVars>>
AllVars == <<which, taskingVars, Rest1>>

PartsInit ==
  /\ which \in Parts /\ MutexInit /\ BarrierInit
  /\ \/ which \in {"tasking", "mutex", "barrier"} /\ Unused1
     \/ which = "stack" /\ ST!Init /\ Unused7
     \/ which = "interrupts" /\ NT!Init

PartsNext ==
  /\ UNCHANGED which
  /\ \/ which = "tasking" /\ Next /\ UNCHANGED <<mutexVars, barrierVars, Rest1>>
     \/ which = "mutex" /\ MutexNext /\ UNCHANGED <<barrierVars, Rest1>>
     \/ which = "barrier" /\ BarrierNext /\ UNCHANGED <<mutexVars, Rest1>>
     \/ which = "stack" /\ ST!Next /\ UNCHANGED <<taskingVars, Rest7>>
     \/ which = "interrupts" /\ NT!Next /\ UNCHANGED <<taskingVars>>

PartsSpec == PartsInit /\ [][PartsNext]_AllVars
-----------------------------------------------------------------------------
(* Compiled code repeats the test of save until it has its frame, the      *)
(* scheduler goes on, the ticks left to a task run out, and critical       *)
(* sections come to an end.                                                *)
Pushes == which = "stack" /\ (ST!PushFrame \/ ST!StackOverflow)
OfTask(A) == which = "tasking" /\ A /\ UNCHANGED <<which, mutexVars, barrierVars, Rest1>>
FairParts ==
  /\ PartsSpec /\ WF_AllVars(Pushes /\ UNCHANGED <<which, taskingVars, Rest7>>)
  /\ WF_AllVars(OfTask(Dispatch)) /\ SF_AllVars(OfTask(TimerInterrupt))
  /\ WF_AllVars(OfTask(Leave)) /\ SF_AllVars(OfTask(Len(wind) = 1 /\ Leave))

(* Tasks that switch only outside of critical sections, which mutexes and  *)
(* barriers do not: the invariants listed in tasking.sch hold, and neither *)
(* the scheduler nor the timer's handler signals an error.                 *)
TasksInOrder == which = "tasking" => TaskInvariants
SchedulerHasNoError == which = "tasking" => NoSchedulerError

(* While no task is switched out inside a critical section, which mutexes  *)
(* and barriers do, tasks are preemptable exactly outside of them          *)
(* (call-without-interrupts), and the scheduler runs with interrupts off.  *)
TimerFollowsWinds ==
  which = "tasking" => InterruptsFollowWinds /\ SchedulerNotInterrupted

(* Whatever is flushed, restored, captured, reinstated and moved, the      *)
(* frames of the stack cache are laid out in its space and, with those in  *)
(* the heap, are the continuation that the program built (stack.c).        *)
StackKept == which = "stack" => ST!StackSound

(* An interrupt is handled, or due, unless it comes while check_signals is *)
(* about to clear its flag; code resumes with what it was interrupted      *)
(* with, the timer counts what it was given, and a longjmp has its target  *)
(* (fence-millicode.c, millicode.c, callback.c, signals.c).                *)
InterruptsHandled == which = "interrupts" => NT!InterruptsSound

(* A procedure that asks for a frame gets it (nursery.c 298-300 says that  *)
(* it would loop forever if the frame were larger than the nursery).       *)
FrameWanted == which = "stack" /\ v2 # ST!None
SaveFinishes == which = "stack" => (FrameWanted ~> ~FrameWanted)

(* Every runnable task gets a turn, or is taken off the queue by another   *)
(* task, or tasking ends.                                                  *)
WantsTurn(t) == state[t] = "runnable" /\ pc # "done"
TasksGetTheirTurn ==
  which = "tasking" => \A t \in Tasks : (WantsTurn(t) ~> ~WantsTurn(t))
=============================================================================
