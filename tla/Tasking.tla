------------------------------ MODULE Tasking --------------------------------
(***************************************************************************)
(* The preemptive tasks of lib/Standard/tasking.sch, over the dynamic      *)
(* winds of Lib/Common/control.sch, the timer of Lib/Common/timer.sch and  *)
(* the run queue of queue.sch.  One processor runs either the current task *)
(* or the scheduler; what interleaves is decided by the timer.             *)
(*                                                                         *)
(* The timer is a count of ticks: "off" when interrupts are disabled,      *)
(* "fresh" for a full timeslice, which outlasts the scheduler's few calls, *)
(* and "low" for what is left of one, which may run out anywhere.          *)
(***************************************************************************)
EXTENDS QueueOps, FiniteSets

CONSTANTS Tasks, Initial,   \* the tasks, and the one with-tasking starts
          NoTask,
          MaxDepth,         \* nesting of critical sections, a bound
          Uses              \* what programs do beyond the ordinary, a subset
                            \* of the set below

ASSUME TaskingAssumption ==
  /\ Initial \in Tasks /\ NoTask \notin Tasks /\ MaxDepth \in Nat
  /\ Uses \subseteq {"switch in critical", "evict last", "block dead"}

VARIABLES
  state,      \* of each task; "none" before it is spawned
  critical,   \* of each task: to be resumed with interrupts disabled
  kont,       \* of each task: where it goes on, see Kont
  queue,      \* *run-queue*
  all,        \* *all-tasks*
  current,    \* *current-task*
  timer,
  pc,         \* "user" when a task runs its own code, else in the scheduler
  wind,       \* the critical sections entered: was the timer on (old)?
  picked      \* the scheduler's local variable t

taskVars == <<state, critical, kont, queue, all>>
vars     == <<taskVars, current, timer, pc, wind, picked>>

Scheduler == {"idle", "get", "take", "enable", "go"}
(* "failed" is an error signalled with interrupts disabled or by the       *)
(* scheduler itself, "done" the end of with-tasking.                       *)
Places == Scheduler \cup {"user", "done", "failed"}
Timers == {"off", "fresh", "low"}

(* A captured continuation: a place, the critical sections around it, the  *)
(* scheduler's t, and whether tasks/without-interrupts is to turn the      *)
(* timer on again.                                                         *)
Kont(p, w, t, x) == [pc |-> p, wind |-> w, picked |-> t, enable |-> x]

TypeOK ==
  /\ state \in [Tasks -> {"none", "runnable", "running", "blocked", "dead"}]
  /\ critical \in [Tasks -> BOOLEAN]
  /\ kont \in [Tasks -> [pc : Places, wind : Seq(BOOLEAN),
                         picked : Tasks \cup {NoTask}, enable : BOOLEAN]]
  /\ queue \in [items : Seq(Tasks), linked : BOOLEAN]
  /\ all \subseteq Tasks
  /\ current \in Tasks \cup {NoTask} /\ picked \in Tasks \cup {NoTask}
  /\ timer \in Timers /\ pc \in Places /\ wind \in Seq(BOOLEAN)

InterruptsOn == timer # "off"
-----------------------------------------------------------------------------
(* tasks/start-tasking up to the scheduler: the initial task is spawned    *)
(* and the timer has just been given a full timeslice.                     *)
Init ==
  /\ state = [t \in Tasks |-> IF t = Initial THEN "runnable" ELSE "none"]
  /\ critical = [t \in Tasks |-> FALSE]
  /\ kont = [t \in Tasks |-> Kont("user", << >>, NoTask, FALSE)]
  /\ queue = QueuePut(EmptyQueue, Initial)
  /\ all = {Initial}
  /\ current = NoTask /\ picked = NoTask
  /\ timer = "fresh" /\ pc = "idle" /\ wind = << >>

(* tasks/schedule, from a table of states st and a run queue q.            *)
Schedule(t, st, q) ==
  IF st[t] = "dead" THEN pc' = "failed" /\ state' = st /\ queue' = q
  ELSE /\ state' = [st EXCEPT ![t] = "runnable"]
       /\ queue' = QueuePut(q, t)
       /\ UNCHANGED pc

(* Broken variant: interrupts stay as they are until the scheduler runs.   *)
KeepsTimer(w) == timer
(* tasks/switch from the current task to the scheduler.  reroot! leaves    *)
(* the critical sections around the task, and the after thunk of           *)
(* call-without-interrupts turns the timer on if it was on at their entry. *)
Unwound(w) == IF TRUE \in {w[i] : i \in DOMAIN w} THEN "low" ELSE "off"
ToScheduler(k, crit) ==
  /\ kont' = [kont EXCEPT ![current] = k]
  /\ critical' = [critical EXCEPT ![current] = crit]
  /\ pc' = "idle" /\ wind' = << >> /\ timer' = Unwound(k.wind)
  /\ picked' = NoTask /\ UNCHANGED current

Reschedule(k, crit) ==
  IF state[current] = "dead"
    THEN /\ pc' = "failed" /\ timer' = "off"
         /\ UNCHANGED <<taskVars, current, wind, picked>>
    ELSE /\ ToScheduler(k, crit)
         /\ state' = [state EXCEPT ![current] = "runnable"]
         /\ queue' = QueuePut(queue, current)
         /\ UNCHANGED all

(* What block and tasks/end-task do to a task, by the state it is in.      *)
Stop(t, end, k, crit) ==
  /\ state' = [state EXCEPT ![t] = end]
  /\ queue' = IF state[t] = "runnable" THEN QueueRemove(queue, t) ELSE queue
  /\ IF state[t] = "running" THEN ToScheduler(k, crit)
     ELSE UNCHANGED <<critical, kont, current, timer, pc, wind, picked>>

(* The timer runs out and its handler is called with interrupts disabled.  *)
(* The handler returns into the code that was interrupted, without turning *)
(* the timer on itself.                                                    *)
(* Broken variant: the preempted task counts as being in critical code.    *)
PreemptsCritical ==
  /\ timer = "low" \/ (timer = "fresh" /\ pc = "user")
  /\ pc \in Scheduler \cup {"user"}
  /\ Reschedule(Kont(pc, wind, picked, FALSE), TRUE)
TimerInterrupt ==
  /\ timer = "low" \/ (timer = "fresh" /\ pc = "user")
  /\ pc \in Scheduler \cup {"user"}
  /\ Reschedule(Kont(pc, wind, picked, FALSE), FALSE)
-----------------------------------------------------------------------------
(* What the current task can do.  Every operation is in a critical section *)
(* of its own (tasks/without-interrupts).                                  *)
Here == Kont("user", wind, NoTask, InterruptsOn)
MaySwitch == wind = << >> \/ "switch in critical" \in Uses
InCriticalSection == ~InterruptsOn

Enter ==
  /\ pc = "user" /\ Len(wind) < MaxDepth
  /\ wind' = Append(wind, InterruptsOn) /\ timer' = "off"
  /\ UNCHANGED <<taskVars, current, pc, picked>>

Leave ==
  /\ pc = "user" /\ wind # << >>
  /\ wind' = SubSeq(wind, 1, Len(wind) - 1)
  /\ timer' = IF wind[Len(wind)] THEN "low" ELSE timer
  /\ UNCHANGED <<taskVars, current, pc, picked>>

(* spawn: tasks/create-task and tasks/schedule.                            *)
Spawn(t) ==
  /\ pc = "user" /\ state[t] = "none"
  /\ state' = [state EXCEPT ![t] = "runnable"]
  /\ queue' = QueuePut(queue, t)
  /\ all' = all \cup {t}
  /\ UNCHANGED <<critical, kont, current, timer, pc, wind, picked>>

Yield ==
  /\ pc = "user" /\ MaySwitch
  /\ Reschedule(Here, InCriticalSection)

(* queue-remove! on the last of several tasks is kept apart.               *)
MayStop(t) ==
  /\ state[t] = "running" => MaySwitch
  /\ "evict last" \in Uses \/ LET q == queue.items IN
       \A i \in 2 .. Len(q) : q[i] = t => i < Len(q)

Block(t) ==
  /\ pc = "user" /\ state[t] # "none" /\ MayStop(t)
  /\ state[t] = "dead" => "block dead" \in Uses
  /\ Stop(t, "blocked", Here, InCriticalSection)
  /\ UNCHANGED all

(* Broken variant: a task is scheduled whatever its state.                 *)
UnblocksAny(t) ==
  /\ pc = "user" /\ state[t] # "none"
  /\ Schedule(t, state, queue)
  /\ UNCHANGED <<critical, kont, all, current, timer, wind, picked>>
Unblock(t) ==
  /\ pc = "user" /\ state[t] = "blocked"
  /\ Schedule(t, state, queue)
  /\ UNCHANGED <<critical, kont, all, current, timer, wind, picked>>

(* tasks/end-task.                                                         *)
(* Broken variant: the dead task stays on the run queue.                   *)
LeavesQueued(t, k) ==
  /\ pc = "user" /\ MayStop(t)
  /\ state' = [state EXCEPT ![t] = "dead"] /\ UNCHANGED queue
  /\ all' = all \ {t}
  /\ IF state[t] = "running" THEN ToScheduler(k, FALSE)
     ELSE UNCHANGED <<critical, kont, current, timer, pc, wind, picked>>
EndTask(t, k) ==
  /\ pc = "user" /\ MayStop(t)
  /\ Stop(t, "dead", k, FALSE)
  /\ all' = all \ {t}

Kill(t) == state[t] # "none" /\ EndTask(t, Here)

(* The thunk returns, or resets.  When it is resumed nevertheless, it      *)
(* returns from with-tasking.                                              *)
Return == wind = << >> /\ EndTask(current, Kont("done", << >>, NoTask, FALSE))

(* end-tasking, and the after thunk that runs tasks/stop-tasking.          *)
EndTasking ==
  /\ pc' = "done" /\ timer' = "fresh" /\ wind' = << >>
  /\ UNCHANGED <<taskVars, current, picked>>

User ==
  \/ Enter \/ Leave \/ Yield \/ Return
  \/ pc = "user" /\ EndTasking
  \/ \E t \in Tasks : Spawn(t) \/ Block(t) \/ Unblock(t) \/ Kill(t)
-----------------------------------------------------------------------------
(* The scheduler, from *tasking-schedule-k*.  The default poll-handler     *)
(* does nothing; the default idle-handler ends tasking.                    *)
Idle ==
  /\ pc = "idle"
  /\ IF QueueEmpty(queue) THEN EndTasking
     ELSE pc' = "get" /\ UNCHANGED <<taskVars, current, timer, wind, picked>>

(* Broken variant: the cell is taken for the task in it.                   *)
PicksCell ==
  /\ pc = "get" /\ ~QueueEmpty(queue)
  /\ picked' = queue.items /\ queue' = QueueGet(queue) /\ pc' = "take"
  /\ UNCHANGED <<state, critical, kont, all, current, timer, wind>>
(* The assertion of queue-get! fails on an empty queue.                    *)
Get ==
  /\ pc = "get"
  /\ IF QueueEmpty(queue)
       THEN pc' = "failed" /\ UNCHANGED <<queue, picked>>
       ELSE /\ picked' = Head(queue.items) /\ queue' = QueueGet(queue)
            /\ pc' = "take"
  /\ UNCHANGED <<state, critical, kont, all, current, timer, wind>>

Take ==
  /\ pc = "take" /\ pc' = "enable"
  /\ current' = picked
  /\ state' = [state EXCEPT ![picked] = "running"]
  /\ UNCHANGED <<critical, kont, queue, all, timer, wind, picked>>

Enable ==
  /\ pc = "enable" /\ pc' = "go"
  /\ timer' = IF critical[picked] THEN "off" ELSE "fresh"
  /\ critical' = [critical EXCEPT ![picked] = FALSE]
  /\ UNCHANGED <<state, kont, queue, all, current, wind, picked>>

(* ((task-k t)).  reroot! enters the critical sections again, itself with  *)
(* interrupts disabled: their old is now #f.                               *)
Go ==
  LET k == kont[picked] IN
  /\ pc = "go" /\ pc' = k.pc
  /\ wind' = [i \in DOMAIN k.wind |-> FALSE]
  /\ timer' = IF k.enable THEN "low" ELSE timer
  /\ picked' = k.picked
  /\ UNCHANGED <<taskVars, current>>

Dispatch == Idle \/ Get \/ Take \/ Enable \/ Go

Next == User \/ TimerInterrupt \/ Dispatch

Spec == Init /\ [][Next]_vars

(* The processor goes on, the ticks left to a task run out however often   *)
(* the count is suspended, and critical sections come to an end, also one  *)
(* that enters others again and again.                                     *)
FairSpec ==
  /\ Spec /\ WF_vars(Dispatch) /\ SF_vars(TimerInterrupt)
  /\ WF_vars(Leave) /\ SF_vars(Len(wind) = 1 /\ Leave)
-----------------------------------------------------------------------------
(* "runnable -- on run queue": a runnable task will get its turn.  The     *)
(* queue, its tail and the states change in block, unblock, tasks/end-task *)
(* and tasks/switch, and no single one of them looks at all of it.         *)
OnRunQueue(t) == \E i \in DOMAIN queue.items : queue.items[i] = t
BeingPicked(t) == pc = "take" /\ picked = t
RunnableIsQueued ==
  \A t \in Tasks : state[t] = "runnable" => OnRunQueue(t) \/ BeingPicked(t)

(* The invariants listed in tasking.sch between the calls of the           *)
(* scheduler: the queue holds every runnable task once and no other, the   *)
(* current task runs and is not queued, dead tasks are not in *all-tasks*. *)
TaskInvariants ==
  /\ RunnableIsQueued
  /\ \A i \in DOMAIN queue.items : state[queue.items[i]] = "runnable"
  /\ \A i, j \in DOMAIN queue.items : queue.items[i] = queue.items[j] => i = j
  /\ \A t \in Tasks : state[t] = "running" => t = current /\ pc # "idle"
  /\ pc = "user" => state[current] = "running"
  /\ all = {t \in Tasks : state[t] \notin {"none", "dead"}}

(* "Scheduler.  Call only with interrupts turned off": no timer interrupt  *)
(* strikes inside the scheduler, where the current task is another one     *)
(* than the one that is about to run.                                      *)
SchedulerNotInterrupted == pc \in Scheduler => timer # "low"

(* "It's vital that errors are never signalled here without interrupts     *)
(* being turned on first": the assertions of queue-get! and tasks/schedule *)
(* hold in the scheduler and in the timer's handler.                       *)
NoSchedulerError == pc # "failed"

(* call-without-interrupts disables timer interrupts "in its dynamic       *)
(* extent", and only there: a task is preemptable exactly while it is      *)
(* outside all critical sections, whatever switches happened meanwhile.    *)
PreemptableOutside == (pc = "user" /\ wind = << >>) => InterruptsOn
InterruptsFollowWinds ==
  /\ PreemptableOutside
  /\ (pc = "user" /\ wind # << >>) => ~InterruptsOn

(* "dead -- exited or was killed": no operation brings a task back.        *)
DeadStayDead == [][\A t \in Tasks : state[t] = "dead" => state'[t] = "dead"]_vars

(* Every runnable task gets a turn, or is taken off the queue by another   *)
(* task, or tasking ends: the queue is first in, first out, and the timer  *)
(* takes the processor from a task that does not give it up.               *)
EveryTaskRuns ==
  \A t \in Tasks : state[t] = "runnable" ~> (state[t] # "runnable" \/ pc = "done")
=============================================================================
