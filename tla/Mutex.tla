-------------------------------- MODULE Mutex ---------------------------------
(***************************************************************************)
(* The mutexes of lib/Standard/mutex.sch over the tasks of module Tasking. *)
(* Acquiring and releasing are critical sections (without-interrupts); an  *)
(* acquire that finds the mutex held blocks its task inside that section,  *)
(* in a loop it goes on with when it is unblocked.                         *)
(***************************************************************************)
EXTENDS TaskBlocking

CONSTANTS Mutexes, NoMutex,
          MaxCount,    \* acquires by one task, a bound
          MaxBlocked   \* entries of a mutex's list, a bound

MutexAssumption ==
  /\ NoMutex \notin Mutexes /\ MaxCount \in Nat \ {0} /\ MaxBlocked \in Nat

VARIABLES
  held, count, blocked,   \* the fields of each mutex; NoTask is #f
  loop,                   \* of each task: the mutex in whose loop it blocked
  owed                    \* of each task and mutex: acquires minus releases

mutexVars == <<held, count, blocked, loop, owed>>

MutexInit ==
  /\ Init
  /\ held = [m \in Mutexes |-> NoTask] /\ count = [m \in Mutexes |-> 0]
  /\ blocked = [m \in Mutexes |-> << >>]
  /\ loop = [t \in Tasks |-> NoMutex]
  /\ owed = [t \in Tasks |-> [m \in Mutexes |-> 0]]

Running == pc = "user" /\ loop[current] = NoMutex
-----------------------------------------------------------------------------
(* One turn of mutex-acquire's loop, under the winds w.                    *)
(* Broken variant: a task that waited takes the mutex when it wakes up.    *)
Hold(m, n, w) ==
  /\ held' = [held EXCEPT ![m] = current]
  /\ count' = [count EXCEPT ![m] = n]
  /\ loop' = [loop EXCEPT ![current] = NoMutex]
  /\ owed' = [owed EXCEPT ![current][m] = @ + 1]
  /\ LeaveSection(w)
  /\ UNCHANGED <<blocked, taskVars, current, pc, picked>>
Wait(m, w) ==
  /\ blocked' = [blocked EXCEPT ![m] = <<current>> \o @]
  /\ loop' = [loop EXCEPT ![current] = m]
  /\ BlockHere(w)
  /\ UNCHANGED <<held, count, owed>>
TakesWhenWoken(m, w) ==
  \/ held[m] = NoTask /\ Hold(m, 1, w)
  \/ loop[current] = m /\ Hold(m, 1, w)
  \/ held[m] \notin {NoTask, current} /\ loop[current] # m /\ Wait(m, w)
TurnOf(m, w) ==
  \/ held[m] = NoTask /\ Hold(m, 1, w)
  \/ held[m] = current /\ Hold(m, count[m] + 1, w)
  \/ held[m] \notin {NoTask, current} /\ Wait(m, w)

Acquire(m) ==
  /\ Running /\ owed[current][m] < MaxCount /\ Len(wind) < MaxDepth
  /\ TurnOf(m, Append(wind, InterruptsOn))

Retry ==
  /\ pc = "user" /\ loop[current] # NoMutex
  /\ TurnOf(loop[current], wind)

(* Broken variant: whoever holds it.                                       *)
MayAlwaysRelease(m) == TRUE
MayRelease(m) == held[m] = current

Release(m) ==
  /\ Running /\ MayRelease(m)
  /\ count' = [count EXCEPT ![m] = @ - 1]
  /\ owed' = [owed EXCEPT ![current][m] = @ - 1]
  /\ IF count[m] = 1
       THEN /\ blocked' = [blocked EXCEPT ![m] = << >>]
            /\ held' = [held EXCEPT ![m] = NoTask]
            /\ UnblockAll(blocked[m])
       ELSE UNCHANGED <<blocked, held, state, queue>>
  /\ LeaveSection(Append(wind, InterruptsOn))
  /\ UNCHANGED <<loop, critical, kont, all, current, pc, picked>>
-----------------------------------------------------------------------------
(* The rest of what programs do: they unblock each other's tasks at any    *)
(* time, but end or kill no task that holds a mutex.                       *)
Holder(t) == \E m \in Mutexes : held[m] = t
Program ==
  /\ Running
  /\ \/ Yield
     \/ ~Holder(current) /\ Return
     \/ \E t \in Tasks :
          \/ Spawn(t)
          \/ ~Holder(t) /\ Kill(t)
          \/ /\ loop[t] # NoMutex => Len(blocked[loop[t]]) < MaxBlocked
             /\ Unblock(t)

MutexNext ==
  \/ \E m \in Mutexes : Acquire(m) \/ Release(m)
  \/ Retry
  \/ /\ \/ Program
        \/ Preempt
        \/ Dispatch
     /\ UNCHANGED mutexVars

MutexSpec == MutexInit /\ [][MutexNext]_<<vars, mutexVars>>
-----------------------------------------------------------------------------
MutexTypeOK ==
  /\ TypeOK
  /\ held \in [Mutexes -> Tasks \cup {NoTask}]
  /\ count \in [Mutexes -> 0 .. MaxCount] /\ blocked \in [Mutexes -> Seq(Tasks)]
  /\ loop \in [Tasks -> Mutexes \cup {NoMutex}]
  /\ owed \in [Tasks -> [Mutexes -> Nat]]

(* "If it has been acquired n times, MUTEX-RELEASE must be called n times  *)
(* to relinquish ownership": whatever preemptions, wakeups and kills come  *)
(* between, only the holder has acquires to release, as many as count.     *)
OneOwner ==
  \A t \in Tasks, m \in Mutexes :
    owed[t][m] = IF held[m] = t THEN count[m] ELSE 0

(* No wakeup is lost: a task that is blocked on a mutex is on its list,    *)
(* and somebody else holds the mutex who is neither dead nor blocked on    *)
(* it, and whose release will unblock the task.                            *)
NoLostWakeup ==
  \A t \in Tasks, m \in Mutexes :
    loop[t] = m /\ state[t] = "blocked" =>
      /\ \E i \in DOMAIN blocked[m] : blocked[m][i] = t
      /\ held[m] \notin {NoTask, t}
      /\ state[held[m]] # "dead" /\ loop[held[m]] # m

(* A task that waits is in the loop of mutex-acquire and will go on there. *)
WaitersKeepTheirPlace ==
  \A t \in Tasks :
    loop[t] # NoMutex /\ state[t] \in {"runnable", "blocked"} => kont[t].pc = "user"
=============================================================================
