----------------------------- MODULE TaskBlocking -----------------------------
(* What the synchronization objects of lib/Standard share: their           *)
(* operations are critical sections (without-interrupts) that block the    *)
(* current task or unblock others in their midst.                          *)
EXTENDS Tasking

CONSTANT QuickScheduler   \* does what is left of a timeslice always outlast
                          \* the scheduler?

BlockingAssumption == QuickScheduler \in BOOLEAN

Preempt == (QuickScheduler => pc = "user") /\ TimerInterrupt

(* The end of the critical section that is the last of the winds w.        *)
LeaveSection(w) ==
  /\ wind' = SubSeq(w, 1, Len(w) - 1)
  /\ timer' = IF w[Len(w)] THEN "low" ELSE "off"

(* (block (current-task)) in the critical section that is the last of w.   *)
BlockHere(w) ==
  /\ Stop(current, "blocked", Kont("user", w, NoTask, FALSE), TRUE)
  /\ UNCHANGED all

(* unblock, for each task of a sequence: the blocked ones become runnable  *)
(* and are put on the run queue in the order in which they come first.     *)
Woken(b) == {t \in Tasks : state[t] = "blocked" /\ \E i \in DOMAIN b : b[i] = t}
ComesBefore(b, t, u) ==
  \E k \in DOMAIN b : b[k] = t /\ \A l \in 1 .. k : b[l] # u
Orders(b) ==
  {s \in [1 .. Cardinality(Woken(b)) -> Woken(b)] :
     /\ \A t \in Woken(b) : \E i \in DOMAIN s : s[i] = t
     /\ \A i, j \in DOMAIN s : i < j => ComesBefore(b, s[i], s[j])}

(* Broken variant: only the first of the blocked tasks is unblocked.       *)
UnblockFirst(b) ==
  LET first == {t \in Woken(b) : b[1] = t} IN
  /\ state' = [t \in Tasks |-> IF t \in first THEN "runnable" ELSE state[t]]
  /\ queue' = IF first = {} THEN queue ELSE QueuePut(queue, b[1])
UnblockAll(b) ==
  /\ state' = [t \in Tasks |-> IF t \in Woken(b) THEN "runnable" ELSE state[t]]
  /\ \E s \in Orders(b) : queue' = QueuePutAll(queue, s)
===============================================================================
